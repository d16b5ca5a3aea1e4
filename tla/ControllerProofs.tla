------------------------- MODULE ControllerProofs ---------------------------
(***************************************************************************)
(* The cron controller for any schedule, clocks and leaders: which runs    *)
(* are stored, and how often.  The start of a run of closed readiness      *)
(* gates.  The quorum that the removal of a control node leaves.           *)
(***************************************************************************)
EXTENDS CronController, FleetHealth, ControlMembership, FiniteSetTheorems, TLAPS

\* Steps that name no prover are tried with Zenon, then with the SMT solver.
USE ZenonT(20), SMTT(30)

-----------------------------------------------------------------------------
(* Cron workloads.                                                         *)

\* The records and what was observed of them.  A later time has had as many
\* submissions before it as an earlier one, and a time after the checkpoint has
\* had one.
CronTyped ==
    /\ crons \in Records
    /\ stored \in [Cron -> [Due -> Nat]]
    /\ submitted \in [Cron -> SUBSET Time]
    /\ resets \in [Cron -> [Due -> Nat]]

Covered(records) ==
    \A c \in Cron : records[c] # None =>
        \A t \in Due : records[c].last_triggered_at < t => resets[c][t] > 0

RecordsInv ==
    /\ CronTyped
    /\ \A c \in Cron, t, u \in Due : t <= u => resets[c][t] <= resets[c][u]
    /\ Covered(crons)
    /\ NoRunLost /\ NoBackfill

\* A trigger in flight is for a cron that exists and for a time after a submission.
Grounded(t) == t \in Trigger /\ crons[t.cron] # None /\ resets[t.cron][t.due] > 0

LeaderInv ==
    /\ now \in 0 .. MaxTime /\ skew \in 0 .. MaxSkew /\ behind \in BOOLEAN /\ failovers \in Nat
    /\ replica \in Records /\ Covered(replica)
    /\ \A c \in Cron : replica[c] # None => crons[c] # None
    /\ todo \subseteq Listed /\ submitting \subseteq Submit
    /\ \A x \in todo : Local[x.cron] # None
    /\ proposed # None => Grounded(proposed)
    /\ \A o \in orphans : o \in Submit \/ Grounded(o)

\* A time may be triggered once more while the checkpoint, or the checkpoint
\* that a trigger in flight is about to leave, is before it.
Open(c, t) ==
    \/ crons[c] # None /\ crons[c].last_triggered_at < t
    \/ proposed # None /\ proposed.cron = c /\ proposed.due <= t

OnceInv ==
    failovers = 0 =>
        /\ ~behind /\ orphans = {}
        /\ \A c \in Cron, t \in Due :
              /\ stored[c][t] <= resets[c][t]
              /\ Open(c, t) => stored[c][t] < resets[c][t]

CronInv == RecordsInv /\ LeaderInv /\ OnceInv

\* Every set of natural numbers has a least one.
LEMMA LeastNatural ==
    ASSUME NEW T, T \subseteq Nat, T # {}
    PROVE  \E x \in T : \A y \in T : x <= y
  <1>1. PICK R : R = OpToRel(<, Nat)
    OBVIOUS
  <1>2. IsWellFoundedOn(R, Nat)
    BY <1>1, NatLessThanWellFounded
  <1>3. PICK x \in T : \A y \in T : <<y, x>> \notin R
    BY <1>2, WFMin
  <1>4. ASSUME NEW y \in T PROVE x <= y
    <2>1. x \in Nat /\ y \in Nat
      OBVIOUS
    <2>2. <<y, x>> \in R <=> y < x
      BY <1>1, <2>1 DEF OpToRel
    <2>3. ~(y < x)
      BY <1>3, <2>2
    <2>. QED  BY <2>1, <2>3, SMTT(30)
  <1>. QED  BY <1>4

\* What is due is a scheduled time after the checkpoint.
LEMMA LatestDueIs ==
    ASSUME LeaderInv, NEW since \in Time
    PROVE  LatestDue(since) = None \/ (LatestDue(since) \in Due /\ since < LatestDue(since))
  <1>1. Missed(since) \subseteq Due /\ \A t \in Missed(since) : since < t /\ t \in Nat /\ t <= Clock
    BY CronAssumption, SMTT(30) DEF Missed, Time
  <1>2. PICK clock \in Nat : clock = Clock
    BY CronAssumption, SMTT(30) DEF LeaderInv, Clock
  <1>3. CASE Missed(since) # {}
    <2> DEFINE T == {clock - t : t \in Missed(since)}
    <2>1. T \subseteq Nat /\ T # {}
      BY <1>1, <1>2, <1>3, SMTT(30)
    <2>2. PICK x \in T : \A y \in T : x <= y
      BY <2>1, LeastNatural
    <2>3. PICK t \in Missed(since) : x = clock - t
      BY <2>2
    <2>4. \A u \in Missed(since) : u <= t
      <3> SUFFICES ASSUME NEW u \in Missed(since) PROVE u <= t
        OBVIOUS
      <3>1. clock - t <= clock - u
        BY <2>2, <2>3
      <3>. QED  BY <1>1, <3>1, SMTT(30)
    <2>5. LatestDue(since) \in Missed(since)
      BY <1>3, <2>4 DEF LatestDue
    <2>. QED  BY <1>1, <2>5
  <1>4. CASE Missed(since) = {}
    <2>1. LatestDue(since) = None
      BY <1>4 DEF LatestDue
    <2>. QED  BY <2>1
  <1>. QED  BY <1>3, <1>4

\* Submission and trigger are different commands.
LEMMA KindsDiffer == \A o \in Trigger : o \notin Submit
  <1> SUFFICES ASSUME NEW o \in Trigger, o \in Submit PROVE FALSE
    OBVIOUS
  <1>1. DOMAIN o = {"cron", "due"}
    BY DEF Trigger
  <1>2. DOMAIN o = {"cron", "suspend", "at"}
    BY DEF Submit
  <1>. QED  BY <1>1, <1>2, SMTT(30)

\* Nothing is submitted at first.
LEMMA CronInitHolds == CronInit => CronInv
  <1> SUFFICES ASSUME CronInit PROVE CronInv
    OBVIOUS
  <1>1. RecordsInv
    BY SMTT(30) DEF CronInit, RecordsInv, CronTyped, Covered, NoRunLost, NoBackfill, Runs, Records
  <1>2. LeaderInv
    <2>0. now = 0 /\ skew \in 0 .. MaxSkew /\ behind = FALSE /\ failovers = 0
      BY DEF CronInit
    <2>1. now \in 0 .. MaxTime /\ skew \in 0 .. MaxSkew /\ behind \in BOOLEAN /\ failovers \in Nat
      <3>1. now \in 0 .. MaxTime /\ skew \in 0 .. MaxSkew /\ failovers \in Nat
        BY <2>0, CronAssumption, SMTT(30)
      <3>. QED  BY <2>0, <3>1
    <2>2. replica \in Records /\ \A c \in Cron : replica[c] = None
      <3>1. replica = [c \in Cron |-> None]
        BY DEF CronInit
      <3>. QED  BY <3>1 DEF Records
    <2>3. todo = {} /\ submitting = {} /\ proposed = None /\ orphans = {}
      BY DEF CronInit
    <2>. QED  BY <2>1, <2>2, <2>3 DEF LeaderInv, Covered
  <1>3. OnceInv
    BY SMTT(30) DEF CronInit, OnceInv, Open
  <1>. QED  BY <1>1, <1>2, <1>3 DEF CronInv

\* What storing a submission changes.
LEMMA SubmitEffect ==
    ASSUME CronTyped, NEW m \in Submit, ApplySubmit(m)
    PROVE  /\ CronTyped' /\ stored' = stored
           /\ \A c \in Cron : c # m.cron => crons'[c] = crons[c] /\ submitted'[c] = submitted[c] /\ resets'[c] = resets[c]
           /\ m.cron \in Cron /\ m.at \in Time
           /\ crons'[m.cron] \in Record /\ crons'[m.cron].last_triggered_at = m.at
           /\ submitted'[m.cron] = submitted[m.cron] \cup {m.at}
           /\ \A t \in Due : resets'[m.cron][t] = IF m.at < t THEN resets[m.cron][t] + 1 ELSE resets[m.cron][t]
  <1>1. m.cron \in Cron /\ m.at \in Time /\ m.suspend \in BOOLEAN
    BY DEF Submit
  <1>2. PICK r : r = [suspend |-> m.suspend, last_triggered_at |-> m.at]
    OBVIOUS
  <1>3. r \in Record /\ r.last_triggered_at = m.at
    BY <1>1, <1>2 DEF Record
  <1>4. PICK g : g = [t \in Due |-> IF m.at < t THEN resets[m.cron][t] + 1 ELSE resets[m.cron][t]]
    OBVIOUS
  <1>5. g \in [Due -> Nat]
    BY <1>1, <1>4, SMTT(30) DEF CronTyped
  <1>6. /\ crons' = [crons EXCEPT ![m.cron] = r] /\ stored' = stored
        /\ submitted' = [submitted EXCEPT ![m.cron] = submitted[m.cron] \cup {m.at}]
        /\ resets' = [resets EXCEPT ![m.cron] = g]
    BY <1>2, <1>4 DEF ApplySubmit
  <1>7. crons' \in Records /\ submitted' \in [Cron -> SUBSET Time] /\ resets' \in [Cron -> [Due -> Nat]]
    BY <1>1, <1>3, <1>5, <1>6 DEF CronTyped, Records
  <1>8. crons'[m.cron] = r /\ resets'[m.cron] = g /\ submitted'[m.cron] = submitted[m.cron] \cup {m.at}
    BY <1>1, <1>6 DEF CronTyped, Records
  <1>9. \A c \in Cron : c # m.cron => crons'[c] = crons[c] /\ submitted'[c] = submitted[c] /\ resets'[c] = resets[c]
    BY <1>1, <1>6 DEF CronTyped, Records
  <1>. QED  BY <1>1, <1>3, <1>4, <1>6, <1>7, <1>8, <1>9 DEF CronTyped

\* What storing a run changes.
LEMMA TriggerEffect ==
    ASSUME CronTyped, NEW o \in Trigger, crons[o.cron] # None, ApplyTrigger(o)
    PROVE  /\ CronTyped' /\ submitted' = submitted /\ resets' = resets
           /\ \A c \in Cron : c # o.cron => crons'[c] = crons[c] /\ stored'[c] = stored[c]
           /\ o.cron \in Cron /\ o.due \in Due /\ o.due \in Time
           /\ crons'[o.cron] \in Record /\ crons'[o.cron].last_triggered_at = o.due
           /\ \A t \in Due : stored'[o.cron][t] = IF t = o.due THEN stored[o.cron][t] + 1 ELSE stored[o.cron][t]
  <1>1. o.cron \in Cron /\ o.due \in Due /\ o.due \in Time
    BY CronAssumption DEF Trigger
  <1>2. PICK r : r = [crons[o.cron] EXCEPT !.last_triggered_at = o.due]
    OBVIOUS
  <1>3. r \in Record /\ r.last_triggered_at = o.due
    BY <1>1, <1>2 DEF CronTyped, Records, Record
  <1>4. PICK g : g = [stored[o.cron] EXCEPT ![o.due] = stored[o.cron][o.due] + 1]
    OBVIOUS
  <1>5. g \in [Due -> Nat] /\ \A t \in Due : g[t] = IF t = o.due THEN stored[o.cron][t] + 1 ELSE stored[o.cron][t]
    BY <1>1, <1>4, SMTT(30) DEF CronTyped
  <1>6. /\ crons' = [crons EXCEPT ![o.cron] = r] /\ UNCHANGED <<submitted, resets>>
        /\ stored' = [stored EXCEPT ![o.cron] = g]
    BY <1>1, <1>2, <1>4 DEF ApplyTrigger, CronTyped, Records
  <1>7. crons' \in Records /\ stored' \in [Cron -> [Due -> Nat]]
    BY <1>1, <1>3, <1>5, <1>6 DEF CronTyped, Records
  <1>8. crons'[o.cron] = r /\ stored'[o.cron] = g
    BY <1>1, <1>6 DEF CronTyped, Records
  <1>9. \A c \in Cron : c # o.cron => crons'[c] = crons[c] /\ stored'[c] = stored[c]
    BY <1>1, <1>6 DEF CronTyped, Records
  <1>. QED  BY <1>1, <1>3, <1>5, <1>6, <1>7, <1>8, <1>9 DEF CronTyped

\* Storing a submission keeps what holds of the records.
LEMMA SubmitKeepsRecords ==
    ASSUME RecordsInv, NEW m \in Submit, ApplySubmit(m)
    PROVE  /\ RecordsInv'
           /\ \A c \in Cron : crons[c] # None => crons'[c] # None
           /\ \A c \in Cron, t \in Due : resets[c][t] <= resets'[c][t]
  <1>1. /\ CronTyped' /\ stored' = stored
        /\ \A c \in Cron : c # m.cron => crons'[c] = crons[c] /\ submitted'[c] = submitted[c] /\ resets'[c] = resets[c]
        /\ m.cron \in Cron /\ m.at \in Time
        /\ crons'[m.cron] \in Record /\ crons'[m.cron].last_triggered_at = m.at
        /\ submitted'[m.cron] = submitted[m.cron] \cup {m.at}
        /\ \A t \in Due : resets'[m.cron][t] = IF m.at < t THEN resets[m.cron][t] + 1 ELSE resets[m.cron][t]
    BY SubmitEffect DEF RecordsInv
  <1>2. /\ \A t \in Due : t \in Nat /\ \A c \in Cron : resets[c][t] \in Nat
        /\ m.at \in Nat
    BY <1>1, CronAssumption, SMTT(30) DEF Time, RecordsInv, CronTyped
  <1>3. \A c \in Cron, t \in Due : resets[c][t] <= resets'[c][t]
    BY <1>1, <1>2, SMTT(30)
  <1>4. \A c \in Cron, t, u \in Due : t <= u => resets'[c][t] <= resets'[c][u]
    <2> SUFFICES ASSUME NEW c \in Cron, NEW t \in Due, NEW u \in Due, t <= u PROVE resets'[c][t] <= resets'[c][u]
      OBVIOUS
    <2>1. resets[c][t] <= resets[c][u]
      BY DEF RecordsInv
    <2>. QED  BY <1>1, <1>2, <2>1, SMTT(30)
  <1>5. Covered(crons)'
    <2> SUFFICES ASSUME NEW c \in Cron, crons'[c] # None, NEW t \in Due, crons'[c].last_triggered_at < t
                 PROVE  resets'[c][t] > 0
      BY DEF Covered
    <2>1. CASE c = m.cron
      BY <1>1, <1>2, <2>1, SMTT(30)
    <2>2. CASE c # m.cron
      BY <1>1, <2>2 DEF RecordsInv, Covered
    <2>. QED  BY <2>1, <2>2
  <1>6. NoRunLost'
    BY <1>1, SMTT(30) DEF RecordsInv, NoRunLost, Runs
  <1>7. NoBackfill'
    <2> SUFFICES ASSUME NEW c \in Cron, NEW t \in Due, stored[c][t] > 0 PROVE resets'[c][t] > 0
      BY <1>1 DEF NoBackfill, Runs
    <2>1. resets[c][t] > 0
      BY DEF RecordsInv, NoBackfill, Runs
    <2>. QED  BY <1>1, <1>2, <2>1, SMTT(30)
  <1>8. \A c \in Cron : crons[c] # None => crons'[c] # None
    BY <1>1, NoneAssumption
  <1>. QED  BY <1>1, <1>3, <1>4, <1>5, <1>6, <1>7, <1>8 DEF RecordsInv

\* Storing a run, and the checkpoint with it, keeps what holds of the records.
LEMMA TriggerKeepsRecords ==
    ASSUME RecordsInv, NEW o, Grounded(o), ApplyTrigger(o)
    PROVE  /\ RecordsInv'
           /\ \A c \in Cron : crons[c] # None => crons'[c] # None
           /\ resets' = resets
  <1>1. /\ CronTyped' /\ submitted' = submitted /\ resets' = resets
        /\ \A c \in Cron : c # o.cron => crons'[c] = crons[c] /\ stored'[c] = stored[c]
        /\ o.cron \in Cron /\ o.due \in Due /\ o.due \in Time
        /\ crons'[o.cron] \in Record /\ crons'[o.cron].last_triggered_at = o.due
        /\ \A t \in Due : stored'[o.cron][t] = IF t = o.due THEN stored[o.cron][t] + 1 ELSE stored[o.cron][t]
    BY TriggerEffect DEF RecordsInv, Grounded
  <1>2. /\ \A t \in Due : t \in Nat /\ \A c \in Cron : resets[c][t] \in Nat /\ stored[c][t] \in Nat
        /\ resets[o.cron][o.due] > 0
    BY <1>1, CronAssumption, SMTT(30) DEF Time, RecordsInv, CronTyped, Grounded
  <1>3. \A c \in Cron, t, u \in Due : t <= u => resets'[c][t] <= resets'[c][u]
    BY <1>1 DEF RecordsInv
  <1>4. Covered(crons)'
    <2> SUFFICES ASSUME NEW c \in Cron, crons'[c] # None, NEW t \in Due, crons'[c].last_triggered_at < t
                 PROVE  resets[c][t] > 0
      BY <1>1 DEF Covered
    <2>1. CASE c = o.cron
      <3>1. o.due <= t
        BY <1>1, <1>2, <2>1, SMTT(30)
      <3>2. resets[c][o.due] <= resets[c][t]
        BY <1>1, <3>1 DEF RecordsInv
      <3>. QED  BY <1>1, <1>2, <2>1, <3>2, SMTT(30)
    <2>2. CASE c # o.cron
      BY <1>1, <2>2 DEF RecordsInv, Covered
    <2>. QED  BY <2>1, <2>2
  <1>5. NoRunLost'
    <2> SUFFICES ASSUME NEW c \in Cron, crons'[c] # None
                 PROVE  crons'[c].last_triggered_at \in submitted[c] \/ crons'[c].last_triggered_at \in Runs(c)'
      BY <1>1 DEF NoRunLost
    <2>1. CASE c = o.cron
      <3>1. o.due \in Runs(c)'
        BY <1>1, <1>2, <2>1, SMTT(30) DEF Runs
      <3>. QED  BY <1>1, <2>1, <3>1
    <2>2. CASE c # o.cron
      BY <1>1, <2>2 DEF RecordsInv, NoRunLost, Runs
    <2>. QED  BY <2>1, <2>2
  <1>6. NoBackfill'
    <2> SUFFICES ASSUME NEW c \in Cron, NEW t \in Due, stored'[c][t] > 0 PROVE resets[c][t] > 0
      BY <1>1 DEF NoBackfill, Runs
    <2>1. CASE c = o.cron /\ t = o.due
      BY <1>2, <2>1
    <2>2. CASE ~(c = o.cron /\ t = o.due)
      <3>1. stored[c][t] > 0
        BY <1>1, <2>2
      <3>. QED  BY <3>1 DEF RecordsInv, NoBackfill, Runs
    <2>. QED  BY <2>1, <2>2
  <1>7. \A c \in Cron : crons[c] # None => crons'[c] # None
    BY <1>1, NoneAssumption
  <1>. QED  BY <1>1, <1>3, <1>4, <1>5, <1>6, <1>7 DEF RecordsInv

\* A step that keeps the records, or replaces some of them, keeps what the
\* leader and its replica know when these take no step.
LEMMA LeaderKeeps ==
    ASSUME LeaderInv, UNCHANGED <<now, skew, behind, replica, todo>>, failovers' = failovers,
           resets \in [Cron -> [Due -> Nat]], resets' \in [Cron -> [Due -> Nat]],
           \A c \in Cron : crons[c] # None => crons'[c] # None,
           \A c \in Cron, t \in Due : resets[c][t] <= resets'[c][t],
           proposed' \in {proposed, None}, orphans' \subseteq orphans, submitting' \subseteq submitting
    PROVE  LeaderInv'
  <1>1. \A o : Grounded(o) => Grounded(o)'
    <2> SUFFICES ASSUME NEW o, Grounded(o) PROVE Grounded(o)'
      OBVIOUS
    <2>1. o \in Trigger /\ o.cron \in Cron /\ o.due \in Due
      BY DEF Grounded, Trigger
    <2>. QED  BY <2>1, SMTT(30) DEF Grounded
  <1>2. Covered(replica)'
    <2> SUFFICES ASSUME NEW c \in Cron, replica[c] # None, NEW t \in Due, replica[c].last_triggered_at < t
                 PROVE  resets'[c][t] > 0
      BY DEF Covered
    <2>1. resets[c][t] > 0
      BY DEF LeaderInv, Covered
    <2>. QED  BY <2>1, SMTT(30)
  <1>3. \A x \in todo' : Local'[x.cron] # None
    <2> SUFFICES ASSUME NEW x \in todo PROVE Local'[x.cron] # None
      OBVIOUS
    <2>1. x.cron \in Cron /\ Local[x.cron] # None
      BY DEF LeaderInv, Listed
    <2>. QED  BY <2>1 DEF Local
  <1>. QED  BY <1>1, <1>2, <1>3 DEF LeaderInv

\* Steps that leave the records alone.
LEMMA RecordsKept ==
    ASSUME RecordsInv, UNCHANGED state
    PROVE  /\ RecordsInv' /\ resets \in [Cron -> [Due -> Nat]] /\ resets' = resets /\ crons' = crons /\ stored' = stored
           /\ \A c \in Cron, t \in Due : resets[c][t] <= resets'[c][t]
  <1>1. crons' = crons /\ stored' = stored /\ submitted' = submitted /\ resets' = resets
    BY DEF state
  <1>2. RecordsInv'
    BY <1>1 DEF RecordsInv, CronTyped, Covered, NoRunLost, NoBackfill, Runs
  <1>3. resets \in [Cron -> [Due -> Nat]]
    BY DEF RecordsInv, CronTyped
  <1>. QED  BY <1>1, <1>2, <1>3, SMTT(30)

\* Whatever the records, a change of leader ends what is said of one leader.
LEMMA SubmitKeepsOnce ==
    ASSUME RecordsInv, OnceInv, NEW m \in Submit, ApplySubmit(m),
           UNCHANGED <<behind, proposed>>, failovers' = failovers, orphans' \subseteq orphans
    PROVE  OnceInv'
  <1> SUFFICES ASSUME failovers = 0, NEW c \in Cron, NEW t \in Due
               PROVE  stored'[c][t] <= resets'[c][t] /\ (Open(c, t)' => stored'[c][t] < resets'[c][t])
    BY DEF OnceInv
  <1>1. /\ stored' = stored
        /\ c # m.cron => crons'[c] = crons[c] /\ resets'[c] = resets[c]
        /\ m.at \in Time /\ crons'[m.cron].last_triggered_at = m.at
        /\ c = m.cron => resets'[c][t] = IF m.at < t THEN resets[c][t] + 1 ELSE resets[c][t]
    BY SubmitEffect, SMTT(30) DEF RecordsInv
  <1>2. stored[c][t] \in Nat /\ resets[c][t] \in Nat /\ t \in Nat /\ m.at \in Nat
    BY <1>1, CronAssumption, SMTT(30) DEF RecordsInv, CronTyped, Time
  <1>3. stored[c][t] <= resets[c][t] /\ (Open(c, t) => stored[c][t] < resets[c][t])
    BY DEF OnceInv
  <1>4. CASE c = m.cron
    <2>1. CASE m.at < t
      BY <1>1, <1>2, <1>3, <1>4, <2>1, SMTT(30)
    <2>2. CASE ~(m.at < t)
      <3>1. Open(c, t)' => Open(c, t)
        BY <1>1, <1>4, <2>2 DEF Open
      <3>. QED  BY <1>1, <1>2, <1>3, <1>4, <2>2, <3>1
    <2>. QED  BY <2>1, <2>2
  <1>5. CASE c # m.cron
    <2>1. Open(c, t)' => Open(c, t)
      BY <1>1, <1>5 DEF Open
    <2>. QED  BY <1>1, <1>3, <1>5, <2>1
  <1>. QED  BY <1>4, <1>5

\* The trigger of the one leader uses up what was open.
LEMMA TriggerKeepsOnce ==
    ASSUME RecordsInv, OnceInv, Grounded(proposed), proposed # None, ApplyTrigger(proposed),
           UNCHANGED <<behind, orphans>>, failovers' = failovers, proposed' = None
    PROVE  OnceInv'
  <1> SUFFICES ASSUME failovers = 0, NEW c \in Cron, NEW t \in Due
               PROVE  stored'[c][t] <= resets'[c][t] /\ (Open(c, t)' => stored'[c][t] < resets'[c][t])
    BY DEF OnceInv
  <1>0. CronTyped /\ proposed \in Trigger /\ crons[proposed.cron] # None
    BY DEF RecordsInv, Grounded
  <1>1. /\ resets' = resets
        /\ c # proposed.cron => crons'[c] = crons[c] /\ stored'[c] = stored[c]
        /\ proposed.due \in Due /\ crons'[proposed.cron].last_triggered_at = proposed.due
        /\ c = proposed.cron => stored'[c][t] = IF t = proposed.due THEN stored[c][t] + 1 ELSE stored[c][t]
    BY <1>0, TriggerEffect
  <1>2. stored[c][t] \in Nat /\ resets[c][t] \in Nat /\ t \in Nat /\ proposed.due \in Nat
    <2>1. \A u \in Due : u \in Nat
      BY CronAssumption, SMTT(30) DEF Time
    <2>2. proposed.due \in Due
      BY <1>0 DEF Trigger
    <2>. QED  BY <1>0, <2>1, <2>2 DEF CronTyped
  <1>3. stored[c][t] <= resets[c][t] /\ (Open(c, t) => stored[c][t] < resets[c][t])
    BY DEF OnceInv
  <1>4. CASE c = proposed.cron
    <2>1. Open(c, t)' => proposed.due < t
      BY <1>1, <1>4 DEF Open
    <2>2. proposed.due <= t => Open(c, t)
      BY <1>4 DEF Open
    <2>. QED  BY <1>1, <1>2, <1>3, <1>4, <2>1, <2>2, SMTT(30)
  <1>5. CASE c # proposed.cron
    <2>1. Open(c, t)' => Open(c, t)
      BY <1>1, <1>5 DEF Open
    <2>. QED  BY <1>1, <1>3, <1>5, <2>1
  <1>. QED  BY <1>4, <1>5

\* Steps that leave the records, the proposal and the leader alone.
LEMMA OnceKept ==
    ASSUME OnceInv, UNCHANGED state, UNCHANGED <<behind, orphans, failovers>>, proposed' \in {proposed, None}
    PROVE  OnceInv'
  <1>1. crons' = crons /\ stored' = stored /\ resets' = resets
    BY DEF state
  <1>2. \A c, t : Open(c, t)' => Open(c, t)
    BY <1>1 DEF Open
  <1>. QED  BY <1>1, <1>2 DEF OnceInv

\* The invariant is inductive.
LEMMA CronStepHolds == CronInv /\ [CronNext]_cronVars => CronInv'
  <1> SUFFICES ASSUME CronInv, [CronNext]_cronVars PROVE CronInv'
    OBVIOUS
  <1>0. /\ RecordsInv /\ LeaderInv /\ OnceInv /\ CronTyped
        /\ resets \in [Cron -> [Due -> Nat]]
        /\ now \in 0 .. MaxTime /\ skew \in 0 .. MaxSkew
    BY DEF CronInv, RecordsInv, CronTyped, LeaderInv
  <1>1. CASE UNCHANGED cronVars
    <2>1. UNCHANGED state /\ UNCHANGED <<now, skew, behind, replica, todo, failovers, proposed, orphans, submitting>>
      BY <1>1 DEF cronVars, state, leader
    <2>. QED  BY <1>0, <2>1, RecordsKept, LeaderKeeps, OnceKept DEF CronInv
  <1>2. ASSUME NEW c \in Cron, NEW suspend \in BOOLEAN, SubmitCronWorkload(c, suspend) PROVE CronInv'
    <2>1. /\ UNCHANGED state /\ UNCHANGED <<now, skew, behind, replica, todo, failovers, proposed, orphans>>
          /\ submitting' = submitting \cup {[cron |-> c, suspend |-> suspend, at |-> Clock]}
      BY <1>2 DEF SubmitCronWorkload, leader
    <2>2. Clock \in Time
      BY <1>0, CronAssumption, SMTT(30) DEF Clock, Time
    <2>3. [cron |-> c, suspend |-> suspend, at |-> Clock] \in Submit
      BY <2>2 DEF Submit
    <2>4. submitting' \subseteq Submit
      BY <1>0, <2>1, <2>3 DEF LeaderInv
    <2>5. LeaderInv'
      BY <1>0, <2>1, <2>4 DEF LeaderInv, Covered, Grounded, Local, state
    <2>. QED  BY <1>0, <2>1, <2>5, RecordsKept, OnceKept DEF CronInv
  <1>3. ASSUME NEW m \in submitting, CommitSubmit(m) PROVE CronInv'
    <2>1. m \in Submit /\ ApplySubmit(m)
      BY <1>0, <1>3 DEF CommitSubmit, LeaderInv
    <2>2. UNCHANGED <<now, skew, behind, replica, todo, failovers, proposed, orphans>> /\ submitting' \subseteq submitting
      BY <1>3 DEF CommitSubmit, leader
    <2>3. /\ RecordsInv' /\ \A c \in Cron : crons[c] # None => crons'[c] # None
          /\ \A c \in Cron, t \in Due : resets[c][t] <= resets'[c][t]
      BY <1>0, <2>1, SubmitKeepsRecords
    <2>4. resets' \in [Cron -> [Due -> Nat]]
      BY <2>3 DEF RecordsInv, CronTyped
    <2>5. LeaderInv'
      BY <1>0, <2>2, <2>3, <2>4, LeaderKeeps
    <2>6. OnceInv'
      BY <1>0, <2>1, <2>2, SubmitKeepsOnce
    <2>. QED  BY <2>3, <2>5, <2>6 DEF CronInv
  <1>4. CASE Tick
    <2>1. /\ UNCHANGED state /\ UNCHANGED <<now, skew, behind, replica, failovers, proposed, orphans, submitting>>
          /\ todo' = {[cron |-> c, suspend |-> Local[c].suspend] : c \in {d \in Cron : Local[d] # None}}
      BY <1>4 DEF Tick
    <2>2. \A c \in Cron : Local[c] # None => Local[c] \in Record
      BY <1>0 DEF Local, LeaderInv, CronTyped, Records
    <2>3. \A x \in todo' : x \in Listed /\ Local[x.cron] # None
      <3> SUFFICES ASSUME NEW x \in todo' PROVE x \in Listed /\ Local[x.cron] # None
        OBVIOUS
      <3>1. PICK c \in Cron : Local[c] # None /\ x = [cron |-> c, suspend |-> Local[c].suspend]
        BY <2>1
      <3>2. Local[c].suspend \in BOOLEAN
        BY <2>2, <3>1 DEF Record
      <3>. QED  BY <3>1, <3>2 DEF Listed
    <2>4. Local' = Local
      BY <2>1 DEF Local, state
    <2>5. LeaderInv'
      BY <1>0, <2>1, <2>3, <2>4 DEF LeaderInv, Covered, Grounded, state
    <2>. QED  BY <1>0, <2>1, <2>5, RecordsKept, OnceKept DEF CronInv
  <1>5. ASSUME NEW x \in todo, Evaluate(x) PROVE CronInv'
    <2>1. PICK due : due = LatestDue(Local[x.cron].last_triggered_at)
      OBVIOUS
    <2>2. /\ UNCHANGED state /\ UNCHANGED <<now, skew, behind, replica, failovers, orphans, submitting>>
          /\ todo' \subseteq todo /\ proposed = None
          /\ proposed' = IF x.suspend \/ due = None THEN None ELSE [cron |-> x.cron, due |-> due]
      BY <1>5, <2>1 DEF Evaluate
    <2>3. Local' = Local /\ crons' = crons /\ resets' = resets /\ stored' = stored
      BY <2>2 DEF Local, state
    <2>4. x.cron \in Cron /\ Local[x.cron] # None
      BY <1>0 DEF LeaderInv, Listed
    <2>5. Local[x.cron] \in Record
      BY <1>0, <2>4 DEF Local, LeaderInv, CronTyped, Records
    <2>6. PICK since \in Time : since = Local[x.cron].last_triggered_at
      BY <2>5 DEF Record
    <2>7. due = None \/ (due \in Due /\ since < due)
      BY <1>0, <2>1, <2>6, LatestDueIs
    <2>8. Covered(Local)
      BY <1>0 DEF LeaderInv, RecordsInv, Local, Covered
    <2>9. crons[x.cron] # None
      BY <1>0, <2>4 DEF Local, LeaderInv
    <2>10. CASE proposed' = None
      <3>1. LeaderInv'
        BY <1>0, <2>2, <2>3, <2>10 DEF LeaderInv, Covered, Grounded
      <3>. QED  BY <1>0, <2>2, <2>10, <3>1, RecordsKept, OnceKept DEF CronInv
    <2>11. CASE proposed' = [cron |-> x.cron, due |-> due] /\ due \in Due /\ since < due
      <3>1. proposed' \in Trigger /\ proposed'.cron = x.cron /\ proposed'.due = due
        BY <2>4, <2>11 DEF Trigger
      <3>2. resets[x.cron][due] > 0
        BY <2>4, <2>6, <2>8, <2>11 DEF Covered
      <3>3. Grounded(proposed)'
        BY <2>3, <2>9, <3>1, <3>2 DEF Grounded
      <3>4. LeaderInv'
        BY <1>0, <2>2, <2>3, <3>3 DEF LeaderInv, Covered, Grounded
      <3>5. OnceInv'
        <4> SUFFICES ASSUME failovers = 0, NEW c \in Cron, NEW t \in Due
                     PROVE  ~behind /\ orphans = {} /\ stored[c][t] <= resets[c][t] /\ (Open(c, t)' => stored[c][t] < resets[c][t])
          BY <1>0, <2>2, <2>3 DEF OnceInv
        <4>1. ~behind /\ orphans = {} /\ stored[c][t] <= resets[c][t] /\ (Open(c, t) => stored[c][t] < resets[c][t])
          BY <1>0 DEF OnceInv
        <4>2. since = crons[x.cron].last_triggered_at
          BY <2>6, <4>1 DEF Local
        <4>3. since \in Nat /\ due \in Nat /\ t \in Nat
          BY <2>11, CronAssumption, SMTT(30) DEF Time
        <4>4. Open(c, t)' => Open(c, t)
          BY <2>3, <2>9, <2>11, <3>1, <4>2, <4>3, SMTT(30) DEF Open
        <4>. QED  BY <4>1, <4>4
      <3>. QED  BY <1>0, <2>2, <3>4, <3>5, RecordsKept DEF CronInv
    <2>. QED  BY <2>2, <2>7, <2>10, <2>11
  <1>6. CASE CommitTrigger
    <2>1. /\ ApplyTrigger(proposed) /\ proposed # None /\ proposed' = None
          /\ UNCHANGED <<now, skew, behind, replica, todo, failovers, orphans, submitting>>
      BY <1>6 DEF CommitTrigger
    <2>2. Grounded(proposed)
      BY <1>0, <2>1 DEF LeaderInv
    <2>3. RecordsInv' /\ resets' = resets /\ \A c \in Cron : crons[c] # None => crons'[c] # None
      BY <1>0, <2>1, <2>2, TriggerKeepsRecords
    <2>4. \A c \in Cron, t \in Due : resets[c][t] <= resets'[c][t]
      BY <1>0, <2>3, SMTT(30)
    <2>5. LeaderInv'
      BY <1>0, <2>1, <2>3, <2>4, LeaderKeeps
    <2>6. OnceInv'
      BY <1>0, <2>1, <2>2, TriggerKeepsOnce
    <2>. QED  BY <2>3, <2>5, <2>6 DEF CronInv
  <1>7. CASE FollowerApplies \/ CatchUp
    <2>1. /\ UNCHANGED state /\ UNCHANGED <<now, skew, todo, proposed, failovers, orphans, submitting>>
          /\ replica' = crons /\ behind' = FALSE
      BY <1>0, <1>7 DEF FollowerApplies, CatchUp, LeaderInv
    <2>2. crons' = crons /\ resets' = resets /\ stored' = stored
      BY <2>1 DEF state
    <2>3. \A x \in todo : Local'[x.cron] # None
      <3> SUFFICES ASSUME NEW x \in todo PROVE Local'[x.cron] # None
        OBVIOUS
      <3>1. x.cron \in Cron /\ Local[x.cron] # None
        BY <1>0 DEF LeaderInv, Listed
      <3>. QED  BY <1>0, <2>1, <2>2, <3>1 DEF Local, LeaderInv
    <2>4. LeaderInv'
      BY <1>0, <2>1, <2>2, <2>3 DEF LeaderInv, RecordsInv, CronTyped, Covered, Grounded
    <2>5. OnceInv'
      BY <1>0, <2>1, <2>2 DEF OnceInv, Open
    <2>. QED  BY <1>0, <2>1, <2>4, <2>5, RecordsKept DEF CronInv
  <1>8. ASSUME NEW kept \in SUBSET InFlight, NEW s \in 0 .. MaxSkew, Failover(kept, s) PROVE CronInv'
    <2>1. /\ UNCHANGED state /\ UNCHANGED <<now, replica>>
          /\ orphans' = kept /\ submitting' = {} /\ skew' = s /\ behind' = TRUE /\ todo' = {} /\ proposed' = None
          /\ failovers' = failovers + 1
      BY <1>8 DEF Failover
    <2>2. crons' = crons /\ resets' = resets
      BY <2>1 DEF state
    <2>3. \A o \in kept : o \in Submit \/ Grounded(o)
      BY <1>0 DEF InFlight, LeaderInv
    <2>4. failovers' \in Nat /\ failovers' # 0
      BY <1>0, <2>1, SMTT(30) DEF LeaderInv
    <2>5. \A o \in orphans' : o \in Submit \/ Grounded(o)'
      BY <2>1, <2>2, <2>3 DEF Grounded
    <2>6. LeaderInv'
      BY <1>0, <2>1, <2>2, <2>4, <2>5 DEF LeaderInv, Covered
    <2>7. OnceInv'
      BY <2>4 DEF OnceInv
    <2>. QED  BY <1>0, <2>1, <2>6, <2>7, RecordsKept DEF CronInv
  <1>9. ASSUME NEW o \in orphans, ApplyOrphan(o) PROVE CronInv'
    <2>1. /\ UNCHANGED <<now, skew, behind, replica, todo, failovers, proposed, submitting>> /\ orphans' \subseteq orphans
          /\ IF o \in Submit THEN ApplySubmit(o) ELSE ApplyTrigger(o)
      BY <1>9 DEF ApplyOrphan, leader
    <2>2. failovers # 0
      BY <1>0 DEF OnceInv
    <2>3. OnceInv'
      BY <2>1, <2>2 DEF OnceInv
    <2>4. /\ RecordsInv' /\ \A c \in Cron : crons[c] # None => crons'[c] # None
          /\ \A c \in Cron, t \in Due : resets[c][t] <= resets'[c][t]
      <3>1. CASE o \in Submit
        BY <1>0, <2>1, <3>1, SubmitKeepsRecords
      <3>2. CASE o \notin Submit
        <4>1. Grounded(o) /\ ApplyTrigger(o)
          BY <1>0, <2>1, <3>2 DEF LeaderInv
        <4>2. RecordsInv' /\ resets' = resets /\ \A c \in Cron : crons[c] # None => crons'[c] # None
          BY <1>0, <4>1, TriggerKeepsRecords
        <4>. QED  BY <1>0, <4>2, SMTT(30)
      <3>. QED  BY <3>1, <3>2
    <2>5. resets' \in [Cron -> [Due -> Nat]]
      BY <2>4 DEF RecordsInv, CronTyped
    <2>6. LeaderInv'
      BY <1>0, <2>1, <2>4, <2>5, LeaderKeeps
    <2>. QED  BY <2>3, <2>4, <2>6 DEF CronInv
  <1>10. CASE PassTime
    <2>1. /\ UNCHANGED state /\ UNCHANGED <<skew, behind, replica, todo, failovers, proposed, orphans, submitting>>
          /\ now' = now + 1 /\ now < MaxTime
      BY <1>10 DEF PassTime, leader
    <2>2. now' \in 0 .. MaxTime
      BY <1>0, <2>1, CronAssumption, SMTT(30)
    <2>3. LeaderInv'
      BY <1>0, <2>1, <2>2 DEF LeaderInv, Covered, Grounded, Local, state
    <2>. QED  BY <1>0, <2>1, <2>3, RecordsKept, OnceKept DEF CronInv
  <1>. QED
    BY <1>1, <1>2, <1>3, <1>4, <1>5, <1>6, <1>7, <1>8, <1>9, <1>10 DEF CronNext, Loop

\* The checkpoint never passes a scheduled time without its run, and no run is
\* stored for a time before the first submission, whatever the clocks, the lag
\* of the replicas and the failovers (TriggerCronWorkload writes run and
\* checkpoint in one batch; SubmitCronWorkload).
THEOREM RunsAreNotLost == CronSpec => [](NoRunLost /\ NoBackfill)
  <1>1. CronInv => NoRunLost /\ NoBackfill
    BY DEF CronInv, RecordsInv
  <1>. QED  BY <1>1, CronInitHolds, CronStepHolds, PTL DEF CronSpec

\* Before the first change of leader no scheduled time is triggered more often
\* than submissions put the checkpoint before it (evaluate_and_trigger).
THEOREM OneLeaderTriggersOnce == CronSpec => []TriggersOncePerLeader
  <1>1. CronInv => TriggersOncePerLeader
    BY DEF CronInv, OnceInv, TriggersOncePerLeader
  <1>. QED  BY <1>1, CronInitHolds, CronStepHolds, PTL DEF CronSpec

-----------------------------------------------------------------------------
(* Readiness gates.                                                        *)

\* Without a stored report no report was applied.
HealthInv ==
    /\ transit \subseteq Report
    /\ workload_status \in {Unset} \cup WorkloadStatus
    /\ closed_run \in Seq(Age)
    /\ workload_status = Unset => closed_run = <<>>
    /\ MarkIsStartOfRun

\* Ages stay ages.
LEMMA OlderIsAge == \A a \in Age : Older(a) \in Age
  BY HealthAssumption, SMTT(30) DEF Older, Age

\* The mark and the run grow older together.
LEMMA MarkGrowsOlder ==
    ASSUME HealthInv, GrowOlder
    PROVE  HealthInv'
  <1>1. transit' \subseteq Report
    <2> SUFFICES ASSUME NEW x \in transit' PROVE x \in Report
      OBVIOUS
    <2>1. PICK r \in transit : x = [r EXCEPT !.observed = Older(r.observed)]
      BY DEF GrowOlder
    <2>2. r \in Report
      BY DEF HealthInv
    <2>. QED  BY <2>1, <2>2, OlderIsAge DEF Report
  <1>2. /\ closed_run' \in Seq(Age) /\ Len(closed_run') = Len(closed_run)
        /\ closed_run # <<>> => closed_run'[1] = Older(closed_run[1])
    BY OlderIsAge, SMTT(30) DEF GrowOlder, HealthInv
  <1>3. CASE workload_status = Unset
    <2>1. closed_run = <<>> /\ workload_status' = Unset
      BY <1>3 DEF HealthInv, GrowOlder
    <2>. QED  BY <1>1, <1>2, <2>1, SMTT(30) DEF HealthInv, MarkIsStartOfRun
  <1>4. CASE workload_status # Unset
    <2>1. PICK a \in Age, l \in BOOLEAN, g \in Age \cup {Unset} :
              workload_status = [observed |-> a, live |-> l, gate_violation_since |-> g]
      BY <1>4 DEF HealthInv, WorkloadStatus
    <2>2. workload_status' = [workload_status EXCEPT !.observed = Older(a), !.gate_violation_since = Older(g)]
      BY <1>4, <2>1 DEF GrowOlder
    <2>3. Older(a) \in Age /\ Older(g) \in Age \cup {Unset} /\ Older(Unset) = Unset
      BY OlderIsAge DEF Older
    <2>4. workload_status' \in WorkloadStatus /\ workload_status'.gate_violation_since = Older(g)
      BY <2>1, <2>2, <2>3 DEF WorkloadStatus
    <2>5. g = IF closed_run = <<>> THEN Unset ELSE closed_run[1]
      BY <1>4, <2>1 DEF HealthInv, MarkIsStartOfRun
    <2>6. closed_run' = <<>> <=> closed_run = <<>>
      BY <1>2, SMTT(30) DEF HealthInv
    <2>7. MarkIsStartOfRun'
      BY <1>2, <2>3, <2>4, <2>5, <2>6 DEF MarkIsStartOfRun
    <2>. QED  BY <1>1, <1>2, <2>4, <2>7, HealthAssumption DEF HealthInv
  <1>. QED  BY <1>3, <1>4

\* A report is stored with the mark that fits the run it continues or ends.
LEMMA StoredReportKeepsMark ==
    ASSUME HealthInv, NEW r \in transit, UpsertWorkloadStatus(r)
    PROVE  HealthInv'
  <1>1. r.observed \in Age /\ r.live \in BOOLEAN /\ r.gate_open \in BOOLEAN
    BY DEF HealthInv, Report
  <1>2. PICK g : g = GateMark(r)
    OBVIOUS
  <1>3. workload_status' = [observed |-> r.observed, live |-> r.live, gate_violation_since |-> g]
    BY <1>2 DEF UpsertWorkloadStatus
  <1>4. closed_run' = IF r.gate_open THEN <<>> ELSE Append(closed_run, r.observed)
    BY DEF UpsertWorkloadStatus
  <1>5. workload_status # Unset => workload_status.gate_violation_since \in Age \cup {Unset}
    BY DEF HealthInv, WorkloadStatus
  <1>6. closed_run \in Seq(Age) /\ (closed_run # <<>> => closed_run[1] \in Age)
    BY SMTT(30) DEF HealthInv
  <1>7. g \in Age \cup {Unset} /\ closed_run' \in Seq(Age) /\ g = IF closed_run' = <<>> THEN Unset ELSE closed_run'[1]
    <2>1. CASE r.gate_open
      BY <1>2, <1>4, <2>1, SMTT(30) DEF GateMark
    <2>2. CASE ~r.gate_open
      <3>1. closed_run' \in Seq(Age) /\ closed_run' # <<>>
        BY <1>1, <1>4, <1>6, <2>2, SMTT(30)
      <3>2. closed_run'[1] = IF closed_run = <<>> THEN r.observed ELSE closed_run[1]
        BY <1>1, <1>4, <1>6, <2>2, SMTT(30)
      <3>3. g = IF closed_run = <<>> THEN r.observed ELSE closed_run[1]
        BY <1>2, <1>6, <2>2, HealthAssumption DEF GateMark, HealthInv, MarkIsStartOfRun
      <3>. QED  BY <1>1, <1>6, <3>1, <3>2, <3>3
    <2>. QED  BY <2>1, <2>2
  <1>8. workload_status' \in WorkloadStatus /\ workload_status'.gate_violation_since = g
    BY <1>1, <1>3, <1>7 DEF WorkloadStatus
  <1>9. transit' \subseteq Report
    BY DEF UpsertWorkloadStatus, HealthInv
  <1>. QED  BY <1>7, <1>8, <1>9, HealthAssumption DEF HealthInv, MarkIsStartOfRun

\* The stored mark of a closed gate is the time of the first report of the run
\* that was applied last (UpsertWorkloadStatus), for every number of reports in
\* transit and in whatever order they arrive.
THEOREM MarkStartsTheRun == HealthSpec => []MarkIsStartOfRun
  <1>1. HealthInit => HealthInv
    BY SMTT(30) DEF HealthInit, HealthInv, MarkIsStartOfRun
  <1>2. ASSUME HealthInv, UNCHANGED <<workload_status, closed_run>>, transit' \subseteq Report PROVE HealthInv'
    BY <1>2 DEF HealthInv, MarkIsStartOfRun
  <1>3. HealthInv /\ [HealthNext]_healthVars => HealthInv'
    <2> SUFFICES ASSUME HealthInv, [HealthNext]_healthVars PROVE HealthInv'
      OBVIOUS
    <2>0. transit \subseteq Report
      BY DEF HealthInv
    <2>1. CASE UNCHANGED healthVars
      BY <1>2, <2>0, <2>1 DEF healthVars
    <2>2. CASE AgentStops \/ PodLoop \/ NodeLoop \/ AbortLoops
      <3>1. UNCHANGED <<workload_status, closed_run, transit>>
        BY <2>2 DEF AgentStops, PodLoop, NodeLoop, AbortLoops, CheckPod, reconcile_dead_pod, CheckNode, EvictExpired
      <3>. QED  BY <1>2, <2>0, <3>1
    <2>3. ASSUME NEW live \in BOOLEAN, NEW gate_open \in BOOLEAN, SendReport(live, gate_open) PROVE HealthInv'
      <3>1. [observed |-> 0, live |-> live, gate_open |-> gate_open] \in Report
        BY HealthAssumption, SMTT(30) DEF Report, Age
      <3>2. transit' \subseteq Report /\ UNCHANGED <<workload_status, closed_run>>
        BY <2>0, <2>3, <3>1 DEF SendReport
      <3>. QED  BY <1>2, <3>2
    <2>4. ASSUME NEW r \in transit, LoseReport(r) PROVE HealthInv'
      BY <1>2, <2>0, <2>4 DEF LoseReport
    <2>5. CASE NodeReports
      <3>1. UNCHANGED <<workload_status, closed_run, transit>>
        BY <2>5 DEF NodeReports, report_node_status, NodeHeartbeat, RegisterNode
      <3>. QED  BY <1>2, <2>0, <3>1
    <2>. QED
      BY <2>1, <2>2, <2>3, <2>4, <2>5, MarkGrowsOlder, StoredReportKeepsMark DEF HealthNext, Loops, PodReports
  <1>4. HealthInv => MarkIsStartOfRun
    BY DEF HealthInv
  <1>. QED  BY <1>1, <1>3, <1>4, PTL DEF HealthSpec

-----------------------------------------------------------------------------
(* Membership of the raft cluster.                                         *)

\* The part of the type invariant that counting voters needs.
Standing == standing \in [Member -> {"none", "learner", "voter"}]

\* A member that joins or is promoted is no voter less.
LEMMA PromotionKeepsVoters ==
    ASSUME Standing, NEW n \in Member, NEW s \in {"none", "learner", "voter"},
           standing' = [standing EXCEPT ![n] = s], standing[n] = "voter" => s = "voter"
    PROVE  Standing' /\ Voters \subseteq Voters'
  BY DEF Standing, Voters

\* A removed voter is one voter less.
LEMMA RemovalTakesOne ==
    ASSUME Standing, NEW n \in Member, standing[n] = "voter", standing' = [standing EXCEPT ![n] = "none"]
    PROVE  /\ Cardinality(Voters) \in Nat
           /\ Cardinality(Voters') = Cardinality(Voters) - 1
  <1>1. IsFiniteSet(Voters)
    BY MemberAssumption, FS_Subset DEF Voters
  <1>2. n \in Voters /\ Voters' = Voters \ {n}
    BY DEF Voters, Standing
  <1>. QED  BY <1>1, <1>2, FS_RemoveElement, FS_CardinalityType

\* No step takes voters away other than a removal that the guard lets through
\* (remove_raft_membership, removal_preserves_quorum): in every cluster, of
\* whatever size, at least three voters and a majority of the earlier ones are
\* left, whatever the provider reports and however old the poll is.
THEOREM QuorumSurvivesRemoval == MembershipSpec => RemovalKeepsQuorum
  <1> DEFINE MemberNext == Joining \/ JoinFaults \/ Provisioning
             Kept == Voters' \subseteq Voters /\ Voters' # Voters =>
                         /\ Cardinality(Voters') >= 3
                         /\ 2 * Cardinality(Voters') > Cardinality(Voters)
  <1>1. MembershipInit => Standing
    BY DEF MembershipInit, Standing
  <1>2. ASSUME Standing, UNCHANGED standing PROVE Standing' /\ Kept
    BY <1>2 DEF Standing, Voters
  <1>3. ASSUME Standing, NEW n \in Member, NEW s \in {"none", "learner", "voter"},
               standing' = [standing EXCEPT ![n] = s], standing[n] = "voter" => s = "voter"
        PROVE  Standing' /\ Kept
    BY <1>3, PromotionKeepsVoters
  <1>4. ASSUME Standing, NEW n \in Founders, RequestJoin(n) PROVE Standing' /\ Kept
    <2>1. Joiner \in Member /\ standing[Joiner] \in {"none", "learner", "voter"}
      BY <1>4 DEF Standing, Member
    <2>2. CASE AddLearner(n)
      <3>1. CASE standing' = standing
        BY <1>2, <1>4, <3>1
      <3>2. CASE standing' = [standing EXCEPT ![Joiner] = IF standing[Joiner] = "none" THEN "learner" ELSE standing[Joiner]]
        <4>1. PICK s \in {"none", "learner", "voter"} : s = IF standing[Joiner] = "none" THEN "learner" ELSE standing[Joiner]
          BY <2>1
        <4>. QED  BY <1>3, <1>4, <2>1, <3>2, <4>1
      <3>. QED  BY <2>2, <3>1, <3>2 DEF AddLearner
    <2>3. CASE Promote(n)
      <3>1. CASE standing' = standing
        BY <1>2, <1>4, <3>1
      <3>2. CASE standing' = [standing EXCEPT ![Joiner] = "voter"]
        BY <1>3, <1>4, <2>1, <3>2
      <3>. QED  BY <2>3, <3>1, <3>2 DEF Promote
    <2>4. CASE LearnerCaughtUp(n) \/ RegisterAddress(n)
      BY <1>2, <1>4, <2>4 DEF LearnerCaughtUp, RegisterAddress
    <2>. QED  BY <1>4, <2>2, <2>3, <2>4 DEF RequestJoin
  <1>5. ASSUME Standing, NEW l \in Founders, NEW n \in Pooled, handle_control_pool_status(l, n) PROVE Standing' /\ Kept
    <2>1. n \in Member /\ standing[n] \in {"none", "learner", "voter"}
      BY <1>5 DEF Standing, Member
    <2>2. CASE standing' = standing
      BY <1>2, <1>5, <2>2
    <2>3. CASE ~Settled(l, n) /\ ensure_raft_membership(l, n)
      <3>1. standing[n] # "voter"
        BY <2>3 DEF Settled, ensure_raft_membership
      <3>2. PICK s \in {"none", "learner", "voter"} : s = IF standing[n] = "none" THEN "learner" ELSE "voter"
        OBVIOUS
      <3>. QED  BY <1>3, <1>5, <2>1, <2>3, <3>1, <3>2 DEF ensure_raft_membership
    <2>4. CASE remove_raft_membership(l, n)
      <3>1. CASE standing[n] # "voter"
        BY <1>3, <1>5, <2>1, <2>4, <3>1 DEF remove_raft_membership
      <3>2. CASE standing[n] = "voter"
        <4>1. PICK v : v = Cardinality(Voters)
          OBVIOUS
        <4>2. v \in Nat /\ Cardinality(Voters') = v - 1
          BY <1>5, <2>1, <2>4, <3>2, <4>1, RemovalTakesOne DEF remove_raft_membership
        <4>3. v > 3
          BY <2>4, <3>2, <4>1 DEF remove_raft_membership, removal_preserves_quorum
        <4>4. v - 1 >= 3 /\ 2 * (v - 1) > v
          BY <4>2, <4>3, SMTT(30)
        <4>5. Kept
          BY <4>1, <4>2, <4>4
        <4>. QED  BY <1>5, <2>4, <4>5 DEF Standing, remove_raft_membership
      <3>. QED  BY <3>1, <3>2
    <2>. QED  BY <1>5, <2>2, <2>3, <2>4 DEF handle_control_pool_status
  <1>6. ASSUME Standing, MemberNext PROVE Standing' /\ Kept
    <2>1. CASE Joining
      <3>1. CASE JoinerCatchesUp \/ ResumeMembership \/ FirstBoot \/ SendJoin \/ Backoff
        <4>1. UNCHANGED standing
          BY <3>1 DEF JoinerCatchesUp, ResumeMembership, FirstBoot, SendJoin, Backoff
        <4>. QED  BY <1>2, <1>6, <4>1
      <3>2. ASSUME NEW n \in Founders, Elect(n) \/ LearnLeader(n) PROVE Standing' /\ Kept
        BY <1>2, <1>6, <3>2 DEF Elect, LearnLeader
      <3>. QED  BY <1>4, <1>6, <2>1, <3>1, <3>2 DEF Joining
    <2>2. CASE JoinFaults
      <3>1. UNCHANGED standing
        BY <2>2 DEF JoinFaults, LoseLeader, LeaderPurges, JoinCallFails, CrashJoiner, RestartJoiner
      <3>. QED  BY <1>2, <1>6, <3>1
    <2>3. CASE Provisioning
      <3>1. ASSUME NEW l \in Founders, reconcile_pool(l) PROVE Standing' /\ Kept
        BY <1>2, <1>6, <3>1 DEF reconcile_pool
      <3>2. ASSUME NEW n \in Pooled, NEW s \in Lifecycle, ProviderReports(n, s) PROVE Standing' /\ Kept
        BY <1>2, <1>6, <3>2 DEF ProviderReports
      <3>. QED  BY <1>5, <1>6, <2>3, <3>1, <3>2 DEF Provisioning
    <2>. QED  BY <1>6, <2>1, <2>2, <2>3
  <1>7. Standing /\ UNCHANGED memberVars => Standing'
    BY DEF Standing, memberVars
  <1>8. Standing /\ [MemberNext]_memberVars => Standing' /\ [Kept]_memberVars
    BY <1>6, <1>7
  <1>9. MembershipSpec => MembershipInit /\ [][MemberNext]_memberVars
    BY DEF MembershipSpec
  <1> HIDE DEF MemberNext, Kept
  <1>10. MembershipSpec => []Standing
    BY <1>1, <1>8, <1>9, PTL
  <1>11. MembershipSpec => [][Kept]_memberVars
    BY <1>8, <1>9, <1>10, PTL
  <1>. QED  BY <1>11 DEF RemovalKeepsQuorum, Kept

=============================================================================
