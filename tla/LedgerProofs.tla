---------------------------- MODULE LedgerProofs ----------------------------
(***************************************************************************)
(* PlacementControllers for every fleet with one leader: the slot record   *)
(* agrees with the placement, and no placement is overwritten.             *)
(***************************************************************************)
EXTENDS PlacementProofs

\* Steps that name no prover are tried with Zenon, then with the SMT solver.
USE ZenonT(20), SMTT(30)

-----------------------------------------------------------------------------
(* Slot records and placements under one leader.                           *)

\* One leader, no cron runs, and pod ids that tell slots apart: no two tenants
\* use the same workload name.
SingleLeader ==
    /\ MaxFailovers = 0
    /\ "cron" \notin Running
    /\ \A s, t \in Slot : PodIdOf(s) = PodIdOf(t) => s = t

Jobs(q) == {j \in todo[q] \cup {cur[q]} : j # None}

\* A job that will remove or free slot s.
Removes(j, s) ==
    \/ j.kind \in {"vacate", "resize"} /\ j.slot = s
    \/ j.kind = "place" /\ s \in j.victims

\* Slots that some proposer is going to remove or free.
Removing == {s \in Slot : \E q \in Proposer : \E j \in Jobs(q) : Removes(j, s)}

\* A job whose next command commits a placement.
Commits(j, k) == j.victims = {} /\ k = 2

\* Slots the workload controller is going to record and place.
Waiting == {s \in Slot :
    \/ \E j \in todo["workload"] : j.slot = s
    \/ /\ cur["workload"] # None /\ cur["workload"].slot = s
       /\ ~Commits(cur["workload"], step["workload"])}

\* The slot it has recorded and not placed yet, with its node.
Committing == {c \in Slot \X Node :
    /\ cur["workload"] # None
    /\ cur["workload"].slot = c[1] /\ cur["workload"].node = c[2]
    /\ Commits(cur["workload"], step["workload"])}

\* A job that removes the placement of s with its first command.
Vacates(j, s) ==
    \/ j.kind = "vacate" /\ j.slot = s
    \/ j.kind = "place" /\ j.victims # {} /\ s = Victim(j)

\* Slots whose placement is removed and whose record is about to be freed.
Removed == {s \in Slot : \E q \in Proposer :
    cur[q] # None /\ step[q] = 2 /\ Vacates(cur[q], s)}

\* The slot the vertical autoscaler has freed, its placement going next.
Freeing(s) == cur["vpa"] # None /\ cur["vpa"].slot = s /\ step["vpa"] = 3

\* A placement is stored under the name of its slot's pod.
OwnKeys == \A p \in PodId : placements[p] # None => p = PodIdOf(placements[p].slot)

\* Who has which jobs.
Division ==
    /\ ~behind /\ orphans = {} /\ triggered = None
    /\ \A q \in Proposer : \A j \in Jobs(q) :
          /\ q # "cron" /\ j.kind # "trigger"
          /\ j.kind = "place" <=> q = "workload"
          /\ j.kind = "resize" <=> q = "vpa"
    /\ \A j \in todo["workload"] :
          /\ cur["workload"] # None => cur["workload"].slot # j.slot
          /\ \A k \in todo["workload"] : j.slot = k.slot => j = k

\* The inductive invariant: a slot is placed once, by the one job that found it
\* without a record, and everybody else acts on slots with a record.
Ledger ==
    /\ OwnKeys
    /\ \A s \in Waiting : ordinals[s] = None
    /\ \A c \in Committing : /\ ordinals[c[1]] = Assigned(PodIdOf(c[1]), c[2])
                             /\ ~Hosted(c[1]) /\ c[1] \notin Removing
    /\ \A s \in Removing : ordinals[s] # None
    /\ \A s \in Removed : ~Hosted(s)
    /\ SlotBacksPlacement

LInv == SingleLeader /\ PInv /\ Division /\ Ledger

\* A step that removes placements and adds some, and overwrites none.
Kept == \A s \in Slot :
    Hosted(s) => placements'[PodIdOf(s)] \in {placements[PodIdOf(s)], None}

-----------------------------------------------------------------------------
(* The jobs after a step of a proposer.                                    *)

\* What the three ways to go on do to the jobs of q.
LEMMA GoesOn ==
    ASSUME LInv, NEW q \in Proposer, Await(q)
    PROVE  /\ cur[q] \in Job /\ cur[q] # None /\ step[q] \in 1 .. 3
           /\ \A r \in Proposer \ {q} : cur'[r] = cur[r] /\ step'[r] = step[r] /\ todo'[r] = todo[r]
           /\ \/ /\ step[q] < Steps(cur[q]) /\ step'[q] = step[q] + 1
                 /\ cur'[q] = cur[q] /\ todo'[q] = todo[q]
              \/ /\ step[q] = Steps(cur[q]) /\ step'[q] = 1
                 /\ cur[q].kind = "place" /\ cur[q].victims # {}
                 /\ cur'[q] = [cur[q] EXCEPT !.victims = @ \ {Victim(cur[q])}]
                 /\ todo'[q] = todo[q]
              \/ /\ step[q] = Steps(cur[q]) /\ step'[q] = 1
                 /\ ~(cur[q].kind = "place" /\ cur[q].victims # {})
                 /\ cur'[q] \in todo[q] \cup {None}
                 /\ todo'[q] = todo[q] \ {cur'[q]}
           /\ triggered' = triggered \/ cur[q].kind = "trigger"
           /\ UNCHANGED <<behind, orphans, failovers>>
<1>1. ControllersTypeOK
  BY DEF LInv, PInv
<1>2. cur[q] \in Job /\ cur[q] # None /\ step[q] \in 1 .. 3
  BY <1>1 DEF Await, ControllersTypeOK
<1>3. UNCHANGED <<behind, orphans, failovers>>
  BY DEF Await, leaderVars
<1>4. CASE /\ step[q] < Steps(cur[q])
           /\ step' = [step EXCEPT ![q] = @ + 1]
           /\ UNCHANGED <<todo, cur, triggered>>
  <2>1. step'[q] = step[q] + 1 /\ \A r \in Proposer \ {q} : step'[r] = step[r]
    BY <1>1, <1>4 DEF ControllersTypeOK
  <2> QED
    BY <1>2, <1>3, <1>4, <2>1
<1>5. CASE /\ step[q] = Steps(cur[q])
           /\ cur[q].kind = "place" /\ cur[q].victims # {}
           /\ cur' = [cur EXCEPT ![q].victims = @ \ {Victim(cur[q])}]
           /\ step' = [step EXCEPT ![q] = 1]
           /\ UNCHANGED <<todo, triggered>>
  <2>1. step'[q] = 1 /\ \A r \in Proposer \ {q} : step'[r] = step[r]
    BY <1>1, <1>5 DEF ControllersTypeOK
  <2>2. /\ cur'[q] = [cur[q] EXCEPT !.victims = @ \ {Victim(cur[q])}]
        /\ \A r \in Proposer \ {q} : cur'[r] = cur[r]
    BY <1>1, <1>5 DEF ControllersTypeOK
  <2> QED
    BY <1>2, <1>3, <1>5, <2>1, <2>2
<1>6. CASE /\ step[q] = Steps(cur[q])
           /\ ~(cur[q].kind = "place" /\ cur[q].victims # {})
           /\ Take(q, todo[q])
           /\ triggered' = IF cur[q].kind = "trigger" THEN cur[q] ELSE triggered
  <2>1. PICK j \in todo[q] \cup {None} :
          /\ cur' = [cur EXCEPT ![q] = j]
          /\ todo' = [todo EXCEPT ![q] = todo[q] \ {j}]
    BY <1>6 DEF Take
  <2>2. step' = [step EXCEPT ![q] = 1]
    BY <1>6, SMTT(30) DEF Take
  <2>3. step'[q] = 1 /\ \A r \in Proposer \ {q} : step'[r] = step[r]
    BY <1>1, <2>2 DEF ControllersTypeOK
  <2>4. cur'[q] = j /\ todo'[q] = todo[q] \ {j}
    BY <1>1, <2>1 DEF ControllersTypeOK
  <2>5. \A r \in Proposer \ {q} : cur'[r] = cur[r] /\ todo'[r] = todo[r]
    BY <1>1, <2>1 DEF ControllersTypeOK
  <2>6. triggered' = triggered \/ cur[q].kind = "trigger"
    BY <1>6
  <2> QED
    BY <1>2, <1>3, <1>6, <2>3, <2>4, <2>5, <2>6
<1> QED
  BY <1>4, <1>5, <1>6 DEF Await

\* Jobs become fewer, in whichever way q goes on.
LEMMA JobsAfter ==
    ASSUME LInv, NEW q \in Proposer, Await(q)
    PROVE  /\ \A r \in Proposer \ {q} : Jobs(r)' = Jobs(r)
           /\ \A j \in Jobs(q)' : \E i \in Jobs(q) :
                 /\ j.kind = i.kind
                 /\ j.kind \in {"vacate", "resize", "place"} => j.slot = i.slot
                 /\ j.kind = "place" => j.victims \subseteq i.victims
<1>1. \A r \in Proposer \ {q} : cur'[r] = cur[r] /\ todo'[r] = todo[r]
  BY GoesOn
<1>2. \A r \in Proposer \ {q} : Jobs(r)' = Jobs(r)
  BY <1>1 DEF Jobs
<1>3. cur[q] \in Jobs(q)
  BY GoesOn DEF Jobs
<1>4. CASE cur'[q] = cur[q] /\ todo'[q] = todo[q]
  BY <1>2, <1>4 DEF Jobs
<1>5. CASE /\ cur[q].kind = "place"
           /\ cur'[q] = [cur[q] EXCEPT !.victims = @ \ {Victim(cur[q])}]
           /\ todo'[q] = todo[q]
  <2>1. cur[q] \in PlaceJob
    BY <1>5, GoesOn, JobKinds
  <2>2. /\ cur'[q].kind = cur[q].kind /\ cur'[q].slot = cur[q].slot
        /\ cur'[q].victims \subseteq cur[q].victims
    BY <1>5, <2>1 DEF PlaceJob
  <2>3. \A j \in Jobs(q)' : j = cur'[q] \/ j \in Jobs(q)
    BY <1>5 DEF Jobs
  <2> QED
    BY <1>2, <1>3, <2>2, <2>3
<1>6. CASE cur'[q] \in todo[q] \cup {None} /\ todo'[q] = todo[q] \ {cur'[q]}
  <2>1. Jobs(q)' \subseteq Jobs(q)
    BY <1>6 DEF Jobs
  <2> QED
    BY <1>2, <2>1
<1> QED
  BY <1>4, <1>5, <1>6, GoesOn

\* Proposers keep to their kinds of jobs, and nobody takes on more slots.
LEMMA DivisionAfter ==
    ASSUME LInv, NEW q \in Proposer, Await(q)
    PROVE  /\ Division' /\ Removing' \subseteq Removing /\ Waiting' \subseteq Waiting
           /\ cur[q].kind = "place" <=> q = "workload"
           /\ cur[q].kind = "resize" <=> q = "vpa"
           /\ cur[q].kind # "trigger"
<1> USE DEF Proposer
<1>1. Division
  BY DEF LInv
<1>2. cur[q] \in Jobs(q)
  BY GoesOn DEF Jobs
<1>3. /\ cur[q].kind = "place" <=> q = "workload"
      /\ cur[q].kind = "resize" <=> q = "vpa"
      /\ cur[q].kind # "trigger" /\ q # "cron"
  BY <1>1, <1>2 DEF Division
<1>4. ~behind' /\ orphans' = {} /\ triggered' = None
  BY <1>1, <1>3, GoesOn DEF Division
<1>5. ASSUME NEW r \in Proposer, NEW j \in Jobs(r)'
      PROVE  /\ r # "cron" /\ j.kind # "trigger"
             /\ j.kind = "place" <=> r = "workload"
             /\ j.kind = "resize" <=> r = "vpa"
  <2>1. PICK i \in Jobs(r) : j.kind = i.kind
    BY <1>5, JobsAfter, SMTT(30)
  <2> QED
    BY <1>1, <2>1 DEF Division
<1>6. Removing' \subseteq Removing
  <2> SUFFICES ASSUME NEW s \in Slot, NEW r \in Proposer, NEW j \in Jobs(r)', Removes(j, s)
               PROVE  \E i \in Jobs(r) : Removes(i, s)
    BY DEF Removing
  <2> QED
    BY JobsAfter, SMTT(30) DEF Removes
<1>7. /\ \A j \in todo'["workload"] :
           /\ cur'["workload"] # None => cur'["workload"].slot # j.slot
           /\ \A k \in todo'["workload"] : j.slot = k.slot => j = k
      /\ Waiting' \subseteq Waiting
  <2> DEFINE w == "workload"
  <2>0. /\ \A j \in todo[w] : cur[w] # None => cur[w].slot # j.slot
        /\ \A j, k \in todo[w] : j.slot = k.slot => j = k
    BY <1>1 DEF Division
  <2>1. CASE q # w
    <3>1. cur'[w] = cur[w] /\ todo'[w] = todo[w] /\ step'[w] = step[w]
      BY <2>1, GoesOn
    <3> QED
      BY <2>0, <3>1 DEF Waiting
  <2>2. CASE q = w
    <3>0. cur[w].kind = "place" /\ cur[w] # None /\ cur[w] \in PlaceJob /\ Steps(cur[w]) = 2
      BY <1>3, <2>2, GoesOn, JobKinds DEF Steps
    <3>1. CASE step[w] < Steps(cur[w]) /\ cur'[w] = cur[w] /\ todo'[w] = todo[w]
      <4>1. step[w] # 2
        BY <2>2, <3>0, <3>1, GoesOn, SMTT(30)
      <4>2. ~Commits(cur[w], step[w])
        BY <4>1 DEF Commits
      <4> QED
        BY <2>0, <3>0, <3>1, <4>2 DEF Waiting
    <3>2. CASE /\ cur[w].victims # {}
               /\ cur'[w] = [cur[w] EXCEPT !.victims = @ \ {Victim(cur[w])}]
               /\ todo'[w] = todo[w]
      <4>1. cur'[w].slot = cur[w].slot
        BY <3>0, <3>2 DEF PlaceJob
      <4>2. ~Commits(cur[w], step[w])
        BY <3>2 DEF Commits
      <4> QED
        BY <2>0, <3>0, <3>2, <4>1, <4>2 DEF Waiting
    <3>3. CASE cur'[w] \in todo[w] \cup {None} /\ todo'[w] = todo[w] \ {cur'[w]}
      <4>1. Waiting' \subseteq Waiting
        BY <3>3 DEF Waiting
      <4>2. ASSUME NEW j \in todo'[w], cur'[w] # None PROVE cur'[w].slot # j.slot
        BY <2>0, <3>3, <4>2
      <4>3. \A j, k \in todo'[w] : j.slot = k.slot => j = k
        BY <2>0, <3>3
      <4> QED
        BY <4>1, <4>2, <4>3
    <3> QED
      BY <2>2, <3>1, <3>2, <3>3, GoesOn
  <2> QED
    BY <2>1, <2>2
<1> QED
  BY <1>3, <1>4, <1>5, <1>6, <1>7 DEF Division

\* Only a first command of its own makes the workload controller commit next.
LEMMA CommittingAfter ==
    ASSUME LInv, NEW q \in Proposer, Await(q)
    PROVE  /\ q # "workload" => Committing' = Committing
           /\ (q = "workload" /\ ~(cur[q].victims = {} /\ step[q] = 1)) => Committing' = {}
           /\ (q = "workload" /\ cur[q].victims = {} /\ step[q] = 1) =>
                 Committing' \subseteq {<<cur[q].slot, cur[q].node>>} /\ cur[q].slot \notin Waiting'
<1> USE DEF Proposer
<1>1. CASE q # "workload"
  <2>1. cur'["workload"] = cur["workload"] /\ step'["workload"] = step["workload"]
    BY <1>1, GoesOn
  <2> QED
    BY <1>1, <2>1 DEF Committing
<1>2. CASE q = "workload"
  <2>0. /\ cur[q].kind = "place" /\ cur[q] # None /\ cur[q] \in PlaceJob
        /\ Steps(cur[q]) = 2 /\ step[q] \in 1 .. 3
    BY <1>2, GoesOn, DivisionAfter, JobKinds DEF Steps
  <2>1. CASE step[q] < Steps(cur[q]) /\ step'[q] = step[q] + 1 /\ cur'[q] = cur[q] /\ todo'[q] = todo[q]
    <3>1. step[q] = 1 /\ step'[q] = 2
      BY <2>0, <2>1, SMTT(30)
    <3>2. CASE cur[q].victims = {}
      <4>1. Committing' \subseteq {<<cur[q].slot, cur[q].node>>}
        BY <1>2, <2>1, SMTT(30) DEF Committing
      <4>2. Commits(cur'[q], step'[q])
        BY <2>1, <3>1, <3>2 DEF Commits
      <4>3. \A j \in todo[q] : cur[q].slot # j.slot
        BY <1>2, <2>0 DEF LInv, Division
      <4>4. cur[q].slot \notin Waiting'
        BY <1>2, <2>1, <4>2, <4>3 DEF Waiting
      <4> QED
        BY <1>2, <3>1, <3>2, <4>1, <4>4
    <3>3. CASE cur[q].victims # {}
      <4>1. Committing' = {}
        BY <1>2, <2>1, <3>3 DEF Committing, Commits
      <4> QED
        BY <1>2, <3>3, <4>1
    <3> QED
      BY <3>2, <3>3
  <2>2. CASE step[q] = Steps(cur[q]) /\ step'[q] = 1
    <3>1. Committing' = {}
      BY <1>2, <2>2, SMTT(30) DEF Committing, Commits
    <3> QED
      BY <1>2, <2>0, <2>2, <3>1, SMTT(30)
  <2> QED
    BY <2>1, <2>2, GoesOn
<1> QED
  BY <1>1, <1>2

\* A placement that is removed first was removed by a first command.
LEMMA RemovedAfter ==
    ASSUME LInv, NEW q \in Proposer, Await(q), NEW s \in Removed'
    PROVE  s \in Removed \/ (step[q] = 1 /\ Vacates(cur[q], s))
<1>1. PICK r \in Proposer : cur'[r] # None /\ step'[r] = 2 /\ Vacates(cur'[r], s) /\ s \in Slot
  BY DEF Removed, Vacates
<1>2. CASE r # q
  <2>1. cur'[r] = cur[r] /\ step'[r] = step[r]
    BY <1>2, GoesOn
  <2> QED
    BY <1>1, <2>1 DEF Removed
<1>3. CASE r = q
  <2>1. step'[q] # 1
    BY <1>1, <1>3, SMTT(30)
  <2>2. step'[q] = step[q] + 1 /\ cur'[q] = cur[q] /\ step[q] \in 1 .. 3
    BY <2>1, GoesOn
  <2>3. step[q] = 1
    BY <1>1, <1>3, <2>2, SMTT(30)
  <2> QED
    BY <1>1, <1>3, <2>2, <2>3
<1> QED
  BY <1>2, <1>3

\* The vertical autoscaler frees a slot with its second command.
LEMMA FreeingAfter ==
    ASSUME LInv, NEW q \in Proposer, Await(q)
    PROVE  /\ q # "vpa" => \A s : Freeing(s)' <=> Freeing(s)
           /\ (q = "vpa" /\ step[q] = 2) => cur'[q] = cur[q] /\ step'[q] = 3
<1> USE DEF Proposer
<1>1. CASE q # "vpa"
  <2>1. cur'["vpa"] = cur["vpa"] /\ step'["vpa"] = step["vpa"]
    BY <1>1, GoesOn
  <2> QED
    BY <1>1, <2>1 DEF Freeing
<1>2. CASE q = "vpa" /\ step[q] = 2
  <2>1. cur[q].kind = "resize" /\ cur[q] # None
    BY <1>2, GoesOn, DivisionAfter
  <2>2. Steps(cur[q]) = 3
    BY <2>1 DEF Steps
  <2>3. step'[q] = 3 /\ cur'[q] = cur[q]
    BY <1>2, <2>1, <2>2, GoesOn, SMTT(30)
  <2> QED
    BY <1>2, <2>3
<1> QED
  BY <1>1, <1>2

-----------------------------------------------------------------------------
(* What a command does to records and placements.                          *)

\* Under one leader the pod of a slot is placed when its key is stored.
LEMMA HostedIs ==
    ASSUME SingleLeader, TypeOK, OwnKeys, NEW s \in Slot
    PROVE  Hosted(s) <=> placements[PodIdOf(s)] # None
<1> SUFFICES ASSUME placements[PodIdOf(s)] # None PROVE placements[PodIdOf(s)].slot = s
  BY DEF Hosted, PlacementOf
<1>1. PodIdOf(s) \in PodId
  BY PodIdOfType
<1>2. placements[PodIdOf(s)].slot \in Slot
  BY <1>1 DEF TypeOK, Placement
<1>3. PodIdOf(s) = PodIdOf(placements[PodIdOf(s)].slot)
  BY <1>1 DEF OwnKeys
<1> QED
  BY <1>2, <1>3 DEF SingleLeader

\* A placed slot is recorded, and nobody is about to place it.
LEMMA HostedIsRecorded ==
    ASSUME LInv, NEW s \in Slot, Hosted(s)
    PROVE  ordinals[s] # None /\ s \notin Waiting /\ \A c \in Committing : c[1] # s
<1>1. PodIdOf(s) \in PodId
  BY PodIdOfType
<1>2. ordinals[s] # None
  BY <1>1 DEF LInv, PInv, AllRecorded, Hosted, PlacementOf
<1> QED
  BY <1>2 DEF LInv, Ledger

\* Commands that place nothing, free only slots without a placement or the slot
\* that the vertical autoscaler is removing, and assign only what is placed.
LEMMA ShrinkKeeps ==
    ASSUME LInv, TypeOK',
           Waiting' \subseteq Waiting, Removing' \subseteq Removing, Committing' \subseteq Committing,
           \A s \in Removed' : s \in Removed \/ placements'[PodIdOf(s)] = None,
           \A p \in PodId : placements'[p] \in {placements[p], None},
           \A s \in Slot : \/ ordinals'[s] = ordinals[s]
                           \/ /\ ordinals'[s] = Freed
                              /\ s \in Removing \/ Hosted(s)
                              /\ placements'[PodIdOf(s)] = None \/ Freeing(s)'
                           \/ /\ ordinals'[s] = Assigned(PodIdOf(s), PlacementOf(s).node_id)
                              /\ Hosted(s),
           \A s \in Slot : Freeing(s) => Freeing(s)' \/ placements'[PodIdOf(s)] = None
    PROVE  Ledger' /\ Kept
<1>0. TypeOK /\ SingleLeader /\ Ledger /\ OwnKeys
  BY DEF LInv, Ledger, PInv, ControllersTypeOK
<1>1. Freed # None /\ \A s \in Slot : Hosted(s) => Assigned(PodIdOf(s), PlacementOf(s).node_id) # None
  <2>1. ASSUME NEW s \in Slot, Hosted(s) PROVE PodIdOf(s) \in PodId /\ PlacementOf(s).node_id \in Node
    BY <1>0, <2>1, PodIdOfType, SMTT(30) DEF Hosted, PlacementOf, TypeOK, Placement
  <2> QED
    BY <2>1, AssignmentType, NoneAssumption
<1>2. OwnKeys'
  BY <1>0 DEF OwnKeys
<1>3. ASSUME NEW s \in Slot PROVE ~Hosted(s) => ~Hosted(s)'
  <2>1. PodIdOf(s) \in PodId
    BY PodIdOfType
  <2>2. placements'[PodIdOf(s)] \in {placements[PodIdOf(s)], None}
    BY <2>1
  <2> QED
    BY <2>2 DEF Hosted, PlacementOf
<1>4. ASSUME NEW s \in Waiting' PROVE ordinals'[s] = None
  <2>1. s \in Slot /\ s \in Waiting /\ ordinals[s] = None
    BY <1>0 DEF Ledger, Waiting
  <2>2. s \notin Removing /\ ~Hosted(s)
    BY <1>0, <2>1, HostedIsRecorded DEF Ledger
  <2> QED
    BY <2>1, <2>2
<1>5. ASSUME NEW c \in Committing'
      PROVE  /\ ordinals'[c[1]] = Assigned(PodIdOf(c[1]), c[2])
             /\ ~Hosted(c[1])' /\ c[1] \notin Removing'
  <2>1. /\ c \in Committing /\ c[1] \in Slot /\ ordinals[c[1]] = Assigned(PodIdOf(c[1]), c[2])
        /\ ~Hosted(c[1]) /\ c[1] \notin Removing
    BY <1>0 DEF Ledger, Committing
  <2> QED
    BY <1>3, <2>1
<1>6. ASSUME NEW s \in Removing' PROVE ordinals'[s] # None
  <2>1. s \in Slot /\ s \in Removing /\ ordinals[s] # None
    BY <1>0 DEF Ledger, Removing
  <2> QED
    BY <1>1, <2>1
<1>7. ASSUME NEW s \in Removed' PROVE ~Hosted(s)'
  <2>1. s \in Slot
    BY DEF Removed
  <2>2. CASE s \in Removed
    BY <1>0, <1>3, <2>1, <2>2 DEF Ledger
  <2>3. CASE placements'[PodIdOf(s)] = None
    BY <2>3 DEF Hosted, PlacementOf
  <2> QED
    BY <2>2, <2>3
<1>8. ASSUME NEW s \in Slot, Hosted(s)'
      PROVE  \/ ordinals'[s] = Assigned(PodIdOf(s), PlacementOf(s)'.node_id)
             \/ ordinals'[s] = Freed /\ Freeing(s)'
  <2>1. PodIdOf(s) \in PodId
    BY PodIdOfType
  <2>2. placements'[PodIdOf(s)] # None /\ placements'[PodIdOf(s)] = placements[PodIdOf(s)]
    BY <1>8, <2>1 DEF Hosted, PlacementOf
  <2>3. Hosted(s) /\ PlacementOf(s)' = PlacementOf(s)
    BY <1>8, <2>2 DEF Hosted, PlacementOf
  <2>4. CASE ordinals'[s] = ordinals[s]
    <3>1. \/ ordinals[s] = Assigned(PodIdOf(s), PlacementOf(s).node_id)
          \/ ordinals[s] = Freed /\ Freeing(s)
      BY <1>0, <2>3 DEF Ledger, SlotBacksPlacement, Freeing
    <3> QED
      BY <2>2, <2>3, <2>4, <3>1
  <2>5. CASE ordinals'[s] = Freed /\ (placements'[PodIdOf(s)] = None \/ Freeing(s)')
    BY <2>2, <2>5
  <2>6. CASE ordinals'[s] = Assigned(PodIdOf(s), PlacementOf(s).node_id)
    BY <2>3, <2>6
  <2> QED
    BY <2>4, <2>5, <2>6
<1>9. SlotBacksPlacement'
  BY <1>8 DEF SlotBacksPlacement, Freeing
<1>10. Kept
  BY PodIdOfType DEF Kept
<1> QED
  BY <1>2, <1>4, <1>5, <1>6, <1>7, <1>9, <1>10 DEF Ledger

\* What the state machine removes for a spec, it frees in the same command.
LEMMA FreedTogether ==
    ASSUME LInv, NEW P \in SUBSET PodId, \A p \in P : placements[p] # None, RemoveAndFree(P)
    PROVE  /\ \A p \in PodId : placements'[p] \in {placements[p], None}
           /\ \A s \in Slot : \/ ordinals'[s] = ordinals[s]
                              \/ /\ ordinals'[s] = Freed /\ Hosted(s)
                                 /\ placements'[PodIdOf(s)] = None
<1>1. \A p \in PodId : placements'[p] = IF p \in P THEN None ELSE placements[p]
  BY DEF RemoveAndFree, Without
<1>2. ASSUME NEW s \in Slot, NEW p \in P, placements[p].slot = s
      PROVE  Hosted(s) /\ placements'[PodIdOf(s)] = None
  <2>1. p = PodIdOf(s)
    BY <1>2 DEF LInv, Ledger, OwnKeys
  <2> QED
    BY <1>1, <1>2, <2>1 DEF Hosted, PlacementOf
<1>3. \A s \in Slot : ordinals'[s] = IF \E p \in P : placements[p].slot = s THEN Freed ELSE ordinals[s]
  BY DEF RemoveAndFree
<1> QED
  BY <1>1, <1>2, <1>3

\* Writing a spec keeps the ledger, whoever does it.
LEMMA SpecCommand ==
    ASSUME LInv, WorkloadNext
    PROVE  /\ \A p \in PodId : placements'[p] \in {placements[p], None}
           /\ \A s \in Slot : \/ ordinals'[s] = ordinals[s]
                              \/ /\ ordinals'[s] = Freed /\ Hosted(s)
                                 /\ placements'[PodIdOf(s)] = None
<1>1. PICK w \in Workload :
        \/ DeleteWorkload(w)
        \/ \E spec \in WorkloadSpec :
              SubmitWorkloadSpec(w, spec) \/ ScaleWorkload(w, spec) \/ ResizeWorkload(w, spec)
  BY DEF WorkloadNext
<1>2. CASE DeleteWorkload(w)
  <2>1. RemoveAndFree(PodsOf(w)) /\ PodsOf(w) \in SUBSET PodId /\ \A p \in PodsOf(w) : placements[p] # None
    BY <1>2 DEF DeleteWorkload, PodsOf
  <2> QED
    BY <2>1, FreedTogether
<1>3. ASSUME NEW spec \in WorkloadSpec, ScaleWorkload(w, spec)
      PROVE  \E P \in SUBSET PodId : (\A p \in P : placements[p] # None) /\ RemoveAndFree(P)
  <2> DEFINE P == {p \in PodsOf(w) : Excess(spec, placements[p].slot)}
  <2>1. RemoveAndFree(P)
    BY <1>3 DEF ScaleWorkload
  <2>2. P \in SUBSET PodId /\ \A p \in P : placements[p] # None
    BY DEF PodsOf
  <2> QED
    BY <2>1, <2>2
<1>4. ASSUME NEW spec \in WorkloadSpec, SubmitWorkloadSpec(w, spec) \/ ResizeWorkload(w, spec)
      PROVE  UNCHANGED <<ordinals, placements>>
  BY <1>4 DEF SubmitWorkloadSpec, ResizeWorkload
<1> QED
  BY <1>1, <1>2, <1>3, <1>4, FreedTogether

\* Commands about nodes free nothing.
LEMMA NodeCommand ==
    ASSUME NodeNext \/ RevocationNext
    PROVE  (\A p \in PodId : placements'[p] \in {placements[p], None}) /\ ordinals' = ordinals
<1> USE DEF placementVars
<1>1. CASE NodeNext
  <2>1. placements' = placements \/ \E n \in Node : placements' = Without(PodsOn(n))
    BY <1>1 DEF NodeNext, RegisterNode, SetNodeSchedulable, NodeHeartbeat,
                SetNodeTaints, RemoveNodeTaint, EvictNode
  <2>2. ordinals' = ordinals
    BY <1>1 DEF NodeNext, RegisterNode, SetNodeSchedulable, NodeHeartbeat,
                SetNodeTaints, RemoveNodeTaint, EvictNode
  <2> QED
    BY <2>1, <2>2 DEF Without
<1>2. CASE RevocationNext
  BY <1>2 DEF RevocationNext, PruneExpiredRevokedSvids, IssueDelegation, RevokeDelegation
<1> QED
  BY <1>1, <1>2

\* The first and the second command of whoever removes a pod and frees its slot.
LEMMA VacateKeeps ==
    ASSUME LInv, PInv', NEW q \in Proposer, Await(q), NEW s \in Slot,
           Vacates(cur[q], s), Vacate(s, step[q])
    PROVE  Ledger' /\ Kept
<1>0. TypeOK /\ SingleLeader /\ Ledger /\ OwnKeys /\ TypeOK'
  BY DEF LInv, Ledger, PInv, ControllersTypeOK
<1>1. PodIdOf(s) \in PodId
  BY PodIdOfType
<1>2. cur[q] \in Job /\ cur[q] # None
  BY GoesOn
<1>3. Removes(cur[q], s)
  <2>1. CASE cur[q].kind = "place" /\ cur[q].victims # {} /\ s = Victim(cur[q])
    BY <2>1 DEF Victim, Removes
  <2> QED
    BY <2>1 DEF Vacates, Removes
<1>4. s \in Removing
  BY <1>2, <1>3 DEF Removing, Jobs
<1>5. q # "vpa" /\ (q = "workload" => cur[q].victims # {})
  BY DivisionAfter DEF Vacates
<1>6. Waiting' \subseteq Waiting /\ Removing' \subseteq Removing
  BY DivisionAfter
<1>7. Committing' \subseteq Committing
  BY <1>5, CommittingAfter
<1>8. \A t \in Slot : Freeing(t) => Freeing(t)'
  BY <1>5, FreeingAfter
<1>9. CASE step[q] = 1 /\ RemovePlacement(PodIdOf(s))
  <2>1. ordinals' = ordinals /\ placements'[PodIdOf(s)] = None
    BY <1>0, <1>1, <1>9 DEF RemovePlacement, TypeOK
  <2>2. \A p \in PodId : placements'[p] \in {placements[p], None}
    BY <1>0, <1>1, <1>9 DEF RemovePlacement, TypeOK
  <2>3. \A t \in Removed' : t \in Removed \/ placements'[PodIdOf(t)] = None
    <3> SUFFICES ASSUME NEW t \in Removed', t \notin Removed PROVE t = s
      BY <2>1
    <3>1. Vacates(cur[q], t)
      BY RemovedAfter
    <3> QED
      BY <3>1 DEF Vacates
  <2> QED
    BY <1>0, <1>6, <1>7, <1>8, <2>1, <2>2, <2>3, ShrinkKeeps
<1>10. CASE step[q] = 2 /\ RecordOrdinalAssignment(s, Freed)
  <2>1. placements' = placements /\ ordinals'[s] = Freed
    BY <1>0, <1>10 DEF RecordOrdinalAssignment, TypeOK
  <2>2. \A t \in Slot \ {s} : ordinals'[t] = ordinals[t]
    BY <1>0, <1>10 DEF RecordOrdinalAssignment, TypeOK
  <2>3. s \in Removed
    BY <1>2, <1>10 DEF Removed
  <2>4. placements'[PodIdOf(s)] = None
    BY <1>0, <2>1, <2>3, HostedIs DEF Ledger
  <2>5. Removed' \subseteq Removed
    BY <1>10, RemovedAfter, SMTT(30)
  <2> QED
    BY <1>0, <1>4, <1>6, <1>7, <1>8, <2>1, <2>2, <2>4, <2>5, ShrinkKeeps
<1> QED
  BY <1>9, <1>10 DEF Vacate

\* The vertical autoscaler: spec, record, placement.
LEMMA ResizeKeeps ==
    ASSUME LInv, PInv', NEW q \in Proposer, Await(q),
           cur[q].kind = "resize", ReplaceStalePod(cur[q], step[q])
    PROVE  Ledger' /\ Kept
<1>0. TypeOK /\ SingleLeader /\ Ledger /\ OwnKeys /\ TypeOK'
  BY DEF LInv, Ledger, PInv, ControllersTypeOK
<1>1. PICK s \in Slot : s = cur[q].slot
  BY GoesOn, JobKinds DEF ResizeJob
<1>2. PodIdOf(s) \in PodId
  BY PodIdOfType
<1>3. cur[q] \in Job /\ cur[q] # None /\ q = "vpa"
  BY GoesOn, DivisionAfter
<1>4. s \in Removing
  BY <1>1, <1>3 DEF Removing, Jobs, Removes
<1>5. Waiting' \subseteq Waiting /\ Removing' \subseteq Removing
  BY DivisionAfter
<1>6. Committing' \subseteq Committing
  BY <1>3, CommittingAfter
<1>7. \A t \in Removed' : t \in Removed
  BY RemovedAfter DEF Vacates
<1>8. \A t : Freeing(t) => t = s /\ step[q] = 3
  BY <1>1, <1>3 DEF Freeing
<1>9. CASE step[q] = 1 /\ ResizeWorkload(WorkloadOf(cur[q].slot), cur[q].spec)
  <2>1. UNCHANGED <<ordinals, placements>>
    BY <1>9 DEF ResizeWorkload
  <2>2. \A t : ~Freeing(t)
    BY <1>8, <1>9, SMTT(30)
  <2> QED
    BY <1>0, <1>5, <1>6, <1>7, <2>1, <2>2, ShrinkKeeps
<1>10. CASE step[q] = 2 /\ RecordOrdinalAssignment(s, Freed)
  <2>1. placements' = placements /\ ordinals'[s] = Freed
    BY <1>0, <1>10 DEF RecordOrdinalAssignment, TypeOK
  <2>2. \A t \in Slot \ {s} : ordinals'[t] = ordinals[t]
    BY <1>0, <1>10 DEF RecordOrdinalAssignment, TypeOK
  <2>3. \A t : ~Freeing(t)
    BY <1>8, <1>10, SMTT(30)
  <2>5. Freeing(s)'
    <3>1. cur'["vpa"] = cur["vpa"] /\ step'["vpa"] = 3
      BY <1>3, <1>10, FreeingAfter
    <3> QED
      BY <1>1, <1>3, <3>1 DEF Freeing
  <2> QED
    BY <1>0, <1>4, <1>5, <1>6, <1>7, <2>1, <2>2, <2>3, <2>5, ShrinkKeeps
<1>11. CASE step[q] = 3 /\ RemovePlacement(PodIdOf(s))
  <2>1. ordinals' = ordinals /\ placements'[PodIdOf(s)] = None
    BY <1>0, <1>2, <1>11 DEF RemovePlacement, TypeOK
  <2>2. \A p \in PodId : placements'[p] \in {placements[p], None}
    BY <1>0, <1>2, <1>11 DEF RemovePlacement, TypeOK
  <2>3. \A t \in Slot : Freeing(t) => placements'[PodIdOf(t)] = None
    BY <1>8, <2>1
  <2> QED
    BY <1>0, <1>5, <1>6, <1>7, <2>1, <2>2, <2>3, ShrinkKeeps
<1> QED
  BY <1>1, <1>9, <1>10, <1>11 DEF ReplaceStalePod

\* Jobs about specs and nodes.
LEMMA SpecAndNodeJobsKeep ==
    ASSUME LInv, PInv', NEW q \in Proposer, Await(q),
           cur[q].kind \in {"scale", "cordon", "evict", "expire"},
           WorkloadNext \/ NodeNext \/ RevocationNext
    PROVE  Ledger' /\ Kept
<1>0. TypeOK'
  BY DEF PInv, ControllersTypeOK
<1>1. q # "vpa" /\ q # "workload" /\ Waiting' \subseteq Waiting /\ Removing' \subseteq Removing
  BY DivisionAfter
<1>2. Committing' \subseteq Committing
  BY <1>1, CommittingAfter
<1>3. \A t \in Removed' : t \in Removed
  BY RemovedAfter DEF Vacates
<1>4. \A t \in Slot : Freeing(t) => Freeing(t)'
  BY <1>1, FreeingAfter
<1>5. /\ \A p \in PodId : placements'[p] \in {placements[p], None}
      /\ \A t \in Slot : \/ ordinals'[t] = ordinals[t]
                         \/ /\ ordinals'[t] = Freed /\ Hosted(t)
                            /\ placements'[PodIdOf(t)] = None
  BY SpecCommand, NodeCommand
<1> QED
  BY <1>0, <1>1, <1>2, <1>3, <1>4, <1>5, ShrinkKeeps

\* Under one leader a reassigned pod keeps its key: only the record is written.
LEMMA ReassignCommand ==
    ASSUME LInv, NEW s \in Slot, ReassignPodId(s, PodIdOf(s))
    PROVE  /\ \A p \in PodId : placements'[p] = placements[p]
           /\ \A t \in Slot \ {s} : ordinals'[t] = ordinals[t]
           /\ \/ ordinals'[s] = ordinals[s]
              \/ Hosted(s) /\ ordinals'[s] = Assigned(PodIdOf(s), PlacementOf(s).node_id)
<1> DEFINE Occupied(p) == placements[p] # None /\ placements[p].slot = s
           old == CHOOSE p \in PodId : Occupied(p)
<1>0. TypeOK /\ OwnKeys /\ PodIdOf(s) \in PodId
  BY PodIdOfType DEF LInv, Ledger, PInv, ControllersTypeOK
<1>1. CASE \E p \in PodId : Occupied(p)
  <2>1. old \in PodId /\ Occupied(old)
    BY <1>1
  <2>2. old = PodIdOf(s)
    BY <1>0, <2>1 DEF OwnKeys
  <2>3. placements' = [placements EXCEPT ![old] = None, ![PodIdOf(s)] = placements[old]]
    BY <1>1 DEF ReassignPodId
  <2>4. ordinals' = [ordinals EXCEPT ![s] = Assigned(PodIdOf(s), placements[old].node_id)]
    BY <1>1 DEF ReassignPodId
  <2> HIDE DEF old
  <2>5. \A p \in PodId : placements'[p] = placements[p]
    BY <1>0, <2>2, <2>3 DEF TypeOK
  <2>6. Hosted(s) /\ PlacementOf(s) = placements[old]
    BY <2>1, <2>2 DEF Hosted, PlacementOf
  <2> QED
    BY <1>0, <2>4, <2>5, <2>6 DEF TypeOK
<1>2. CASE ~\E p \in PodId : Occupied(p)
  BY <1>2 DEF ReassignPodId
<1> QED
  BY <1>1, <1>2

\* The pod controller.
LEMMA ReassignKeeps ==
    ASSUME LInv, PInv', NEW q \in Proposer, Await(q),
           cur[q].kind = "reassign", ReassignPodId(cur[q].slot, PodIdOf(cur[q].slot))
    PROVE  Ledger' /\ Kept
<1>0. TypeOK'
  BY DEF PInv, ControllersTypeOK
<1>1. PICK s \in Slot : s = cur[q].slot
  BY GoesOn, JobKinds DEF ReassignJob
<1>2. q # "vpa" /\ q # "workload" /\ Waiting' \subseteq Waiting /\ Removing' \subseteq Removing
  BY DivisionAfter
<1>3. Committing' \subseteq Committing
  BY <1>2, CommittingAfter
<1>4. \A t \in Removed' : t \in Removed
  BY RemovedAfter DEF Vacates
<1>5. \A t \in Slot : Freeing(t) => Freeing(t)'
  BY <1>2, FreeingAfter
<1>6. /\ \A p \in PodId : placements'[p] = placements[p]
      /\ \A t \in Slot \ {s} : ordinals'[t] = ordinals[t]
      /\ \/ ordinals'[s] = ordinals[s]
         \/ Hosted(s) /\ ordinals'[s] = Assigned(PodIdOf(s), PlacementOf(s).node_id)
  BY <1>1, ReassignCommand
<1>7. \A p \in PodId : placements'[p] \in {placements[p], None}
  BY <1>6
<1> QED
  BY <1>0, <1>2, <1>3, <1>4, <1>5, <1>6, <1>7, ShrinkKeeps

\* Recording a slot before it is placed.
LEMMA RecordKeeps ==
    ASSUME LInv, PInv', NEW q \in Proposer, Await(q),
           cur[q].kind = "place", cur[q].victims = {}, step[q] = 1,
           RecordOrdinalAssignment(cur[q].slot, Assigned(PodIdOf(cur[q].slot), cur[q].node))
    PROVE  Ledger' /\ Kept
<1>0. TypeOK /\ SingleLeader /\ Ledger /\ OwnKeys /\ q = "workload"
  BY DivisionAfter DEF LInv, Ledger, PInv, ControllersTypeOK
<1>1. PICK s \in Slot, n \in Node : s = cur[q].slot /\ n = cur[q].node
  BY GoesOn, JobKinds DEF PlaceJob
<1>2. s \in Waiting
  <2>1. cur[q] # None
    BY GoesOn
  <2>2. ~Commits(cur[q], step[q])
    BY SMTT(30) DEF Commits
  <2>3. cur["workload"] # None /\ cur["workload"].slot = s /\ ~Commits(cur["workload"], step["workload"])
    BY <1>0, <1>1, <2>1, <2>2
  <2> QED
    BY <2>3 DEF Waiting
<1>3. ordinals[s] = None /\ s \notin Removing /\ ~Hosted(s)
  <2>1. ordinals[s] = None /\ s \notin Removing
    BY <1>0, <1>2 DEF Ledger
  <2>2. ~Hosted(s)
    BY <1>0, <2>1, HostedIsRecorded DEF LInv
  <2> QED
    BY <2>1, <2>2
<1>4. /\ placements' = placements /\ ordinals'[s] = Assigned(PodIdOf(s), n)
      /\ \A t \in Slot \ {s} : ordinals'[t] = ordinals[t]
  BY <1>0, <1>1 DEF RecordOrdinalAssignment, TypeOK
<1>5. Waiting' \subseteq Waiting /\ Removing' \subseteq Removing
  BY DivisionAfter
<1>6. Committing' \subseteq {<<s, n>>} /\ s \notin Waiting'
  BY <1>0, <1>1, CommittingAfter
<1>7. Removed' \subseteq Removed
  BY RemovedAfter DEF Vacates
<1>8. \A t \in Slot : (Hosted(t)' <=> Hosted(t)) /\ PlacementOf(t)' = PlacementOf(t)
  BY <1>4 DEF Hosted, PlacementOf
<1>9. \A t \in Slot : Freeing(t) => Freeing(t)'
  BY <1>0, FreeingAfter
<1>10. OwnKeys'
  BY <1>0, <1>4 DEF OwnKeys
<1>11. \A t \in Waiting' : ordinals'[t] = None
  BY <1>0, <1>4, <1>5, <1>6 DEF Ledger, Waiting
<1>12. \A c \in Committing' : /\ ordinals'[c[1]] = Assigned(PodIdOf(c[1]), c[2])
                              /\ ~Hosted(c[1])' /\ c[1] \notin Removing'
  <2> SUFFICES ASSUME NEW c \in Committing'
               PROVE  /\ ordinals'[c[1]] = Assigned(PodIdOf(c[1]), c[2])
                      /\ ~Hosted(c[1])' /\ c[1] \notin Removing'
    OBVIOUS
  <2>1. c[1] = s /\ c[2] = n
    BY <1>6, SMTT(30)
  <2>2. ~Hosted(s)'
    BY <1>3, <1>8
  <2>3. s \notin Removing'
    BY <1>3, <1>5
  <2>4. ~Hosted(c[1])'
    BY <2>1, <2>2
  <2> QED
    BY <1>4, <2>1, <2>3, <2>4
<1>13. \A t \in Removing' : ordinals'[t] # None
  BY <1>0, <1>3, <1>4, <1>5 DEF Ledger, Removing
<1>14. \A t \in Removed' : ~Hosted(t)'
  BY <1>0, <1>7, <1>8 DEF Ledger, Removed
<1>15. SlotBacksPlacement'
  <2> SUFFICES ASSUME NEW t \in Slot, Hosted(t)'
               PROVE  \/ ordinals'[t] = Assigned(PodIdOf(t), PlacementOf(t)'.node_id)
                      \/ ordinals'[t] = Freed /\ Freeing(t)'
    BY DEF SlotBacksPlacement, Freeing
  <2>1. t # s /\ Hosted(t)
    BY <1>3, <1>8
  <2>2. \/ ordinals[t] = Assigned(PodIdOf(t), PlacementOf(t).node_id)
        \/ ordinals[t] = Freed /\ Freeing(t)
    BY <1>0, <2>1 DEF Ledger, SlotBacksPlacement, Freeing
  <2> QED
    BY <1>4, <1>8, <1>9, <2>1, <2>2
<1> QED
  BY <1>4, <1>10, <1>11, <1>12, <1>13, <1>14, <1>15 DEF Ledger, Kept

\* Placing a slot that is recorded and that nobody is about to remove.
LEMMA CommitKeeps ==
    ASSUME LInv, PInv', NEW q \in Proposer, Await(q),
           cur[q].kind = "place", cur[q].victims = {}, step[q] = 2,
           CommitPlacement(cur[q].slot, cur[q].node, cur[q].resources)
    PROVE  Ledger' /\ Kept
<1>0. TypeOK /\ SingleLeader /\ Ledger /\ OwnKeys /\ q = "workload"
  BY DivisionAfter DEF LInv, Ledger, PInv, ControllersTypeOK
<1>1. PICK s \in Slot, n \in Node : s = cur[q].slot /\ n = cur[q].node
  <2>1. cur[q] \in Job
    BY GoesOn
  <2> QED
    BY <2>1, JobKinds DEF PlaceJob
<1>2. <<s, n>> \in Committing
  <2>1. cur["workload"] # None /\ Commits(cur["workload"], step["workload"])
    BY <1>0, GoesOn DEF Commits
  <2>2. cur["workload"].slot = s /\ cur["workload"].node = n
    BY <1>0, <1>1
  <2> QED
    BY <2>1, <2>2 DEF Committing
<1>3. ordinals[s] = Assigned(PodIdOf(s), n) /\ s \notin Removing /\ ~Hosted(s)
  BY <1>0, <1>2 DEF Ledger
<1>4. /\ ordinals' = ordinals /\ PodIdOf(s) \in PodId
      /\ placements'[PodIdOf(s)] = [slot |-> s, node_id |-> n, resources |-> cur[q].resources]
      /\ \A p \in PodId \ {PodIdOf(s)} : placements'[p] = placements[p]
  BY <1>0, <1>1, PodIdOfType DEF CommitPlacement, TypeOK
<1>5. Waiting' \subseteq Waiting /\ Removing' \subseteq Removing
  BY DivisionAfter
<1>6. Committing' = {}
  BY <1>0, CommittingAfter, SMTT(30)
<1>7. Removed' \subseteq Removed
  BY RemovedAfter DEF Vacates
<1>8. \A t \in Slot \ {s} : placements'[PodIdOf(t)] = placements[PodIdOf(t)]
  BY <1>0, <1>4, PodIdOfType DEF SingleLeader
<1>9. \A t \in Slot \ {s} : (Hosted(t)' <=> Hosted(t)) /\ PlacementOf(t)' = PlacementOf(t)
  BY <1>8 DEF Hosted, PlacementOf
<1>10. \A t \in Slot : Freeing(t) => Freeing(t)'
  BY <1>0, FreeingAfter
<1>11. OwnKeys'
  BY <1>0, <1>4, SMTT(30) DEF OwnKeys
<1>12. \A t \in Waiting' : ordinals'[t] = None
  BY <1>0, <1>4, <1>5 DEF Ledger
<1>13. \A t \in Removing' : ordinals'[t] # None
  BY <1>0, <1>4, <1>5 DEF Ledger
<1>14. \A t \in Removed' : ~Hosted(t)'
  <2> SUFFICES ASSUME NEW t \in Removed' PROVE ~Hosted(t)'
    OBVIOUS
  <2>1. t \in Removed /\ t \in Slot
    BY <1>7 DEF Removed
  <2>2. t \in Removing
    <3>1. PICK r \in Proposer : cur[r] # None /\ Vacates(cur[r], t)
      BY <2>1 DEF Removed
    <3>2. cur[r] \in Jobs(r)
      BY <3>1 DEF Jobs
    <3>3. Removes(cur[r], t)
      BY <3>1 DEF Removes, Vacates, Victim
    <3> QED
      BY <2>1, <3>2, <3>3 DEF Removing
  <2>3. t # s
    BY <1>3, <2>2
  <2>4. ~Hosted(t)
    BY <1>0, <2>1 DEF Ledger
  <2> QED
    BY <1>9, <2>1, <2>3, <2>4
<1>15. SlotBacksPlacement'
  <2> SUFFICES ASSUME NEW t \in Slot, Hosted(t)'
               PROVE  \/ ordinals'[t] = Assigned(PodIdOf(t), PlacementOf(t)'.node_id)
                      \/ ordinals'[t] = Freed /\ Freeing(t)'
    BY DEF SlotBacksPlacement, Freeing
  <2>1. CASE t = s
    <3>1. PlacementOf(s)'.node_id = n
      BY <1>4, SMTT(30) DEF PlacementOf
    <3>2. ordinals'[s] = Assigned(PodIdOf(s), PlacementOf(s)'.node_id)
      BY <1>3, <1>4, <3>1
    <3> QED
      BY <2>1, <3>2
  <2>2. CASE t # s
    <3>1. Hosted(t)
      BY <1>9, <2>2
    <3>2. \/ ordinals[t] = Assigned(PodIdOf(t), PlacementOf(t).node_id)
          \/ ordinals[t] = Freed /\ Freeing(t)
      BY <1>0, <3>1 DEF Ledger, SlotBacksPlacement, Freeing
    <3> QED
      BY <1>4, <1>9, <1>10, <2>2, <3>2
  <2> QED
    BY <2>1, <2>2
<1>16. Kept
  BY <1>3, <1>8 DEF Kept
<1> QED
  BY <1>6, <1>11, <1>12, <1>13, <1>14, <1>15, <1>16 DEF Ledger

\* A command that is applied for a proposer.
LEMMA AwaitKeeps ==
    ASSUME LInv, NEW q \in Proposer, Await(q)
    PROVE  LInv' /\ Kept
<1> DEFINE j == cur[q]
<1>1. PInv'
  BY AwaitStep DEF LInv
<1>2. Division' /\ j.kind # "trigger"
  BY DivisionAfter
<1>3. j \in Job /\ j # None /\ Carry(j, step[q])
  BY GoesOn DEF Await
<1> SUFFICES Ledger' /\ Kept
  BY <1>1, <1>2 DEF LInv, SingleLeader
<1>4. CASE j.kind = "place" /\ j.victims # {} /\ Vacate(Victim(j), step[q])
  <2>1. Victim(j) \in Slot
    BY <1>3, <1>4, JobKinds DEF Victim, PlaceJob
  <2>2. Vacates(j, Victim(j))
    BY <1>4 DEF Vacates
  <2> QED
    BY <1>1, <1>4, <2>1, <2>2, VacateKeeps
<1>5. CASE j.kind = "place" /\ j.victims = {} /\ CommitScheduling(j, step[q])
  BY <1>1, <1>5, RecordKeeps, CommitKeeps DEF CommitScheduling
<1>6. CASE j.kind = "vacate" /\ Vacate(j.slot, step[q])
  <2>1. j.slot \in Slot
    BY <1>3, <1>6, JobKinds DEF VacateJob
  <2>2. Vacates(j, j.slot)
    BY <1>6 DEF Vacates
  <2> QED
    BY <1>1, <1>6, <2>1, <2>2, VacateKeeps
<1>7. CASE j.kind = "resize" /\ ReplaceStalePod(j, step[q])
  BY <1>1, <1>7, ResizeKeeps
<1>8. CASE j.kind = "reassign" /\ ReassignPodId(j.slot, PodIdOf(j.slot))
  BY <1>1, <1>8, ReassignKeeps
<1>9. CASE j.kind = "scale" /\ ScaleWorkload(j.workload, j.spec)
  <2>1. j.workload \in Workload /\ j.spec \in WorkloadSpec
    BY <1>3, <1>9, JobKinds DEF SpecJob
  <2>2. WorkloadNext
    BY <1>9, <2>1 DEF WorkloadNext
  <2> QED
    BY <1>1, <1>9, <2>2, SpecAndNodeJobsKeep
<1>10. CASE \/ j.kind = "cordon" /\ SetNodeSchedulable(j.node, FALSE)
            \/ j.kind = "evict" /\ EvictNode(j.node, MaxTime)
            \/ j.kind = "expire" /\ ExpireNode(j.node, step[q])
  <2>1. j.node \in Node
    BY <1>3, <1>10, JobKinds DEF NodeJob
  <2>2. MaxTime \in Time /\ 0 \in Time
    BY ConstantsAssumption, SMTT(30) DEF Time
  <2>3. NodeNext \/ RevocationNext
    BY <1>10, <2>1, <2>2 DEF NodeNext, RevocationNext, ExpireNode
  <2> QED
    BY <1>1, <1>10, <2>3, SpecAndNodeJobsKeep
<1> QED
  BY <1>2, <1>3, <1>4, <1>5, <1>6, <1>7, <1>8, <1>9, <1>10 DEF Carry

-----------------------------------------------------------------------------
(* Starting on a batch.                                                    *)

\* Jobs that fit q and the state they were made from.
Fits(q, jobs) ==
    /\ \A j \in jobs :
          /\ q # "cron" /\ j.kind # "trigger"
          /\ j.kind = "place" <=> q = "workload"
          /\ j.kind = "resize" <=> q = "vpa"
          /\ \A s \in Slot : Removes(j, s) => Hosted(s)
    /\ q = "workload" =>
          \A j \in jobs : ordinals[j.slot] = None /\ \A k \in jobs : j.slot = k.slot => j = k

\* A proposer that starts on such jobs.
LEMMA StartKeeps ==
    ASSUME LInv, PInv', NEW q \in Proposer, NEW jobs \in SUBSET Job, StartBatch(q, jobs),
           Fits(q, jobs), triggered' = None
    PROVE  LInv' /\ Kept
<1>0. TypeOK /\ SingleLeader /\ Ledger /\ Division /\ ControllersTypeOK
  BY DEF LInv, PInv, ControllersTypeOK
<1>1. UNCHANGED <<ordinals, placements, behind, orphans>> /\ Take(q, jobs) /\ Idle(q) /\ jobs # {}
  BY DEF StartBatch, fleetVars, placementVars, leaderVars
<1>2. PICK i \in jobs \cup {None} :
        /\ IF jobs = {} THEN i = None ELSE i # None
        /\ cur' = [cur EXCEPT ![q] = i]
        /\ todo' = [todo EXCEPT ![q] = jobs \ {i}]
  BY <1>1 DEF Take
<1>3. i \in jobs /\ i # None
  BY <1>1, <1>2
<1>4. cur'[q] = i /\ todo'[q] = jobs \ {i}
  BY <1>0, <1>2 DEF ControllersTypeOK
<1>5. step' = [step EXCEPT ![q] = 1]
  BY <1>1, SMTT(30) DEF Take
<1>6. step'[q] = 1
  BY <1>0, <1>5 DEF ControllersTypeOK
<1>7. \A r \in Proposer \ {q} : cur'[r] = cur[r] /\ todo'[r] = todo[r] /\ step'[r] = step[r]
  BY <1>0, <1>2, <1>5 DEF ControllersTypeOK
<1>8. \A r \in Proposer \ {q} : Jobs(r)' = Jobs(r)
  BY <1>7 DEF Jobs
<1>9. Jobs(q)' \subseteq jobs
  BY <1>3, <1>4 DEF Jobs
<1>10. \A s \in Slot : Hosted(s)' <=> Hosted(s)
  BY <1>1 DEF Hosted, PlacementOf
<1>11. \A s \in Removing' : s \in Removing \/ Hosted(s)
  <2> SUFFICES ASSUME NEW s \in Removing' PROVE s \in Removing \/ Hosted(s)
    OBVIOUS
  <2>1. PICK r \in Proposer : \E j \in Jobs(r)' : Removes(j, s)
    BY DEF Removing, Removes
  <2>2. s \in Slot
    BY DEF Removing
  <2> QED
    BY <1>8, <1>9, <2>1, <2>2 DEF Removing, Fits
<1>12. \A s \in Waiting' : ordinals[s] = None
  <2>1. CASE q = "workload"
    BY <1>3, <1>4, <2>1, SMTT(30) DEF Waiting, Fits
  <2>2. CASE q # "workload"
    <3>1. cur'["workload"] = cur["workload"] /\ todo'["workload"] = todo["workload"] /\ step'["workload"] = step["workload"]
      BY <1>7, <2>2 DEF Proposer
    <3>2. Waiting' = Waiting
      BY <3>1 DEF Waiting, Commits
    <3> QED
      BY <1>0, <3>2 DEF Ledger
  <2> QED
    BY <2>1, <2>2
<1>13. Committing' \subseteq Committing
  <2>1. CASE q = "workload"
    BY <1>6, <2>1, SMTT(30) DEF Committing, Commits
  <2>2. CASE q # "workload"
    <3>1. cur'["workload"] = cur["workload"] /\ step'["workload"] = step["workload"]
      BY <1>7, <2>2 DEF Proposer
    <3> QED
      BY <3>1 DEF Committing, Commits
  <2> QED
    BY <2>1, <2>2
<1>14. Removed' \subseteq Removed
  BY <1>6, <1>7, SMTT(30) DEF Removed, Vacates, Victim
<1>15. \A s : Freeing(s) => Freeing(s)'
  <2>1. CASE q = "vpa"
    BY <1>1, <2>1 DEF Idle, Freeing
  <2>2. CASE q # "vpa"
    BY <1>7, <2>2 DEF Proposer, Freeing
  <2> QED
    BY <2>1, <2>2
<1>16. Division'
  <2>1. ASSUME NEW r \in Proposer, NEW j \in Jobs(r)'
        PROVE  /\ r # "cron" /\ j.kind # "trigger"
               /\ j.kind = "place" <=> r = "workload"
               /\ j.kind = "resize" <=> r = "vpa"
    <3>1. CASE r = q
      BY <1>9, <3>1 DEF Fits
    <3>2. CASE r # q
      BY <1>0, <1>8, <3>2, SMTT(30) DEF Division
    <3> QED
      BY <3>1, <3>2
  <2>2. \A j \in todo'["workload"] :
          /\ cur'["workload"] # None => cur'["workload"].slot # j.slot
          /\ \A k \in todo'["workload"] : j.slot = k.slot => j = k
    <3>1. CASE q = "workload"
      BY <1>3, <1>4, <3>1 DEF Fits
    <3>2. CASE q # "workload"
      <4>1. cur'["workload"] = cur["workload"] /\ todo'["workload"] = todo["workload"]
        BY <1>7, <3>2 DEF Proposer
      <4> QED
        BY <1>0, <4>1 DEF Division
    <3> QED
      BY <3>1, <3>2
  <2> QED
    BY <1>0, <1>1, <2>1, <2>2 DEF Division
<1>17. OwnKeys'
  BY <1>0, <1>1 DEF Ledger, OwnKeys
<1>18. \A c \in Committing' : /\ ordinals'[c[1]] = Assigned(PodIdOf(c[1]), c[2])
                              /\ ~Hosted(c[1])' /\ c[1] \notin Removing'
  <2> SUFFICES ASSUME NEW c \in Committing
               PROVE  /\ ordinals'[c[1]] = Assigned(PodIdOf(c[1]), c[2])
                      /\ ~Hosted(c[1])' /\ c[1] \notin Removing'
    BY <1>13
  <2>1. ordinals[c[1]] = Assigned(PodIdOf(c[1]), c[2]) /\ ~Hosted(c[1]) /\ c[1] \notin Removing
    BY <1>0 DEF Ledger
  <2>2. c[1] \in Slot
    BY DEF Committing
  <2> QED
    BY <1>1, <1>10, <1>11, <2>1, <2>2
<1>19. \A s \in Removing' : ordinals'[s] # None
  <2> SUFFICES ASSUME NEW s \in Removing' PROVE ordinals[s] # None
    BY <1>1
  <2>1. s \in Slot
    BY DEF Removing
  <2> QED
    BY <1>0, <1>11, <2>1, HostedIsRecorded DEF Ledger
<1>20. \A s \in Removed' : ~Hosted(s)'
  BY <1>0, <1>10, <1>14 DEF Ledger, Removed
<1>21. SlotBacksPlacement'
  BY <1>0, <1>1, <1>10, <1>15 DEF Ledger, SlotBacksPlacement, Freeing, PlacementOf
<1>22. Kept
  BY <1>1 DEF Kept
<1>23. Ledger'
  BY <1>1, <1>12, <1>17, <1>18, <1>19, <1>20, <1>21 DEF Ledger
<1> QED
  BY <1>16, <1>22, <1>23 DEF LInv, SingleLeader

-----------------------------------------------------------------------------
(* What the proposers read fits the state, as the one leader is up to date. *)

\* The leader reads what it has applied.
LEMMA ReadsApplied ==
    ASSUME LInv
    PROVE  /\ Seen.ordinals = ordinals /\ Seen.placements = placements
           /\ Seen \in View /\ triggered = None
  BY SeenType DEF LInv, Division, Seen, Applied

\* A placement is that of the slot it names.
LEMMA PlacedIsHosted ==
    ASSUME LInv, NEW p \in PodId, placements[p] # None
    PROVE  placements[p].slot \in Slot /\ Hosted(placements[p].slot)
<1>1. placements[p].slot \in Slot
  BY DEF LInv, PInv, ControllersTypeOK, TypeOK, Placement
<1>2. p = PodIdOf(placements[p].slot)
  BY DEF LInv, Ledger, OwnKeys
<1>3. PICK s \in Slot : s = placements[p].slot
  BY <1>1
<1>4. Hosted(s)
  BY <1>2, <1>3 DEF Hosted, PlacementOf
<1> QED
  BY <1>3, <1>4

\* The victims of a decision are placed in the state that was read.
LEMMA VictimsArePlaced ==
    ASSUME NEW v \in View, NEW specs, NEW s, NEW c \in Decisions(v, specs, s), c # None,
           NEW t \in c.victims
    PROVE  \E p \in PodId : v.placements[p] # None /\ v.placements[p].slot = t
<1> DEFINE spec  == specs[WorkloadOf(s)]
           plans == IF spec.priority > 0 THEN FindPreemptionPlan(v, specs, s) ELSE {}
<1>1. \/ \E n \in Candidates(v, spec, s) : c = [node |-> n, victims |-> {}, pass |-> 3]
      \/ \E plan \in plans :
            c = [node |-> plan.node, victims |-> {v.placements[p].slot : p \in plan.victims}, pass |-> 4]
  BY DEF Decisions
<1>2. PICK plan \in plans :
        c = [node |-> plan.node, victims |-> {v.placements[p].slot : p \in plan.victims}, pass |-> 4]
  BY <1>1, SMTT(30)
<1>3. \A p \in plan.victims : p \in PodId /\ v.placements[p] # None
  BY <1>2, PlanType
<1>4. PICK p \in plan.victims : t = v.placements[p].slot
  BY <1>2
<1> QED
  BY <1>3, <1>4

\* reconcile_all makes jobs for slots without a record.
LEMMA ScheduleFits ==
    ASSUME LInv, NEW specs, NEW d \in Schedules(Seen, specs)
    PROVE  Fits("workload", ReconcileJobs(specs, d))
<1>1. ASSUME NEW j \in ReconcileJobs(specs, d)
      PROVE  \E s \in Slot : /\ s \in DOMAIN d /\ d[s] # None /\ j = Place(specs, s, d[s])
                             /\ ordinals[s] = None /\ d[s] \in Decisions(Seen, specs, s)
  <2>1. PICK s \in DOMAIN d : d[s] # None /\ j = Place(specs, s, d[s])
    BY DEF ReconcileJobs
  <2>2. s \in Pending(Seen, specs) /\ d[s] \in Decisions(Seen, specs, s)
    BY DEF Schedules
  <2>3. s \in Slot /\ ordinals[s] = None
    BY <2>2, ReadsApplied DEF Pending
  <2> QED
    BY <2>1, <2>2, <2>3
<1>2. ASSUME NEW j \in ReconcileJobs(specs, d)
      PROVE  /\ j.kind = "place" /\ ordinals[j.slot] = None
             /\ \A t \in Slot : Removes(j, t) => Hosted(t)
  <2>1. PICK s \in Slot : /\ d[s] # None /\ j = Place(specs, s, d[s])
                         /\ ordinals[s] = None /\ d[s] \in Decisions(Seen, specs, s)
    BY <1>1
  <2>2. j.kind = "place" /\ j.slot = s /\ j.victims = d[s].victims
    BY <2>1 DEF Place
  <2>3. ASSUME NEW t \in Slot, Removes(j, t) PROVE Hosted(t)
    <3>1. t \in d[s].victims
      BY <2>2, <2>3 DEF Removes
    <3>2. \E p \in PodId : Seen.placements[p] # None /\ Seen.placements[p].slot = t
      BY <2>1, <3>1, ReadsApplied, VictimsArePlaced, SMTT(30)
    <3> QED
      BY <3>2, ReadsApplied, PlacedIsHosted
  <2> QED
    BY <2>1, <2>2, <2>3
<1>3. ASSUME NEW j \in ReconcileJobs(specs, d), NEW k \in ReconcileJobs(specs, d), j.slot = k.slot
      PROVE  j = k
  <2>1. PICK s \in Slot : j = Place(specs, s, d[s])
    BY <1>1
  <2>2. PICK t \in Slot : k = Place(specs, t, d[t])
    BY <1>1
  <2>3. s = t
    BY <1>3, <2>1, <2>2 DEF Place
  <2> QED
    BY <2>1, <2>2, <2>3
<1> QED
  BY <1>2, <1>3 DEF Fits

\* Jobs about specs, pods and nodes that remove no slot fit the other proposers.
LEMMA PlainFits ==
    ASSUME NEW q, q \notin {"cron", "workload", "vpa"}, NEW jobs,
           \A j \in jobs : j.kind \in {"reassign", "scale", "cordon", "evict", "expire"}
    PROVE  Fits(q, jobs)
  BY DEF Fits, Removes

\* So do jobs that vacate placed slots.
LEMMA VacateFits ==
    ASSUME NEW q, q \notin {"cron", "workload", "vpa"}, NEW jobs,
           \A j \in jobs : \/ j.kind = "cordon"
                           \/ j.kind = "vacate" /\ Hosted(j.slot)
    PROVE  Fits(q, jobs)
  BY DEF Fits, Removes

\* A step that leaves the jobs and the state machine alone.
LEMMA QuietKeeps ==
    ASSUME LInv, PInv', UNCHANGED <<ordinals, placements, todo, cur, step, behind, orphans, triggered>>
    PROVE  LInv' /\ Kept
<1>1. Division'
  BY DEF LInv, Division, Jobs
<1>2. /\ Waiting' = Waiting /\ Committing' = Committing /\ Removing' = Removing /\ Removed' = Removed
      /\ SlotBacksPlacement' = SlotBacksPlacement /\ OwnKeys' = OwnKeys
  BY DEF Waiting, Committing, Commits, Removing, Removes, Removed, Vacates, Victim, Jobs,
         SlotBacksPlacement, OwnKeys, Hosted, PlacementOf
<1>3. \A s : Hosted(s)' = Hosted(s)
  BY DEF Hosted, PlacementOf
<1>4. Ledger'
  BY <1>2, <1>3 DEF LInv, Ledger
<1>5. Kept
  BY DEF Kept
<1> QED
  BY <1>1, <1>4, <1>5 DEF LInv, SingleLeader

\* Reads by the controllers.
LEMMA ControllersKeep ==
    ASSUME LInv, ControllersNext
    PROVE  LInv' /\ Kept
<1> USE DEF Proposer
<1>0. PInv' /\ UNCHANGED <<ordinals, placements>>
  BY ControllersStep DEF LInv, fleetVars, placementVars
<1>1. /\ Seen.placements = placements /\ Seen \in View /\ triggered = None
      /\ PlaceJob \subseteq Job /\ VacateJob \subseteq Job /\ ResizeJob \subseteq Job
      /\ SpecJob \subseteq Job /\ ReassignJob \subseteq Job /\ NodeJob \subseteq Job
  BY ReadsApplied DEF Job
<1>2. CASE ReconcileAll
  <2>1. PICK d \in Schedules(Seen, Seen.workloads) :
          StartBatch("workload", ReconcileJobs(Seen.workloads, d))
    BY <1>2 DEF ReconcileAll
  <2>2. Seen.workloads \in [Workload -> WorkloadSpec \cup {None}]
    BY <1>1 DEF View
  <2>3. ReconcileJobs(Seen.workloads, d) \in SUBSET Job
    BY <1>1, <2>2, ScheduleType
  <2>4. triggered' = None
    BY <1>1, <1>2 DEF ReconcileAll
  <2> QED
    BY <1>0, <2>1, <2>3, <2>4, ScheduleFits, StartKeeps
<1>3. ASSUME NEW w \in Workload, NEW spec \in WorkloadSpec PROVE ~TriggerCron(w, spec)
  BY DEF TriggerCron, StartBatch, LInv, SingleLeader
<1>4. ~ReconcileRun
  BY <1>1 DEF ReconcileRun
<1>5. ASSUME NEW s \in Slot, ReconcileDeadPod(s)
      PROVE  LInv' /\ Kept
  <2> DEFINE jobs == {[kind |-> "reassign", slot |-> s, pass |-> 3]}
  <2>1. jobs \in SUBSET Job /\ Fits("pod", jobs)
    BY <1>1, PlainFits, SMTT(30) DEF ReassignJob
  <2>2. StartBatch("pod", jobs) /\ triggered' = None
    BY <1>1, <1>5 DEF ReconcileDeadPod
  <2> HIDE DEF jobs
  <2> QED
    BY <1>0, <2>1, <2>2, StartKeeps
<1>6. ASSUME NEW S \in SUBSET Node, ExpireNodes(S)
      PROVE  LInv' /\ Kept
  <2> DEFINE jobs == {[kind |-> "expire", node |-> n, pass |-> 2] : n \in S}
  <2>1. jobs \in SUBSET Job
    BY <1>1 DEF NodeJob
  <2>2. Fits("node", jobs)
    BY PlainFits, SMTT(30)
  <2>3. StartBatch("node", jobs) /\ triggered' = None
    BY <1>1, <1>6 DEF ExpireNodes
  <2> HIDE DEF jobs
  <2> QED
    BY <1>0, <2>1, <2>2, <2>3, StartKeeps
<1>7. CASE ListTaints
  BY <1>0, <1>7, QuietKeeps DEF ListTaints, leaderVars
<1>8. ASSUME NEW n \in Node, NEW late \in SUBSET PodId, EnforceNoExecute(n, late)
      PROVE  LInv' /\ Kept
  <2> DEFINE out  == PlanEvictions(Seen, n, enforcing[n], late)
             jobs == {[kind |-> "vacate", slot |-> Seen.placements[p].slot, pass |-> 3] : p \in out}
  <2>1. \A p \in out : p \in PodId /\ Seen.placements[p] # None
    BY DEF PlanEvictions, PlacedOn
  <2>2. \A p \in out : Seen.placements[p].slot \in Slot /\ Hosted(Seen.placements[p].slot)
    BY <1>1, <2>1, PlacedIsHosted
  <2>3. jobs \in SUBSET Job
    BY <1>1, <2>2 DEF VacateJob
  <2>4. Fits("node", jobs)
    <3>1. \A j \in jobs : j.kind = "vacate" /\ Hosted(j.slot)
      BY <2>2, SMTT(30)
    <3> HIDE DEF jobs
    <3> QED
      BY <3>1, VacateFits
  <2>5. /\ StartBatch("node", jobs) \/ UNCHANGED <<fleetVars, leaderVars, todo, cur, step>>
        /\ triggered' = triggered
    BY <1>8 DEF EnforceNoExecute
  <2> HIDE DEF jobs
  <2>6. CASE StartBatch("node", jobs)
    BY <1>0, <1>1, <2>3, <2>4, <2>5, <2>6, StartKeeps
  <2>7. CASE UNCHANGED <<fleetVars, leaderVars, todo, cur, step>>
    BY <1>0, <2>5, <2>7, QuietKeeps DEF leaderVars
  <2> QED
    BY <2>5, <2>6, <2>7
<1>9. ASSUME NEW W \in SUBSET Workload, NEW replicas \in [W -> Replicas], Autoscale(replicas)
      PROVE  LInv' /\ Kept
  <2> DEFINE jobs == {ScaleJob(w, replicas[w]) : w \in DOMAIN replicas}
  <2>1. jobs \in SUBSET Job
    <3> SUFFICES ASSUME NEW w \in W PROVE ScaleJob(w, replicas[w]) \in SpecJob
      BY <1>1
    <3>1. Seen.workloads[w] # None
      BY <1>9 DEF Autoscale
    <3>2. Seen.workloads[w] \in WorkloadSpec
      BY <1>1, <3>1 DEF View
    <3> QED
      BY <3>2, SMTT(30) DEF ScaleJob, SpecJob, WorkloadSpec, Replicas
  <2>2. Fits("hpa", jobs)
    BY PlainFits, SMTT(30) DEF ScaleJob
  <2>3. StartBatch("hpa", jobs) /\ triggered' = None
    BY <1>1, <1>9 DEF Autoscale
  <2> HIDE DEF jobs
  <2> QED
    BY <1>0, <2>1, <2>2, <2>3, StartKeeps
<1>10. ASSUME NEW W \in SUBSET Workload, NEW pod \in [W -> PodId],
              NEW footprint \in [W -> Footprint], Resize(pod, footprint)
       PROVE  LInv' /\ Kept
  <2> DEFINE job(w) == [kind |-> "resize", slot |-> Seen.placements[pod[w]].slot, pass |-> 3,
                        spec |-> [Seen.workloads[w] EXCEPT !.footprint = footprint[w]]]
             jobs == {job(w) : w \in DOMAIN pod}
  <2>1. ASSUME NEW w \in W PROVE job(w) \in ResizeJob /\ Hosted(job(w).slot)
    <3>1. /\ Seen.workloads[w] # None
          /\ pod[w] \in PlacedPodsOf(Seen, w)
      BY <1>10 DEF Resize
    <3>2. Seen.workloads[w] \in WorkloadSpec
      BY <1>1, <3>1 DEF View
    <3>3. pod[w] \in PodId /\ placements[pod[w]] # None
      BY <1>1, <3>1 DEF PlacedPodsOf
    <3>4. placements[pod[w]].slot \in Slot /\ Hosted(placements[pod[w]].slot)
      BY <3>3, PlacedIsHosted
    <3>5. [Seen.workloads[w] EXCEPT !.footprint = footprint[w]] \in WorkloadSpec
      BY <3>2 DEF WorkloadSpec
    <3> QED
      BY <1>1, <3>4, <3>5 DEF ResizeJob
  <2>2. jobs \in SUBSET Job /\ \A j \in jobs : j.kind = "resize" /\ Hosted(j.slot)
    BY <1>1, <2>1, SMTT(30)
  <2>3. StartBatch("vpa", jobs) /\ triggered' = None
    BY <1>1, <1>10 DEF Resize
  <2> HIDE DEF jobs
  <2>4. Fits("vpa", jobs)
    BY <2>2 DEF Fits, Removes
  <2> QED
    BY <1>0, <2>2, <2>3, <2>4, StartKeeps
<1> QED
  BY <1>2, <1>3, <1>4, <1>5, <1>6, <1>7, <1>8, <1>9, <1>10, SMTT(30) DEF ControllersNext

\* Reads by admin operations.
LEMMA AdminKeeps ==
    ASSUME LInv,
           \/ \E w \in Workload, replicas \in Replicas : ScaleOne(w, replicas)
           \/ \E n \in Node, S \in SUBSET Slot : DrainPart(n, S)
           \/ \E n \in Node : EvictWhole(n)
    PROVE  LInv' /\ Kept
<1> USE DEF Proposer
<1>0. PInv'
  BY AdminStep DEF LInv
<1>1. /\ Seen.placements = placements /\ Seen \in View /\ triggered = None
      /\ VacateJob \subseteq Job /\ SpecJob \subseteq Job /\ NodeJob \subseteq Job
  BY ReadsApplied DEF Job
<1>2. ASSUME NEW w \in Workload, NEW replicas \in Replicas, ScaleOne(w, replicas)
      PROVE  LInv' /\ Kept
  <2>1. Seen.workloads[w] \in WorkloadSpec
    BY <1>1, <1>2 DEF ScaleOne, View
  <2>2. ScaleJob(w, replicas) \in SpecJob
    BY <2>1 DEF ScaleJob, SpecJob, WorkloadSpec, Replicas
  <2>3. {ScaleJob(w, replicas)} \in SUBSET Job
    BY <1>1, <2>2
  <2>4. Fits("scale", {ScaleJob(w, replicas)})
    BY PlainFits, SMTT(30) DEF ScaleJob
  <2> QED
    BY <1>0, <1>1, <1>2, <2>3, <2>4, StartKeeps DEF ScaleOne
<1>3. ASSUME NEW n \in Node, NEW S \in SUBSET Slot, DrainPart(n, S)
      PROVE  LInv' /\ Kept
  <2> DEFINE jobs == {[kind |-> "cordon", node |-> n, pass |-> 2]} \cup
                     {[kind |-> "vacate", slot |-> s, pass |-> 3] : s \in S}
  <2>1. jobs \in SUBSET Job
    BY <1>1 DEF NodeJob, VacateJob
  <2>2. \A s \in S : Hosted(s)
    <3>1. S \subseteq {Seen.placements[p].slot : p \in PlacedOn(Seen, n)}
      BY <1>3 DEF DrainPart
    <3> QED
      BY <1>1, <3>1, PlacedIsHosted DEF PlacedOn
  <2>3. \A j \in jobs : j.kind = "cordon" \/ (j.kind = "vacate" /\ Hosted(j.slot))
    BY <2>2, SMTT(30)
  <2>4. StartBatch("drain", jobs) /\ triggered' = None
    BY <1>1, <1>3 DEF DrainPart
  <2> HIDE DEF jobs
  <2>5. Fits("drain", jobs)
    BY <2>3, VacateFits
  <2> QED
    BY <1>0, <2>1, <2>4, <2>5, StartKeeps
<1>4. ASSUME NEW n \in Node, EvictWhole(n)
      PROVE  LInv' /\ Kept
  <2>1. {[kind |-> "evict", node |-> n, pass |-> 2]} \in SUBSET Job
    BY <1>1 DEF NodeJob
  <2>2. Fits("drain", {[kind |-> "evict", node |-> n, pass |-> 2]})
    BY PlainFits, SMTT(30)
  <2> QED
    BY <1>0, <1>1, <1>4, <2>1, <2>2, StartKeeps DEF EvictWhole
<1> QED
  BY <1>2, <1>3, <1>4, SMTT(30)

\* Commands of the operator.
LEMMA OperatorKeeps ==
    ASSUME LInv, Operator
    PROVE  LInv' /\ Kept
<1>1. PInv' /\ TypeOK'
  BY OperatorStep DEF LInv, PInv, ControllersTypeOK
<1>2. UNCHANGED <<todo, cur, step, triggered, behind, orphans>>
  BY DEF Operator, taskVars, leaderVars
<1>3. NodeNext \/ WorkloadNext
  <2>1. 0 \in Time
    BY ConstantsAssumption, SMTT(30) DEF Time
  <2> QED
    BY <2>1 DEF Operator, NodeNext, WorkloadNext
<1>4. /\ \A p \in PodId : placements'[p] \in {placements[p], None}
      /\ \A t \in Slot : \/ ordinals'[t] = ordinals[t]
                         \/ /\ ordinals'[t] = Freed /\ Hosted(t)
                            /\ placements'[PodIdOf(t)] = None
  BY <1>3, SpecCommand, NodeCommand
<1>5. /\ Waiting' = Waiting /\ Committing' = Committing /\ Removing' = Removing
      /\ Removed' = Removed /\ \A s : Freeing(s)' = Freeing(s)
  BY <1>2 DEF Waiting, Committing, Commits, Removing, Removes, Removed, Vacates, Victim, Jobs, Freeing
<1>6. Division'
  BY <1>2 DEF LInv, Division, Jobs
<1>7. Ledger' /\ Kept
  BY <1>1, <1>4, <1>5, ShrinkKeeps
<1> QED
  BY <1>1, <1>6, <1>7 DEF LInv, SingleLeader

\* With one leader, all that is left of LeaderNext is a follower that applies.
LEMMA LeaderKeeps ==
    ASSUME LInv, LeaderNext
    PROVE  LInv' /\ Kept
<1>1. PInv' /\ ~behind /\ orphans = {}
  BY LeaderStep DEF LInv, Division
<1>2. \A kept : ~Failover(kept)
  BY SMTT(30) DEF Failover, LInv, SingleLeader, PInv, ControllersTypeOK
<1>3. FollowerApplies
  BY <1>1, <1>2 DEF LeaderNext, CatchUp
<1> QED
  BY <1>1, <1>3, QuietKeeps DEF FollowerApplies, fleetVars, placementVars, taskVars

\* Every step keeps the inductive invariant and overwrites no placement.
LEMMA LInvStep == LInv /\ [Next]_vars => LInv' /\ Kept
<1> SUFFICES ASSUME LInv, [Next]_vars PROVE LInv' /\ Kept
  OBVIOUS
<1>1. CASE UNCHANGED vars
  <2>1. PInv'
    BY PInvStep DEF LInv
  <2> QED
    BY <1>1, <2>1, QuietKeeps DEF vars, controlVars, taskVars, leaderVars, fleetVars, placementVars
<1> QED
  BY <1>1, AwaitKeeps, ControllersKeep, AdminKeeps, OperatorKeeps, LeaderKeeps DEF Next, AdminNext

\* Nothing is placed and nobody has a job at first.
LEMMA LInvInit == SingleLeader /\ Init => LInv
<1> SUFFICES ASSUME SingleLeader, Init PROVE LInv
  OBVIOUS
<1>1. PInv
  BY PInvInit
<1>2. /\ \A q \in Proposer : cur[q] = None /\ todo[q] = {}
      /\ ~behind /\ orphans = {} /\ triggered = None
      /\ \A p \in PodId : placements[p] = None
  BY DEF Init
<1>3. cur["workload"] = None /\ todo["workload"] = {} /\ cur["vpa"] = None
  BY <1>2 DEF Proposer
<1>4. \A q \in Proposer : Jobs(q) = {}
  BY <1>2 DEF Jobs
<1>5. Waiting = {} /\ Committing = {} /\ Removing = {} /\ Removed = {}
  BY <1>2, <1>3, <1>4 DEF Waiting, Committing, Removing, Removed
<1>6. \A s \in Slot : ~Hosted(s)
  BY <1>2, PodIdOfType DEF Hosted, PlacementOf
<1>7. Division
  BY <1>2, <1>3, <1>4 DEF Division
<1>8. Ledger
  BY <1>2, <1>5, <1>6 DEF Ledger, OwnKeys, SlotBacksPlacement
<1> QED
  BY <1>1, <1>7, <1>8 DEF LInv

(***************************************************************************)
(* The slot record agrees with the placement, for any fleet and any number *)
(* of proposers under one leader: whatever reconcile_all, the autoscalers, *)
(* the pod and node controllers, drains and evictions interleave.  Tenants *)
(* share no workload name and no cron runs are due; the README says what   *)
(* each of the two hypotheses excludes.                                    *)
(***************************************************************************)
THEOREM SlotsBackPlacements == SingleLeader /\ Spec => []SlotBacksPlacement
<1>1. LInv => SlotBacksPlacement
  BY DEF LInv, Ledger
<1>2. LInv /\ [Next]_vars => LInv'
  BY LInvStep
<1> QED
  BY <1>1, <1>2, LInvInit, PTL DEF Spec

(***************************************************************************)
(* Under the same hypotheses no step overwrites a placement with one on    *)
(* another node: CommitPlacement is proposed for a slot that had no record *)
(* when it was read, and nobody places it in between.                      *)
(***************************************************************************)
THEOREM PodsStayPut == SingleLeader /\ Spec => StaysPut
<1> DEFINE Stays == \A s \in Slot : (Hosted(s) /\ Hosted(s)') =>
                       PlacementOf(s)'.node_id = PlacementOf(s).node_id
<1>1. LInv /\ [Next]_vars => LInv'
  BY LInvStep
<1>2. Kept => Stays
  <2> SUFFICES ASSUME Kept, NEW s \in Slot, Hosted(s), Hosted(s)'
               PROVE  PlacementOf(s)'.node_id = PlacementOf(s).node_id
    OBVIOUS
  <2>1. placements'[PodIdOf(s)] \in {placements[PodIdOf(s)], None}
    BY DEF Kept
  <2> QED
    BY <2>1 DEF Hosted, PlacementOf
<1>3. LInv /\ [Next]_vars => [Stays]_vars
  BY <1>2, LInvStep
<1>4. StaysPut <=> [][Stays]_vars
  BY DEF StaysPut
<1> HIDE DEF Stays
<1> QED
  BY <1>1, <1>3, <1>4, LInvInit, PTL DEF Spec

=============================================================================
