----------------------------- MODULE RaftProofs -----------------------------
(***************************************************************************)
(* What is below the commands, for every log and any number of replicas,   *)
(* crashes and snapshots: the application of entries to the state machine, *)
(* and the log store with the abstract log that it implements.             *)
(***************************************************************************)
EXTENDS RaftApply, LogStore, TLAPS

\* Steps that name no prover are tried with Zenon, then with the SMT solver.
USE ZenonT(20), SMTT(30)

-----------------------------------------------------------------------------
(* Applying entries.                                                       *)

\* How far apply has come with an entry determines how the counter in memory and
\* openraft's position stand to the database, on a replica without a snapshot.
InStep(r) ==
    IF applying[r] = None
    THEN /\ version[r] = db[r].version
         /\ raft_applied[r] = db[r].last_applied
    ELSE /\ applying[r].version = version[r]
         /\ applying[r].index = raft_applied[r] + 1
         /\ IF applying[r].durable
            THEN /\ version[r] = db[r].version
                 /\ applying[r].index = db[r].last_applied
            ELSE /\ version[r] = db[r].version + 1
                 /\ raft_applied[r] = db[r].last_applied

Clean(r) ==
    /\ IsStateAt(db[r], db[r].last_applied)
    /\ told[r] <= db[r].last_applied
    /\ up[r] => InStep(r)
    /\ view[r] # None =>
          /\ IsStateAt(view[r].data, view[r].data.last_applied)
          /\ view[r].data.last_applied <= db[r].last_applied

\* The inductive invariant.
RInv ==
    /\ TypeOK
    /\ \A r \in Replica : ~up[r] => applying[r] = None /\ view[r] = None
    /\ \A r \in Replica : installs[r] = 0 => Clean(r)
    /\ SnapshotIsConsistent

-----------------------------------------------------------------------------
\* Committing an entry keeps a database a database.
LEMMA WithEntryType ==
    ASSUME NEW d \in Database, NEW i \in Index, NEW k \in Kind, NEW v \in Nat
    PROVE  WithEntry(d, i, k, v) \in Database
<1>1. i \in 0 .. MaxLog
  BY RaftAssumption, SMTT(30) DEF Index
<1>2. [d.times EXCEPT ![i] = @ + 1] \in [Index -> Nat]
  BY SMTT(30) DEF Database
<1>3. {a \in d.audit : a[1] # v} \cup {<<v, i>>} \in SUBSET (Nat \X Index)
  BY SMTT(30) DEF Database
<1> QED
  BY <1>1, <1>2, <1>3 DEF WithEntry, Database

\* Committing the next entry under the next version leads from the state of one
\* prefix of the log to the state of the next.
LEMMA NextState ==
    ASSUME NEW d \in Database, NEW i \in 0 .. MaxLog, i + 1 \in Index,
           log \in [Index -> Kind], IsStateAt(d, i)
    PROVE  IsStateAt(WithEntry(d, i + 1, log[i + 1], i + 1), i + 1)
<1> DEFINE e == WithEntry(d, i + 1, log[i + 1], i + 1)
           N(n) == {k \in Index : k <= n /\ log[k] = "normal"}
           A(n) == {<<j, j>> : j \in N(n)}
<1>0. i \in Nat /\ MaxLog \in Nat /\ Index = 1 .. MaxLog
  BY RaftAssumption, SMTT(30) DEF Index
<1>1. e.last_applied = i + 1 /\ e.version = i + 1
  BY DEF WithEntry
<1>2. \A j \in Index : e.times[j] = IF j <= i + 1 THEN 1 ELSE 0
  <2> SUFFICES ASSUME NEW j \in Index
               PROVE  e.times[j] = IF j <= i + 1 THEN 1 ELSE 0
    OBVIOUS
  <2>1. d.times \in [Index -> Nat] /\ d.times[j] = IF j <= i THEN 1 ELSE 0
    BY DEF IsStateAt, Database
  <2>2. e.times = [d.times EXCEPT ![i + 1] = @ + 1]
    BY DEF WithEntry
  <2>3. CASE j = i + 1
    BY <1>0, <2>1, <2>2, <2>3, SMTT(30)
  <2>4. CASE j # i + 1
    <3>1. e.times[j] = d.times[j]
      BY <2>1, <2>2, <2>4
    <3>2. j <= i + 1 <=> j <= i
      BY <1>0, <2>4, SMTT(30)
    <3> QED
      BY <2>1, <3>1, <3>2
  <2> QED
    BY <2>3, <2>4
<1>3. e.audit = A(i + 1)
  <2>1. d.audit = A(i)
    BY DEF IsStateAt
  <2>2. CASE log[i + 1] = "normal"
    <3>1. e.audit = {a \in A(i) : a[1] # i + 1} \cup {<<i + 1, i + 1>>}
      BY <2>1, <2>2 DEF WithEntry
    <3>2. \A j \in N(i) : j # i + 1
      BY <1>0, SMTT(30)
    <3>3. {a \in A(i) : a[1] # i + 1} = A(i)
      BY <3>2, SMTT(30)
    <3>4. N(i + 1) = N(i) \cup {i + 1}
      BY <1>0, <2>2, SMTT(30)
    <3>5. A(i + 1) = A(i) \cup {<<i + 1, i + 1>>}
      <4> HIDE DEF N
      <4> QED
        BY <3>4
    <3> QED
      BY <3>1, <3>3, <3>5
  <2>3. CASE log[i + 1] # "normal"
    <3>1. N(i + 1) = N(i)
      BY <1>0, <2>3, SMTT(30)
    <3> QED
      BY <2>1, <2>3, <3>1 DEF WithEntry
  <2> QED
    BY <2>2, <2>3
<1>4. /\ e.last_membership # 0 => log[e.last_membership] = "membership"
      /\ e.last_membership <= i + 1
      /\ \A j \in Index : (e.last_membership < j /\ j <= i + 1) => log[j] # "membership"
  <2>1. d.last_membership \in 0 .. MaxLog
    BY DEF Database
  <2>2. CASE log[i + 1] = "membership"
    <3>1. e.last_membership = i + 1
      BY <2>2 DEF WithEntry
    <3> QED
      BY <1>0, <2>2, <3>1, SMTT(30)
  <2>3. CASE log[i + 1] # "membership"
    <3>1. e.last_membership = d.last_membership
      BY <2>3 DEF WithEntry
    <3>2. /\ d.last_membership # 0 => log[d.last_membership] = "membership"
          /\ d.last_membership <= i
          /\ \A j \in Index : (d.last_membership < j /\ j <= i) => log[j] # "membership"
      BY DEF IsStateAt
    <3>3. \A j \in Index : j <= i + 1 => j <= i \/ j = i + 1
      BY <1>0, SMTT(30)
    <3> HIDE DEF e
    <3> QED
      BY <1>0, <2>1, <2>3, <3>1, <3>2, <3>3, SMTT(30)
  <2> QED
    BY <2>2, <2>3
<1> HIDE DEF e
<1>5. IsStateAt(e, i + 1)
  BY <1>1, <1>2, <1>3, <1>4 DEF IsStateAt
<1> QED
  BY <1>5 DEF e

-----------------------------------------------------------------------------
\* The empty database is the state of the empty prefix.
LEMMA EmptyState == Empty \in Database /\ IsStateAt(Empty, 0)
<1>1. Empty \in Database
  BY RaftAssumption, SMTT(30) DEF Empty, Database, Index
<1>2. \A j \in Index : ~(j <= 0)
  BY RaftAssumption, SMTT(30) DEF Index
<1>3. {<<j, j>> : j \in {k \in Index : k <= 0 /\ log[k] = "normal"}} = {}
  BY <1>2
<1> QED
  BY <1>1, <1>2, <1>3, SMTT(30) DEF Empty, IsStateAt

\* Every step keeps the variables in their types.
LEMMA TypeStep == TypeOK /\ [Next]_vars => TypeOK'
<1> SUFFICES ASSUME TypeOK, [Next]_vars PROVE TypeOK'
  OBVIOUS
<1> USE RaftAssumption DEF TypeOK
<1>1. CASE Replicate
  BY <1>1, SMTT(30) DEF Replicate
<1>2. ASSUME NEW r \in Replica, AllocateVersion(r) PROVE TypeOK'
  <2>1. raft_applied[r] + 1 \in Index
    BY <1>2, SMTT(30) DEF AllocateVersion, Index
  <2>2. [index |-> raft_applied[r] + 1, version |-> version[r] + 1, durable |-> FALSE]
          \in Applying
    BY <2>1, SMTT(30) DEF Applying
  <2> QED
    BY <1>2, <2>2, SMTT(30) DEF AllocateVersion
<1>3. ASSUME NEW r \in Replica, CommitBatch(r) PROVE TypeOK'
  <2>1. applying[r] \in Applying
    BY <1>3 DEF CommitBatch
  <2>2. WithEntry(db[r], applying[r].index, log[applying[r].index], applying[r].version)
          \in Database
    BY <2>1, WithEntryType DEF Applying
  <2>3. [applying[r] EXCEPT !.durable = TRUE] \in Applying
    BY <2>1 DEF Applying
  <2>4. db' \in [Replica -> Database]
    BY <1>3, <2>2 DEF CommitBatch
  <2>5. applying' \in [Replica -> Applying \cup {None}]
    BY <1>3, <2>3 DEF CommitBatch
  <2> QED
    BY <1>3, <2>4, <2>5 DEF CommitBatch
<1>4. ASSUME NEW r \in Replica, Notify(r) PROVE TypeOK'
  <2>1. applying[r] \in Applying
    BY <1>4 DEF Notify
  <2>2. applying[r].index \in 0 .. MaxLog
    BY <2>1, SMTT(30) DEF Applying, Index
  <2> QED
    BY <1>4, <2>2 DEF Notify
<1>5. ASSUME NEW r \in Replica, Crash(r) PROVE TypeOK'
  BY <1>5, SMTT(30) DEF Crash
<1>6. ASSUME NEW r \in Replica, Restart(r) PROVE TypeOK'
  <2>1. db[r].version \in Nat /\ db[r].last_applied \in 0 .. MaxLog
    BY DEF Database
  <2> QED
    BY <1>6, <2>1 DEF Restart
<1>7. ASSUME NEW r \in Replica, BuildView(r) PROVE TypeOK'
  <2>1. [data |-> db[r], clean |-> installs[r] = 0] \in View
    BY DEF View
  <2> QED
    BY <1>7, <2>1 DEF BuildView
<1>8. ASSUME NEW r \in Replica, BuildFinish(r) PROVE TypeOK'
  <2>1. view[r] \in View
    BY <1>8 DEF BuildFinish
  <2>2. db[r].last_applied \in 0 .. MaxLog
    BY DEF Database
  <2>3. [data |-> view[r].data, clean |-> view[r].clean /\ installs[r] = 0,
         last_log_id |-> db[r].last_applied] \in Snapshot
    BY <2>1, <2>2 DEF View, Snapshot
  <2> QED
    BY <1>8, <2>3 DEF BuildFinish
<1>9. ASSUME NEW r \in Replica, NEW s \in snapshots, Install(r, s) PROVE TypeOK'
  <2>1. s.data \in Database /\ s.last_log_id \in 0 .. MaxLog
    BY DEF Snapshot
  <2>2. installs[r] + 1 \in 0 .. MaxInstalls
    BY <1>9, SMTT(30) DEF Install
  <2> QED
    BY <1>9, <2>1, <2>2 DEF Install
<1>10. CASE UNCHANGED vars
  BY <1>10 DEF vars
<1> QED
  BY <1>1, <1>2, <1>3, <1>4, <1>5, <1>6, <1>7, <1>8, <1>9, <1>10 DEF Next

-----------------------------------------------------------------------------
\* A step that leaves a replica alone leaves what RInv says of it.
LEMMA Untouched ==
    ASSUME RInv, log' = log, NEW q \in Replica,
           db'[q] = db[q], version'[q] = version[q], raft_applied'[q] = raft_applied[q],
           applying'[q] = applying[q], up'[q] = up[q], view'[q] = view[q],
           told'[q] = told[q], installs'[q] = installs[q]
    PROVE  /\ up'[q] \/ (applying'[q] = None /\ view'[q] = None)
           /\ installs'[q] = 0 => Clean(q)'
<1>1. up[q] \/ (applying[q] = None /\ view[q] = None)
  BY DEF RInv
<1>2. Clean(q) => Clean(q)'
  BY SMTT(30) DEF Clean, InStep, IsStateAt
<1> QED
  BY <1>1, <1>2 DEF RInv

\* A step that adds no snapshot leaves what RInv says of them.
LEMMA SameSnapshots ==
    ASSUME RInv, log' = log, snapshots' = snapshots
    PROVE  SnapshotIsConsistent'
BY SMTT(30) DEF RInv, SnapshotIsConsistent, IsStateAt

\* It suffices to look at the replica that a step is about.
LEMMA OneReplica ==
    ASSUME RInv, TypeOK', log' = log, SnapshotIsConsistent', NEW r \in Replica,
           \A q \in Replica \ {r} :
              /\ db'[q] = db[q] /\ version'[q] = version[q]
              /\ raft_applied'[q] = raft_applied[q] /\ applying'[q] = applying[q]
              /\ up'[q] = up[q] /\ view'[q] = view[q] /\ told'[q] = told[q]
              /\ installs'[q] = installs[q],
           up'[r] \/ (applying'[r] = None /\ view'[r] = None),
           installs'[r] = 0 => Clean(r)'
    PROVE  RInv'
<1>1. \A q \in Replica :
         /\ up'[q] \/ (applying'[q] = None /\ view'[q] = None)
         /\ installs'[q] = 0 => Clean(q)'
  <2> TAKE q \in Replica
  <2>1. CASE q = r
    BY <2>1
  <2>2. CASE q # r
    BY <2>2, Untouched
  <2> QED
    BY <2>1, <2>2
<1> QED
  BY <1>1 DEF RInv

\* The inductive step.
LEMMA RInvStep == RInv /\ [Next]_vars => RInv'
<1> SUFFICES ASSUME RInv, [Next]_vars PROVE RInv'
  OBVIOUS
<1>T. TypeOK /\ TypeOK'
  BY TypeStep DEF RInv
<1>1. CASE Replicate
  <2>1. \A q \in Replica :
         /\ up'[q] \/ (applying'[q] = None /\ view'[q] = None)
         /\ installs'[q] = 0 => Clean(q)'
    BY <1>1, Untouched DEF Replicate
  <2> QED
    BY <1>1, <1>T, <2>1, SameSnapshots DEF Replicate, RInv
<1>2. ASSUME NEW r \in Replica, AllocateVersion(r) PROVE RInv'
  <2>1. installs'[r] = 0 => Clean(r)'
    <3> SUFFICES ASSUME installs[r] = 0 PROVE Clean(r)'
      BY <1>2 DEF AllocateVersion
    <3>1. Clean(r)
      BY DEF RInv
    <3>2. InStep(r)
      BY <1>2, <3>1 DEF Clean, AllocateVersion
    <3>3. applying'[r] # None
      <4>1. raft_applied[r] + 1 \in Index /\ version[r] + 1 \in Nat
        BY <1>2, <1>T, RaftAssumption, SMTT(30) DEF TypeOK, AllocateVersion, Index
      <4>2. applying'[r] =
              [index |-> raft_applied[r] + 1, version |-> version[r] + 1, durable |-> FALSE]
        BY <1>2, <1>T DEF TypeOK, AllocateVersion
      <4>3. applying'[r] \in Applying
        BY <4>1, <4>2, SMTT(30) DEF Applying
      <4> QED
        BY <4>3, NoneIsNothing
    <3>4. InStep(r)'
      BY <1>2, <1>T, <3>2, <3>3 DEF InStep, AllocateVersion, TypeOK
    <3> QED
      BY <1>2, <3>1, <3>4 DEF Clean, AllocateVersion, IsStateAt
  <2> QED
    BY <1>2, <1>T, <2>1, OneReplica, SameSnapshots DEF AllocateVersion, TypeOK
<1>3. ASSUME NEW r \in Replica, CommitBatch(r) PROVE RInv'
  <2>1. installs'[r] = 0 => Clean(r)'
    <3> SUFFICES ASSUME installs[r] = 0 PROVE Clean(r)'
      BY <1>3 DEF CommitBatch
    <3> DEFINE i == db[r].last_applied
               e == WithEntry(db[r], i + 1, log[i + 1], i + 1)
    <3>1. Clean(r) /\ InStep(r)
      BY <1>3 DEF RInv, Clean, CommitBatch
    <3>2. /\ applying[r] \in Applying /\ ~applying[r].durable
          /\ applying[r].index = i + 1 /\ applying[r].version = db[r].version + 1
          /\ version[r] = db[r].version + 1 /\ raft_applied[r] = i
      BY <1>3, <1>T, <3>1 DEF InStep, CommitBatch, TypeOK
    <3>3. db[r] \in Database /\ i \in 0 .. MaxLog /\ db[r].version = i
      BY <1>T, <3>1 DEF TypeOK, Database, Clean, IsStateAt
    <3>4. i + 1 \in Index
      BY <3>2 DEF Applying
    <3>5. db'[r] = e
      BY <1>3, <1>T, <3>2, <3>3 DEF CommitBatch, TypeOK
    <3>6. IsStateAt(e, i + 1)
      BY <1>T, <3>1, <3>3, <3>4, NextState DEF TypeOK, Clean
    <3>7. db'[r].last_applied = i + 1 /\ db'[r].version = i + 1
      BY <3>5, SMTT(30) DEF WithEntry
    <3>8. IsStateAt(db[r], db[r].last_applied)'
      <4>1. log' = log
        BY <1>3 DEF CommitBatch
      <4>2. IsStateAt(db'[r], db'[r].last_applied)
        BY <3>5, <3>6, <3>7
      <4> QED
        BY <4>1, <4>2 DEF IsStateAt
    <3>9. applying'[r] = [applying[r] EXCEPT !.durable = TRUE]
      BY <1>3, <1>T DEF CommitBatch, TypeOK
    <3>10. /\ applying'[r] \in Applying /\ applying'[r].durable
           /\ applying'[r].index = i + 1 /\ applying'[r].version = i + 1
      <4> DEFINE a == [applying[r] EXCEPT !.durable = TRUE]
      <4>1. a \in Applying
        BY <3>2 DEF Applying
      <4>2. a.durable = TRUE /\ a.index = applying[r].index
                             /\ a.version = applying[r].version
        BY <3>2 DEF Applying
      <4>3. a.durable /\ a.index = i + 1 /\ a.version = i + 1
        BY <3>2, <3>3, <4>2
      <4> QED
        BY <3>9, <4>1, <4>3
    <3>11. InStep(r)'
      BY <1>3, <3>2, <3>3, <3>7, <3>10, NoneIsNothing DEF InStep, CommitBatch
    <3>12. told'[r] = told[r] /\ told[r] \in Nat /\ told[r] <= i
      BY <1>3, <1>T, <3>1, SMTT(30) DEF TypeOK, Clean, CommitBatch
    <3>13. told'[r] <= db'[r].last_applied
      BY <3>3, <3>7, <3>12, SMTT(30)
    <3>14. ASSUME view[r] # None
           PROVE  /\ IsStateAt(view[r].data, view[r].data.last_applied)'
                  /\ view'[r].data.last_applied <= db'[r].last_applied
      <4>1. view[r] \in View /\ view'[r] = view[r] /\ log' = log
        BY <1>3, <1>T, <3>14 DEF TypeOK, CommitBatch
      <4>2. view[r].data.last_applied \in 0 .. MaxLog
        BY <4>1 DEF View, Database
      <4>3. /\ IsStateAt(view[r].data, view[r].data.last_applied)
            /\ view[r].data.last_applied <= i
        BY <3>1, <3>14 DEF Clean
      <4>4. view'[r].data.last_applied <= db'[r].last_applied
        BY <3>3, <3>7, <4>1, <4>2, <4>3, SMTT(30)
      <4> QED
        BY <4>1, <4>3, <4>4 DEF IsStateAt
    <3>15. view'[r] = view[r]
      BY <1>3 DEF CommitBatch
    <3> QED
      BY <3>8, <3>11, <3>13, <3>14, <3>15 DEF Clean
  <2> QED
    BY <1>3, <1>T, <2>1, OneReplica, SameSnapshots DEF CommitBatch, TypeOK
<1>4. ASSUME NEW r \in Replica, Notify(r) PROVE RInv'
  <2>1. installs'[r] = 0 => Clean(r)'
    <3> SUFFICES ASSUME installs[r] = 0 PROVE Clean(r)'
      BY <1>4 DEF Notify
    <3>1. Clean(r) /\ InStep(r)
      BY <1>4 DEF RInv, Clean, Notify
    <3>2. /\ applying[r].index = db[r].last_applied
          /\ version[r] = db[r].version
      BY <1>4, <3>1 DEF InStep, Notify
    <3>3. InStep(r)'
      BY <1>4, <1>T, <3>2 DEF InStep, Notify, TypeOK
    <3>4. told'[r] = db'[r].last_applied /\ db'[r].last_applied \in 0 .. MaxLog
      BY <1>4, <1>T, <3>2 DEF Notify, TypeOK, Database
    <3>5. told'[r] <= db'[r].last_applied
      BY <3>4, SMTT(30)
    <3> QED
      BY <1>4, <3>1, <3>3, <3>5 DEF Clean, Notify, IsStateAt
  <2> QED
    BY <1>4, <1>T, <2>1, OneReplica, SameSnapshots DEF Notify, TypeOK
<1>5. ASSUME NEW r \in Replica, Crash(r) PROVE RInv'
  <2>1. installs'[r] = 0 => Clean(r)'
    <3>1. /\ db'[r] = db[r] /\ told'[r] = told[r] /\ view'[r] = None /\ ~up'[r]
          /\ log' = log /\ installs'[r] = installs[r]
      BY <1>5, <1>T DEF Crash, TypeOK
    <3>2. installs[r] = 0 => /\ IsStateAt(db[r], db[r].last_applied)
                             /\ told[r] <= db[r].last_applied
      BY DEF RInv, Clean
    <3>4. installs[r] = 0 => /\ IsStateAt(db[r], db[r].last_applied)'
                             /\ told'[r] <= db'[r].last_applied
      BY <3>1, <3>2 DEF IsStateAt
    <3> QED
      BY <3>1, <3>4 DEF Clean
  <2>2. applying'[r] = None /\ view'[r] = None
    BY <1>5, <1>T DEF Crash, TypeOK
  <2>3. \A q \in Replica \ {r} :
           /\ db'[q] = db[q] /\ version'[q] = version[q]
           /\ raft_applied'[q] = raft_applied[q] /\ applying'[q] = applying[q]
           /\ up'[q] = up[q] /\ view'[q] = view[q] /\ told'[q] = told[q]
           /\ installs'[q] = installs[q]
    BY <1>5, <1>T DEF Crash, TypeOK
  <2>4. log' = log /\ SnapshotIsConsistent'
    BY <1>5, SameSnapshots DEF Crash
  <2> QED
    BY <1>T, <2>1, <2>2, <2>3, <2>4, OneReplica
<1>6. ASSUME NEW r \in Replica, Restart(r) PROVE RInv'
  <2>1. applying[r] = None /\ view[r] = None
    BY <1>6 DEF RInv, Restart
  <2>2. installs'[r] = 0 => Clean(r)'
    <3>1. /\ db'[r] = db[r] /\ told'[r] = told[r] /\ view'[r] = None
          /\ applying'[r] = None /\ log' = log /\ installs'[r] = installs[r]
          /\ version'[r] = db[r].version /\ raft_applied'[r] = db[r].last_applied
      BY <1>6, <1>T, <2>1 DEF Restart, TypeOK
    <3>2. installs[r] = 0 => /\ IsStateAt(db[r], db[r].last_applied)
                             /\ told[r] <= db[r].last_applied
      BY DEF RInv, Clean
    <3>3. InStep(r)'
      BY <3>1 DEF InStep
    <3>4. installs[r] = 0 => /\ IsStateAt(db[r], db[r].last_applied)'
                             /\ told'[r] <= db'[r].last_applied
      BY <3>1, <3>2 DEF IsStateAt
    <3> QED
      BY <3>1, <3>2, <3>3, <3>4 DEF Clean
  <2> QED
    BY <1>6, <1>T, <2>1, <2>2, OneReplica, SameSnapshots DEF Restart, TypeOK
<1>7. ASSUME NEW r \in Replica, BuildView(r) PROVE RInv'
  <2>1. installs'[r] = 0 => Clean(r)'
    <3> SUFFICES ASSUME installs[r] = 0 PROVE Clean(r)'
      BY <1>7 DEF BuildView
    <3>1. Clean(r)
      BY DEF RInv
    <3>2. view'[r].data = db[r]
      BY <1>7, <1>T DEF BuildView, TypeOK
    <3>3. db[r].last_applied \in 0 .. MaxLog
      BY <1>T DEF TypeOK, Database
    <3>4. db[r].last_applied <= db[r].last_applied
      BY <3>3, SMTT(30)
    <3>5. /\ db'[r] = db[r] /\ told'[r] = told[r] /\ applying'[r] = applying[r]
          /\ log' = log /\ version'[r] = version[r]
          /\ raft_applied'[r] = raft_applied[r] /\ up'[r] = up[r]
      BY <1>7 DEF BuildView
    <3>6. InStep(r) => InStep(r)'
      BY <3>5 DEF InStep
    <3>7. IsStateAt(db[r], db[r].last_applied)'
      BY <3>1, <3>5, SMTT(30) DEF Clean, IsStateAt
    <3>8. IsStateAt(view[r].data, view[r].data.last_applied)'
      BY <3>2, <3>5, <3>7
    <3>9. told'[r] <= db'[r].last_applied /\ (up'[r] => InStep(r)')
      BY <3>1, <3>5, <3>6 DEF Clean
    <3>10. view'[r].data.last_applied <= db'[r].last_applied
      BY <3>2, <3>4, <3>5
    <3> QED
      BY <3>7, <3>8, <3>9, <3>10 DEF Clean
  <2>2. up'[r]
    BY <1>7 DEF BuildView
  <2> QED
    BY <1>7, <1>T, <2>1, <2>2, OneReplica, SameSnapshots DEF BuildView, TypeOK
<1>8. ASSUME NEW r \in Replica, BuildFinish(r) PROVE RInv'
  <2> DEFINE n == [data |-> view[r].data, clean |-> view[r].clean /\ installs[r] = 0,
                   last_log_id |-> db[r].last_applied]
  <2>1. installs'[r] = 0 => Clean(r)'
    <3>1. /\ db'[r] = db[r] /\ told'[r] = told[r] /\ view'[r] = None
          /\ applying'[r] = applying[r] /\ log' = log /\ installs'[r] = installs[r]
          /\ version'[r] = version[r] /\ raft_applied'[r] = raft_applied[r]
          /\ up'[r] = up[r]
      BY <1>8, <1>T DEF BuildFinish, TypeOK
    <3>2. installs[r] = 0 => /\ IsStateAt(db[r], db[r].last_applied)
                             /\ told[r] <= db[r].last_applied
                             /\ up[r] => InStep(r)
      BY DEF RInv, Clean
    <3>3. InStep(r) => InStep(r)'
      BY <3>1 DEF InStep
    <3>4. installs[r] = 0 => /\ IsStateAt(db[r], db[r].last_applied)'
                             /\ told'[r] <= db'[r].last_applied
      BY <3>1, <3>2 DEF IsStateAt
    <3> QED
      BY <3>1, <3>2, <3>3, <3>4 DEF Clean
  <2>2. n.clean => /\ IsStateAt(n.data, n.data.last_applied)
                   /\ n.data.last_applied <= n.last_log_id
    <3>1. n.clean => installs[r] = 0
      OBVIOUS
    <3>2. n.data = view[r].data /\ n.last_log_id = db[r].last_applied
      OBVIOUS
    <3>3. installs[r] = 0 => Clean(r)
      BY DEF RInv
    <3>4. view[r] # None
      BY <1>8 DEF BuildFinish
    <3> HIDE DEF n
    <3> QED
      BY <3>1, <3>2, <3>3, <3>4 DEF Clean
  <2>3. SnapshotIsConsistent'
    <3>1. \A s \in snapshots' : s \in snapshots \/ s = n
      BY <1>8 DEF BuildFinish
    <3>2. log' = log
      BY <1>8 DEF BuildFinish
    <3> HIDE DEF n
    <3> QED
      BY <2>2, <3>1, <3>2, SMTT(30) DEF RInv, SnapshotIsConsistent, IsStateAt
  <2>4. up'[r]
    BY <1>8 DEF BuildFinish
  <2> QED
    BY <1>8, <1>T, <2>1, <2>3, <2>4, OneReplica DEF BuildFinish, TypeOK
<1>9. ASSUME NEW r \in Replica, NEW s \in snapshots, Install(r, s) PROVE RInv'
  <2>1. installs'[r] # 0
    BY <1>9, <1>T, RaftAssumption, SMTT(30) DEF Install, TypeOK
  <2>2. up'[r]
    BY <1>9 DEF Install
  <2> QED
    BY <1>9, <1>T, <2>1, <2>2, OneReplica, SameSnapshots DEF Install, TypeOK
<1>10. CASE UNCHANGED vars
  <2>1. \A q \in Replica :
         /\ up'[q] \/ (applying'[q] = None /\ view'[q] = None)
         /\ installs'[q] = 0 => Clean(q)'
    BY <1>10, Untouched DEF vars
  <2> QED
    BY <1>10, <1>T, <2>1, SameSnapshots DEF vars, RInv
<1> QED
  BY <1>1, <1>2, <1>3, <1>4, <1>5, <1>6, <1>7, <1>8, <1>9, <1>10 DEF Next

-----------------------------------------------------------------------------
\* Empty keyspaces satisfy the invariant.
LEMMA RInvInit == Init => RInv
<1> SUFFICES ASSUME Init PROVE RInv
  OBVIOUS
<1>1. TypeOK
  BY EmptyState, RaftAssumption, SMTT(30) DEF Init, TypeOK
<1>2. Empty.last_applied = 0 /\ Empty.version = 0
  BY DEF Empty
<1>3. \A r \in Replica : Clean(r)
  <2> TAKE r \in Replica
  <2>1. /\ db[r] = Empty /\ told[r] = 0 /\ view[r] = None /\ applying[r] = None
        /\ version[r] = 0 /\ raft_applied[r] = 0
    BY DEF Init
  <2> QED
    BY <1>2, <2>1, EmptyState, SMTT(30) DEF Clean, InStep
<1>4. \A r \in Replica : up[r] /\ snapshots = {}
  BY DEF Init
<1> QED
  BY <1>1, <1>3, <1>4 DEF RInv, SnapshotIsConsistent, Init

(***************************************************************************)
(* RInv holds of every state that apply, a crash, a restart or a snapshot  *)
(* can lead to.                                                            *)
(***************************************************************************)
THEOREM Inductive == Spec => []RInv
BY RInvInit, RInvStep, PTL DEF Spec

(***************************************************************************)
(* The variables of a replica keep their types.                            *)
(***************************************************************************)
THEOREM TypeCorrect == Spec => []TypeOK
BY Inductive, PTL DEF RInv

(***************************************************************************)
(* A replica that lives from the log alone is always in the state that a   *)
(* prefix of the log determines, wherever FjallStateMachine::apply was     *)
(* interrupted.                                                            *)
(***************************************************************************)
THEOREM ReplicaFollowsLog == Spec => []FollowsLog
<1>1. RInv => FollowsLog
  BY DEF RInv, Clean, FollowsLog
<1> QED
  BY <1>1, Inductive, PTL

(***************************************************************************)
(* What apply has told the subscribers of a replica no crash takes back.   *)
(***************************************************************************)
THEOREM NothingToldIsLost == Spec => []ToldIsDurable
<1>1. RInv => ToldIsDurable
  BY DEF RInv, Clean, ToldIsDurable
<1> QED
  BY <1>1, Inductive, PTL

(***************************************************************************)
(* The data that build_snapshot collects is the state of a prefix of the   *)
(* log, whatever is applied meanwhile.                                     *)
(***************************************************************************)
THEOREM SnapshotsAreConsistent == Spec => []SnapshotIsConsistent
BY Inductive, PTL DEF RInv

-----------------------------------------------------------------------------
(* The log store.                                                          *)

\* The entries of a log are those behind the watermark p up to e.
Gapless(entries, p, e) == \A i \in LogIndex : entries[i] # 0 <=> p < i /\ i <= e

Disk(e) == [first |-> last_purged, last |-> e, vote |-> vote]

\* The inductive invariant: the end of the log is named once, and what openraft
\* knows, or will know when the batch is acknowledged, is what is on disk.
\* That the watermark stays behind last_applied is what makes the start's
\* comparison with last_applied sound.
LogInv ==
    /\ LogStoreTypeOK
    /\ core = Down => unacked = Down
    /\ last_purged <= last_applied
    /\ \E e \in last_purged .. MaxIndex :
          /\ Gapless(raft_log, last_purged, e)
          /\ core # Down /\ unacked = Down => core = Disk(e)
          /\ unacked # Down => unacked = Disk(e)

\* A gapless log ends where its entries end (get_log_state with the watermark).
LEMMA EndIs ==
    ASSUME NEW entries \in [LogIndex -> 0 .. MaxTerm], NEW p \in 0 .. MaxIndex,
           NEW e \in p .. MaxIndex, Gapless(entries, p, e)
    PROVE  EndOf(entries, p) = e
<1> USE LogStoreAssumption DEF LogIndex
<1>1. CASE e = p
  <2>1. PresentIn(entries) = {}
    BY <1>1, SMTT(30) DEF Gapless, PresentIn
  <2> QED BY <2>1, <1>1, SMTT(30) DEF EndOf, LastOf, Larger
<1>2. CASE e # p
  <2>1. e \in PresentIn(entries)
    BY <1>2, SMTT(30) DEF Gapless, PresentIn
  <2>2. \A j \in PresentIn(entries) : j <= e
    BY DEF Gapless, PresentIn
  <2>3. \A i \in PresentIn(entries) : (\A j \in PresentIn(entries) : j <= i) => i = e
    <3> TAKE i \in PresentIn(entries)
    <3> HAVE \A j \in PresentIn(entries) : j <= i
    <3>1. e <= i /\ i <= e
      BY <2>1, <2>2
    <3>2. i \in Int /\ e \in Int
      BY SMTT(30) DEF PresentIn
    <3> QED BY <3>1, <3>2, SMTT(30)
  <2>4. LastOf(entries) = e
    <3> DEFINE Top(i) == \A j \in PresentIn(entries) : j <= i
    <3>1. \E i \in PresentIn(entries) : Top(i)
      BY <2>1, <2>2
    <3>2. \A i \in PresentIn(entries) : Top(i) => i = e
      BY <2>3
    <3>3. LastOf(entries) = CHOOSE i \in PresentIn(entries) : Top(i)
      BY <2>1 DEF LastOf
    <3> HIDE DEF Top
    <3> QED BY <3>1, <3>2, <3>3
  <2> QED BY <2>4, <1>2, SMTT(30) DEF EndOf, Larger
<1> QED BY <1>1, <1>2

\* The watermark of a gapless log is behind its end, and LastOf is the end
\* unless the log is empty.
LEMMA LastIs ==
    ASSUME NEW entries \in [LogIndex -> 0 .. MaxTerm], NEW p \in 0 .. MaxIndex,
           NEW e \in p .. MaxIndex, Gapless(entries, p, e)
    PROVE  LastOf(entries) = IF e = p THEN 0 ELSE e
<1> USE LogStoreAssumption DEF LogIndex
<1>1. CASE e = p
  <2>1. PresentIn(entries) = {}
    BY <1>1, SMTT(30) DEF Gapless, PresentIn
  <2> QED BY <2>1, <1>1 DEF LastOf
<1>2. CASE e # p
  <2>1. EndOf(entries, p) = e
    BY EndIs
  <2> QED BY <2>1, <1>2 DEF EndOf, Larger
<1> QED BY <1>1, <1>2

\* An empty log on a fresh disk.
LEMMA LogInvInit == LogStoreInit => LogInv
<1> SUFFICES ASSUME LogStoreInit PROVE LogInv
  OBVIOUS
<1> USE LogStoreAssumption DEF LogStoreInit, LogIndex
<1>1. LogStoreTypeOK
  BY SMTT(30) DEF LogStoreTypeOK, Known
<1>2. Gapless(raft_log, last_purged, 0)
  BY SMTT(30) DEF Gapless
<1>3. core = Disk(0) /\ 0 \in last_purged .. MaxIndex
  BY SMTT(30) DEF Disk
<1> QED BY <1>1, <1>2, <1>3, SMTT(30) DEF LogInv

\* Every call, acknowledgement, crash and start keeps the invariant.
LEMMA LogInvNext == LogInv /\ [LogStoreNext]_logVars => LogInv'
<1> SUFFICES ASSUME LogInv, [LogStoreNext]_logVars PROVE LogInv'
  OBVIOUS
<1> USE LogStoreAssumption DEF LogIndex, Terms
<1>t. LogStoreTypeOK /\ last_purged <= last_applied
  BY DEF LogInv
<1>d. core = Down => unacked = Down
  BY DEF LogInv
<1>k. Down \notin Known
  BY SMTT(30) DEF Known
<1>e. PICK e \in last_purged .. MaxIndex :
          /\ Gapless(raft_log, last_purged, e)
          /\ core # Down /\ unacked = Down => core = Disk(e)
          /\ unacked # Down => unacked = Disk(e)
  BY DEF LogInv
<1>i. e \in Int /\ e <= MaxIndex /\ last_purged <= e /\ last_purged \in 0 .. MaxIndex
  BY <1>t, SMTT(30) DEF LogStoreTypeOK
<1>1. ASSUME NEW n \in LogIndex, NEW t \in Terms, append(n, t) PROVE LogInv'
  <2>1. core = Disk(e) /\ core.last = e
    BY <1>1, <1>e, SMTT(30) DEF append, Ready, Disk
  <2>2. e + n \in last_purged' .. MaxIndex /\ e + n \in Int
    BY <1>1, <2>1, <1>i, SMTT(30) DEF append
  <2>3. unacked' = [first |-> last_purged, last |-> e + n, vote |-> vote]
    BY <1>1, <2>1 DEF append, Disk
  <2>u. unacked' \in Known
    BY <2>2, <2>3, <1>i, <1>t, SMTT(30) DEF LogStoreTypeOK, Known
  <2>l. raft_log' \in [LogIndex -> 0 .. MaxTerm]
    BY <1>1, <1>t, SMTT(30) DEF append, LogStoreTypeOK
  <2>4. LogStoreTypeOK'
    BY <1>1, <1>t, <2>u, <2>l DEF append, LogStoreTypeOK
  <2>5. Gapless(raft_log', last_purged', e + n)
    <3> SUFFICES ASSUME NEW i \in LogIndex
                 PROVE  raft_log'[i] # 0 <=> last_purged < i /\ i <= e + n
      BY <1>1 DEF Gapless, append
    <3>1. raft_log'[i] = IF i \in e + 1 .. e + n THEN t ELSE raft_log[i]
      BY <1>1, <2>1 DEF append
    <3>2. raft_log[i] # 0 <=> last_purged < i /\ i <= e
      BY <1>e DEF Gapless
    <3> QED BY <3>1, <3>2, <1>i, SMTT(30)
  <2>6. core' # Down /\ unacked' # Down
    BY <1>1, <2>u, <1>k DEF append, Ready
  <2> QED BY <2>2, <2>3, <2>4, <2>5, <2>6, <1>1, <1>t DEF LogInv, Disk, append
<1>2. ASSUME NEW i \in LogIndex, truncate(i) PROVE LogInv'
  <2>1. core = Disk(e) /\ core.last = e
    BY <1>2, <1>e, SMTT(30) DEF truncate, Ready, Disk
  <2>2. i - 1 \in last_purged' .. MaxIndex /\ i - 1 \in Int /\ i <= e
    BY <1>2, <2>1, <1>i, <1>t, SMTT(30) DEF truncate, LogStoreTypeOK
  <2>3. unacked' = [first |-> last_purged, last |-> i - 1, vote |-> vote]
    BY <1>2, <2>1 DEF truncate, Disk
  <2>u. unacked' \in Known
    BY <2>2, <2>3, <1>i, <1>t, SMTT(30) DEF LogStoreTypeOK, Known
  <2>l. raft_log' \in [LogIndex -> 0 .. MaxTerm]
    BY <1>2, <1>t, SMTT(30) DEF truncate, LogStoreTypeOK
  <2>4. LogStoreTypeOK'
    BY <1>2, <1>t, <2>u, <2>l DEF truncate, LogStoreTypeOK
  <2>5. Gapless(raft_log', last_purged', i - 1)
    <3> SUFFICES ASSUME NEW j \in LogIndex
                 PROVE  raft_log'[j] # 0 <=> last_purged < j /\ j <= i - 1
      BY <1>2 DEF Gapless, truncate
    <3>1. raft_log'[j] = IF i <= j THEN 0 ELSE raft_log[j]
      BY <1>2 DEF truncate
    <3>2. raft_log[j] # 0 <=> last_purged < j /\ j <= e
      BY <1>e DEF Gapless
    <3> QED BY <3>1, <3>2, <1>i, <2>2, SMTT(30)
  <2>6. core' # Down /\ unacked' # Down
    BY <1>2, <2>u, <1>k DEF truncate, Ready
  <2> QED BY <2>2, <2>3, <2>4, <2>5, <2>6, <1>2, <1>t DEF LogInv, Disk, truncate
<1>3. ASSUME NEW i \in LogIndex, purge(i) PROVE LogInv'
  <2>1. core = Disk(e) /\ core.last = e /\ core # Down
    BY <1>3, <1>e, SMTT(30) DEF purge, Disk
  <2> DEFINE f == Larger(e, i)
  <2>2. f \in last_purged' .. MaxIndex /\ f \in Int /\ last_purged' = i
    BY <1>3, <1>i, SMTT(30) DEF purge, Larger
  <2>3. unacked' = [first |-> i, last |-> f, vote |-> vote]
    BY <1>3, <2>1 DEF purge, Disk
  <2>u. unacked' \in Known
    BY <2>2, <2>3, <1>i, <1>t, SMTT(30) DEF LogStoreTypeOK, Known
  <2>l. raft_log' \in [LogIndex -> 0 .. MaxTerm]
    BY <1>3, <1>t, SMTT(30) DEF purge, LogStoreTypeOK
  <2>4. LogStoreTypeOK'
    BY <1>3, <1>t, <2>u, <2>l, <2>2, SMTT(30) DEF purge, LogStoreTypeOK
  <2>5. Gapless(raft_log', last_purged', f)
    <3> SUFFICES ASSUME NEW j \in LogIndex
                 PROVE  raft_log'[j] # 0 <=> i < j /\ j <= f
      BY <2>2 DEF Gapless
    <3>1. raft_log'[j] = IF j <= i THEN 0 ELSE raft_log[j]
      BY <1>3 DEF purge
    <3>2. raft_log[j] # 0 <=> last_purged < j /\ j <= e
      BY <1>e DEF Gapless
    <3> QED BY <3>1, <3>2, <1>i, <1>3, SMTT(30) DEF purge, Larger
  <2>6. core' # Down /\ unacked' # Down
    BY <1>3, <2>u, <1>k DEF purge
  <2>7. last_purged' <= last_applied'
    BY <1>3, <1>t, SMTT(30) DEF purge, LogStoreTypeOK
  <2> HIDE DEF f
  <2> QED BY <2>2, <2>3, <2>4, <2>5, <2>6, <2>7, <1>3 DEF LogInv, Disk, purge
<1>4. ASSUME NEW v \in Terms, save_vote(v) PROVE LogInv'
  <2>1. core = Disk(e) /\ core # Down
    BY <1>4, <1>e DEF save_vote, Ready
  <2>3. unacked' = [first |-> last_purged, last |-> e, vote |-> v]
    BY <1>4, <2>1 DEF save_vote, Disk
  <2>u. unacked' \in Known
    BY <2>3, <1>i, <1>t, SMTT(30) DEF LogStoreTypeOK, Known
  <2>4. LogStoreTypeOK'
    BY <1>4, <1>t, <2>u, SMTT(30) DEF save_vote, LogStoreTypeOK
  <2>5. Gapless(raft_log', last_purged', e)
    BY <1>4, <1>e DEF save_vote, Gapless
  <2>6. core' # Down /\ unacked' # Down
    BY <1>4, <2>1, <2>u, <1>k DEF save_vote
  <2> QED BY <2>3, <2>4, <2>5, <2>6, <1>4, <1>t DEF LogInv, Disk, save_vote
<1>5. ASSUME Acknowledge PROVE LogInv'
  BY <1>5, <1>t, <1>e, <1>d DEF Acknowledge, LogInv, LogStoreTypeOK, Gapless, Disk, onDisk
<1>6. ASSUME ApplyEntry PROVE LogInv'
  <2>1. core = Disk(e)
    BY <1>6, <1>e DEF ApplyEntry, Ready
  <2>2. last_applied' \in 0 .. MaxIndex /\ last_purged' <= last_applied'
    BY <1>6, <1>t, <2>1, <1>i, SMTT(30) DEF ApplyEntry, LogStoreTypeOK, Disk
  <2> QED BY <1>6, <2>2, <1>t, <1>e, <1>d DEF ApplyEntry, LogInv, LogStoreTypeOK, Gapless, Disk
<1>7. ASSUME NEW i \in LogIndex, SnapshotInstalled(i) PROVE LogInv'
  <2>2. last_applied' \in 0 .. MaxIndex /\ last_purged' <= last_applied'
    BY <1>7, <1>t, <1>i, SMTT(30) DEF SnapshotInstalled, LogStoreTypeOK
  <2> QED BY <1>7, <2>2, <1>t, <1>e, <1>d DEF SnapshotInstalled, LogInv, LogStoreTypeOK, Gapless, Disk
<1>8. ASSUME CrashNode PROVE LogInv'
  BY <1>8, <1>t, <1>e DEF CrashNode, LogInv, LogStoreTypeOK, Gapless, onDisk
<1>9. ASSUME Start PROVE LogInv'
  <2>1. LastOf(raft_log) = IF e = last_purged THEN 0 ELSE e
    BY LastIs, <1>e, <1>t DEF LogStoreTypeOK
  <2>2. unacked' = Down /\ vote' = vote /\ last_applied' = last_applied
    BY <1>9, <1>d DEF Start
  <2>3. CASE LastOf(raft_log) < last_applied
    <3>1. core' = [first |-> last_applied, last |-> last_applied, vote |-> vote]
             /\ last_purged' = last_applied
             /\ raft_log' = [i \in LogIndex |-> IF i <= last_applied THEN 0 ELSE raft_log[i]]
      BY <2>3, <1>9 DEF Start, get_log_state
    <3>2. e <= last_applied
      BY <2>1, <2>3, <1>t, <1>i, SMTT(30) DEF LogStoreTypeOK
    <3>3. Gapless(raft_log', last_purged', last_applied)
      <4> SUFFICES ASSUME NEW j \in LogIndex PROVE raft_log'[j] = 0
        BY <3>1, <1>t, SMTT(30) DEF Gapless, LogStoreTypeOK
      <4>1. raft_log[j] # 0 => j <= e
        BY <1>e DEF Gapless
      <4> QED BY <3>1, <4>1, <3>2, <1>i, <1>t, SMTT(30) DEF LogStoreTypeOK
    <3>4. LogStoreTypeOK'
      <4>1. core' \in Known
        BY <3>1, <1>t DEF LogStoreTypeOK, Known
      <4>2. raft_log' \in [LogIndex -> 0 .. MaxTerm]
        BY <3>1, <1>t, SMTT(30) DEF LogStoreTypeOK
      <4> QED BY <4>1, <4>2, <3>1, <2>2, <1>t DEF LogStoreTypeOK
    <3>5. last_applied \in last_purged' .. MaxIndex /\ last_purged' <= last_applied'
      BY <3>1, <2>2, <1>t, SMTT(30) DEF LogStoreTypeOK
    <3>6. core' = [first |-> last_purged', last |-> last_applied, vote |-> vote']
      BY <3>1, <2>2
    <3> QED BY <3>3, <3>4, <3>5, <3>6, <2>2 DEF LogInv, Disk
  <2>4. CASE ~(LastOf(raft_log) < last_applied)
    <3>1. core' = [first |-> last_purged, last |-> LastOf(raft_log), vote |-> vote]
             /\ last_purged' = last_purged /\ raft_log' = raft_log
      BY <2>4, <1>9 DEF Start, get_log_state
    <3>2. LastOf(raft_log) = e
      BY <2>1, <2>4, <1>t, <1>i, SMTT(30) DEF LogStoreTypeOK
    <3>4. LogStoreTypeOK'
      BY <3>1, <3>2, <2>2, <1>t, <1>i, SMTT(30) DEF LogStoreTypeOK, Known
    <3> QED BY <3>1, <3>2, <3>4, <2>2, <1>t, <1>e DEF LogInv, Disk, Gapless
  <2> QED BY <2>3, <2>4
<1>10. CASE UNCHANGED logVars
  BY <1>10, <1>t, <1>e, <1>d DEF logVars, onDisk, LogInv, LogStoreTypeOK, Gapless, Disk
<1> QED BY <1>1, <1>2, <1>3, <1>4, <1>5, <1>6, <1>7, <1>8, <1>9, <1>10 DEF LogStoreNext

\* What the invariant says of the end of the log, with its name.
EndKnown ==
    /\ DurableEnd \in last_purged .. MaxIndex
    /\ Gapless(raft_log, last_purged, DurableEnd)
    /\ core # Down /\ unacked = Down => core = Disk(DurableEnd)
    /\ unacked # Down => unacked = Disk(DurableEnd)

\* The end that the invariant speaks of is the one get_log_state finds.
LEMMA LogInvEnd == LogInv => EndKnown
<1> SUFFICES ASSUME LogInv PROVE EndKnown
  OBVIOUS
<1>1. PICK e \in last_purged .. MaxIndex :
          /\ Gapless(raft_log, last_purged, e)
          /\ core # Down /\ unacked = Down => core = Disk(e)
          /\ unacked # Down => unacked = Disk(e)
  BY DEF LogInv
<1>2. raft_log \in [LogIndex -> 0 .. MaxTerm] /\ last_purged \in 0 .. MaxIndex
  BY DEF LogInv, LogStoreTypeOK
<1>3. DurableEnd = e
  BY <1>1, <1>2, EndIs DEF DurableEnd
<1> QED BY <1>1, <1>3 DEF EndKnown

\* Whatever is called and whenever the process crashes, the keyspace has no gap
\* and openraft knows, between calls, where its log ends and what it voted.
THEOREM LogStoreIsSafe == LogStoreSpec => [](LogStoreTypeOK /\ NoGap /\ KnowsItsLog)
<1>1. LogStoreSpec => []LogInv
  BY LogInvInit, LogInvNext, PTL DEF LogStoreSpec
<1>2. LogInv => LogStoreTypeOK /\ NoGap /\ KnowsItsLog
  BY LogInvEnd DEF EndKnown, LogInv, NoGap, Gapless, KnowsItsLog, Disk
<1> QED BY <1>1, <1>2, PTL

Entries == [i \in last_purged + 1 .. DurableEnd |-> raft_log[i]]

\* Every step of the store is a step of the abstract log or leaves it alone:
\* acknowledging, crashing and applying are invisible, and a start either is
\* invisible or drops a log that a snapshot has overtaken.
LEMMA LogStoreStep ==
    LogInv /\ LogInv' /\ [LogStoreNext]_logVars => [Abstract!AbstractNext]_Abstract!abstractVars
<1> SUFFICES ASSUME LogInv, LogInv', [LogStoreNext]_logVars
             PROVE  \/ Abstract!AbstractNext
                    \/ last_purged' = last_purged /\ Entries' = Entries /\ vote' = vote
  BY DEF Abstract!abstractVars, Entries
<1> USE LogStoreAssumption DEF LogIndex, Terms
<1>e. /\ DurableEnd \in last_purged .. MaxIndex
      /\ Gapless(raft_log, last_purged, DurableEnd)
      /\ core # Down /\ unacked = Down => core = Disk(DurableEnd)
  BY LogInvEnd DEF EndKnown
<1>f. /\ DurableEnd' \in last_purged' .. MaxIndex
      /\ core' # Down /\ unacked' = Down => core' = Disk(DurableEnd)'
      /\ unacked' # Down => unacked' = Disk(DurableEnd)'
  <2>1. EndKnown'
    BY LogInvEnd, PTL
  <2> QED BY <2>1 DEF EndKnown
<1>t. LogStoreTypeOK /\ LogStoreTypeOK'
  BY DEF LogInv
<1>k. Down \notin Known
  BY SMTT(30) DEF Known
<1>i. /\ last_purged \in 0 .. MaxIndex /\ last_purged' \in 0 .. MaxIndex
      /\ DurableEnd \in 0 .. MaxIndex /\ DurableEnd' \in 0 .. MaxIndex
  BY <1>e, <1>f, <1>t, SMTT(30) DEF LogStoreTypeOK
<1>u. ASSUME raft_log' = raft_log, last_purged' = last_purged
      PROVE  Entries' = Entries
  BY <1>u DEF Entries, DurableEnd
<1>1. ASSUME NEW n \in LogIndex, NEW t \in Terms, append(n, t) PROVE Abstract!Extend
  <2>1. core = Disk(DurableEnd) /\ unacked' # Down /\ last_purged' = last_purged /\ vote' = vote
    <3>1. core \in Known /\ core # Down /\ core = Disk(DurableEnd)
      BY <1>1, <1>e, <1>t DEF append, Ready, LogStoreTypeOK
    <3>2. n \in 1 .. MaxIndex - core.last
      BY <1>1 DEF append
    <3>3. unacked' = [first |-> last_purged, last |-> DurableEnd + n, vote |-> vote]
      BY <1>1, <3>1 DEF append, Disk
    <3>4. unacked' \in Known
      BY <3>1, <3>2, <3>3, <1>i, <1>t, SMTT(30) DEF Known, LogStoreTypeOK, Disk
    <3> QED BY <3>1, <3>4, <1>1, <1>k DEF append
  <2>2. DurableEnd' = DurableEnd + n
    BY <1>1, <2>1, <1>f DEF append, Disk
  <2>3. Entries' = [i \in last_purged + 1 .. DurableEnd + n |->
                       IF i \in last_purged + 1 .. DurableEnd THEN raft_log[i] ELSE t]
    <3> SUFFICES ASSUME NEW i \in last_purged + 1 .. DurableEnd + n
                 PROVE  raft_log'[i] = IF i \in last_purged + 1 .. DurableEnd
                                       THEN raft_log[i] ELSE t
      BY <2>1, <2>2 DEF Entries
    <3>1. i \in LogIndex
      BY <1>i, <2>2, SMTT(30)
    <3>2. raft_log'[i] = IF i \in DurableEnd + 1 .. DurableEnd + n THEN t ELSE raft_log[i]
      BY <3>1, <1>1, <2>1 DEF append, Disk
    <3> QED BY <3>1, <3>2, <1>i, SMTT(30)
  <2>4. DurableEnd + n \in last_purged .. MaxIndex
    BY <2>1, <2>2, <1>f
  <2>5. DOMAIN Entries = last_purged + 1 .. DurableEnd
    BY DEF Entries
  <2>6. last_purged + 1 .. DurableEnd \subseteq last_purged + 1 .. DurableEnd + n
    BY <1>i, SMTT(30)
  <2>7. \A i \in last_purged + 1 .. DurableEnd : Entries[i] = raft_log[i]
    BY DEF Entries
  <2>8. Entries' = [i \in last_purged + 1 .. DurableEnd + n |->
                       IF i \in DOMAIN Entries THEN Entries[i] ELSE t]
    BY <2>3, <2>5, <2>7
  <2> QED BY <2>1, <2>4, <2>5, <2>6, <2>8 DEF Abstract!Extend, Entries
<1>2. ASSUME NEW i \in LogIndex, truncate(i) PROVE Abstract!Cut
  <2>1. core = Disk(DurableEnd) /\ unacked' # Down /\ last_purged' = last_purged /\ vote' = vote
    <3>1. core \in Known /\ core # Down /\ core = Disk(DurableEnd)
      BY <1>2, <1>e, <1>t DEF truncate, Ready, LogStoreTypeOK
    <3>3. unacked' \in Known
      BY <1>2, <3>1, SMTT(30) DEF truncate, Known
    <3> QED BY <3>1, <3>3, <1>2, <1>k DEF truncate
  <2>2. DurableEnd' = i - 1 /\ i <= DurableEnd
    BY <1>2, <2>1, <1>f, SMTT(30) DEF truncate, Disk
  <2>3. Entries' = [j \in last_purged + 1 .. i - 1 |-> Entries[j]]
    <3> SUFFICES ASSUME NEW j \in last_purged + 1 .. i - 1
                 PROVE  raft_log'[j] = Entries[j]
      BY <2>1, <2>2 DEF Entries
    <3>1. j \in LogIndex /\ j \in last_purged + 1 .. DurableEnd /\ ~(i <= j)
      BY <1>i, <2>2, SMTT(30)
    <3> QED BY <3>1, <1>2 DEF truncate, Entries
  <2>4. i - 1 \in last_purged .. MaxIndex
    BY <2>1, <2>2, <1>f
  <2>5. last_purged + 1 .. i - 1 \subseteq DOMAIN Entries
    BY <2>2, <1>i, SMTT(30) DEF Entries
  <2> QED BY <2>1, <2>3, <2>4, <2>5 DEF Abstract!Cut, Entries
<1>3. ASSUME NEW i \in LogIndex, purge(i) PROVE Abstract!Compact
  <2>1. core = Disk(DurableEnd) /\ unacked' # Down /\ last_purged' = i /\ vote' = vote
    <3>1. core \in Known /\ core # Down /\ core = Disk(DurableEnd)
      BY <1>3, <1>e, <1>t DEF purge, LogStoreTypeOK
    <3>2. Larger(DurableEnd, i) \in 0 .. MaxIndex
      BY <1>i, SMTT(30) DEF Larger
    <3>3. unacked' = [first |-> i, last |-> Larger(DurableEnd, i), vote |-> vote]
      BY <1>3, <3>1 DEF purge, Disk
    <3>4. unacked' \in Known
      BY <3>2, <3>3, <1>t, SMTT(30) DEF Known, LogStoreTypeOK
    <3> QED BY <3>1, <3>4, <1>3, <1>k DEF purge
  <2>2. DurableEnd' = Larger(DurableEnd, i) /\ last_purged < i
    <3>1. unacked'.last = Larger(DurableEnd, i)
      BY <1>3, <2>1 DEF purge, Disk
    <3>2. unacked'.last = DurableEnd'
      BY <2>1, <1>f, SMTT(30) DEF Disk
    <3> QED BY <3>1, <3>2, <1>3, <1>i, SMTT(30) DEF purge
  <2>3. i + 1 .. Larger(DurableEnd, i) = {j \in last_purged + 1 .. DurableEnd : i < j}
    BY <1>i, <2>2, SMTT(30) DEF Larger
  <2>4. \A j \in i + 1 .. Larger(DurableEnd, i) : raft_log'[j] = Entries[j]
    <3> TAKE j \in i + 1 .. Larger(DurableEnd, i)
    <3>1. j \in LogIndex /\ j \in last_purged + 1 .. DurableEnd /\ ~(j <= i)
      BY <1>i, <2>3, SMTT(30)
    <3> QED BY <3>1, <1>3 DEF purge, Entries
  <2>5. Entries' = [j \in i + 1 .. Larger(DurableEnd, i) |-> Entries[j]]
    BY <2>1, <2>2, <2>4 DEF Entries
  <2>6. DOMAIN Entries = last_purged + 1 .. DurableEnd
    BY DEF Entries
  <2>7. Entries' = [j \in {k \in DOMAIN Entries : i < k} |-> Entries[j]]
    BY <2>3, <2>5, <2>6
  <2>8. i \in last_purged .. MaxIndex
    BY <2>2, <1>i, SMTT(30)
  <2> QED BY <2>1, <2>7, <2>8 DEF Abstract!Compact, Entries
<1>4. ASSUME NEW v \in Terms, save_vote(v) PROVE Abstract!Promise
  <2>1. core.vote = vote
    BY <1>4, <1>e, SMTT(30) DEF save_vote, Ready, Disk
  <2>2. raft_log' = raft_log /\ last_purged' = last_purged /\ vote' = v
    BY <1>4 DEF save_vote
  <2>3. vote' \in vote + 1 .. MaxTerm
    BY <1>4, <2>1, <2>2, <1>t, SMTT(30) DEF save_vote, LogStoreTypeOK
  <2> QED BY <2>2, <2>3, <1>u DEF Abstract!Promise, Entries
<1>5. CASE Acknowledge \/ ApplyEntry \/ CrashNode \/ (\E i \in LogIndex : SnapshotInstalled(i)) \/ UNCHANGED logVars
  BY <1>5, <1>u DEF Acknowledge, ApplyEntry, CrashNode, SnapshotInstalled, logVars, onDisk
<1>6. CASE Start
  <2>0. LastOf(raft_log) = IF DurableEnd = last_purged THEN 0 ELSE DurableEnd
    BY LastIs, <1>e, <1>t DEF LogStoreTypeOK
  <2>1. CASE ~(LastOf(raft_log) < last_applied)
    BY <1>6, <2>1, <1>u DEF Start, get_log_state
  <2>2. CASE LastOf(raft_log) < last_applied
    <3>1. last_purged' = last_applied /\ vote' = vote
             /\ core' = [first |-> last_applied, last |-> last_applied, vote |-> vote]
             /\ unacked' = Down
      BY <1>6, <2>2 DEF Start, get_log_state, LogInv
    <3>2. core' \in Known
      BY <3>1, <1>t DEF Known, LogStoreTypeOK
    <3>3. DurableEnd' = last_applied
      BY <3>1, <3>2, <1>f, <1>k DEF Disk
    <3>4. DurableEnd <= last_applied /\ last_applied \in last_purged .. MaxIndex
      BY <2>0, <2>2, <1>i, <1>t, SMTT(30) DEF LogInv, LogStoreTypeOK
    <3>5. last_applied + 1 .. last_applied = {j \in last_purged + 1 .. DurableEnd : last_applied < j}
      BY <3>4, <1>i, SMTT(30)
    <3>6. \A j \in last_applied + 1 .. last_applied : FALSE
      BY <3>4, <1>i, SMTT(30)
    <3>7. Entries' = [j \in last_applied + 1 .. last_applied |-> Entries[j]]
      BY <3>1, <3>3, <3>6 DEF Entries
    <3>8. DOMAIN Entries = last_purged + 1 .. DurableEnd
      BY DEF Entries
    <3>9. Entries' = [j \in {k \in DOMAIN Entries : last_applied < k} |-> Entries[j]]
      BY <3>5, <3>7, <3>8
    <3>10. Abstract!Compact
      BY <3>1, <3>4, <3>9 DEF Abstract!Compact, Entries
    <3> QED BY <3>10 DEF Abstract!AbstractNext
  <2> QED BY <2>1, <2>2
<1> QED BY <1>1, <1>2, <1>3, <1>4, <1>5, <1>6 DEF LogStoreNext, Abstract!AbstractNext

\* A fresh disk is the empty abstract log.
LEMMA LogStoreStart == LogStoreInit => Abstract!AbstractInit
<1> SUFFICES ASSUME LogStoreInit PROVE Abstract!AbstractInit
  OBVIOUS
<1>1. LogInv /\ core # Down /\ unacked = Down
  BY LogInvInit, LogStoreAssumption, SMTT(30) DEF LogStoreInit
<1>2. DurableEnd = 0
  BY <1>1, LogInvEnd DEF EndKnown, LogStoreInit, Disk
<1> QED BY <1>2, SMTT(30) DEF LogStoreInit, Abstract!AbstractInit

\* The fjall log store implements the log openraft asks for, through every
\* call, crash and restart (RaftLogStorage for FjallLogStorage).
THEOREM LogStoreImplementsLog == LogStoreSpec => ImplementsLog
<1>1. LogStoreSpec => []LogInv
  BY LogInvInit, LogInvNext, PTL DEF LogStoreSpec
<1> QED BY <1>1, LogStoreStart, LogStoreStep, PTL DEF LogStoreSpec, ImplementsLog, Abstract!AbstractSpec

=============================================================================
