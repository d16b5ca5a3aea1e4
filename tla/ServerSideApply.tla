-------------------------- MODULE ServerSideApply --------------------------
(***************************************************************************)
(* Declarative apply: manifests are merged field by field with the stored  *)
(* record and a last-applied baseline, and a batch without conflicts is    *)
(* one command.  The same records are written by the imperative calls.     *)
(*                                                                         *)
(* One object of each kind.  A record is its fields and the form it is     *)
(* stored in: workloads are stored as a record that wraps the encoded      *)
(* spec, which is what every reader decodes; apply reads and writes the    *)
(* bare spec.  Decoding one form as the other fails, and merge_workload    *)
(* then starts from the defaults (the wrapper begins with the length of    *)
(* the tenant's name, which is no tag the spec accepts).                   *)
(***************************************************************************)
EXTENDS Proposals

CONSTANTS
    Field,       \* mergeable fields of every kind
    Value,       \* values of a field
    Default,     \* value of a field nobody set
    Manifest,    \* manifests: values, or Absent for a field left alone
    Batch,       \* sets of kinds applied together
    RuleContent, \* the rule whose content hashes to the rule's id
    MaxCalls     \* bound on calls

Kind == {"Workload", "SagRule", "Secret", "NodePool"}
StoredRecord == [form : {"record", "spec", "empty"}, fields : [Field -> Value]]

ASSUME DefaultAssumption == Default \in Value /\ Absent \notin Value /\ Absent \notin StoredRecord
ASSUME ManifestAssumption ==
    Manifest \subseteq [Field -> Value \cup {Absent}] /\ RuleContent \in [Field -> Value] /\ Batch \subseteq SUBSET Kind

VARIABLES
    stored,    \* the record of each kind, or Absent
    posted,    \* commands in flight
    calls      \* calls so far

applyVars == <<stored, posted, calls>>

Defaults == [f \in Field |-> Default]
Sets(m) == {f \in Field : m[f] # Absent}

ApplyInit == stored = [k \in Kind |-> Absent] /\ posted = {} /\ calls = 0

-----------------------------------------------------------------------------
\* The merge.

Unchanged == [out |-> "Unchanged"]
Conflicted == [out |-> "Conflicted"]
Updated(r) == [out |-> "Updated", new |-> r]

HasConflict(live, last, m) == \E f \in Sets(m) : live[f] # last[f] /\ live[f] # m[f]

MergeFields(live, m) == [f \in Field |-> IF f \in Sets(m) THEN m[f] ELSE live[f]]

Merge(live, last, m, form) ==
    IF HasConflict(live, last, m) THEN Conflicted
    ELSE IF MergeFields(live, m) = live THEN Unchanged
    ELSE Updated([form |-> form, fields |-> MergeFields(live, m)])

merge_workload(m, r) ==
    LET live == IF r = Absent \/ r.form = "record" THEN Defaults ELSE r.fields
    IN  Merge(live, Defaults, m, "spec")

merge_sag_rule(m, r) ==
    Merge(IF r = Absent THEN Defaults ELSE r.fields, Defaults, m, "spec")

\* The stored envelope is written back, an empty one where there is none.
merge_secret(m, r) ==
    IF Sets(m) = {} THEN Unchanged
    ELSE Updated(IF r = Absent THEN [form |-> "empty", fields |-> Defaults] ELSE r)

\* A pool is never created; without a baseline the stored pool is its own.
merge_node_pool(m, r) ==
    IF r = Absent THEN Unchanged ELSE Merge(r.fields, r.fields, m, "record")

\* The baseline handed to the merge is always empty.
process_manifest(k, m) ==
    CASE k = "Workload" -> merge_workload(m, stored[k])
      [] k = "SagRule"  -> merge_sag_rule(m, stored[k])
      [] k = "Secret"   -> merge_secret(m, stored[k])
      [] k = "NodePool" -> merge_node_pool(m, stored[k])

-----------------------------------------------------------------------------
Call(c) ==
    /\ calls < MaxCalls /\ Cardinality(posted) < MaxFlight
    /\ calls' = calls + 1
    /\ posted' = Propose(posted, c)
    /\ UNCHANGED stored

\* Mutation: what merges is applied, whatever conflicts.
SkipConflicts(b) == \E k \in DOMAIN b : process_manifest(k, b[k]).out = "Updated"

Accepted(b) ==
    /\ \A k \in DOMAIN b : process_manifest(k, b[k]).out # "Conflicted"
    /\ \E k \in DOMAIN b : process_manifest(k, b[k]).out = "Updated"

\* The whole request: with an invalid or conflicting manifest, without a
\* change or as a dry run nothing is proposed.
apply(b) ==
    /\ Accepted(b)
    /\ Call([cmd |-> "ApplyManifests", clean |-> TRUE, batch |-> b,
             updates |-> [k \in {j \in DOMAIN b : process_manifest(j, b[j]).out = "Updated"} |->
                             process_manifest(k, b[k]).new]])

Write(k, r) == Call([cmd |-> "Write", clean |-> TRUE, batch |-> <<>>, updates |-> [j \in {k} |-> r]])

\* The imperative calls: a submitted workload, a rule under the hash of its
\* content, a secret; pools are created where there is none and deleted where
\* there is one, rules are deleted blindly.
SubmitWorkload(v) == Write("Workload", [form |-> "record", fields |-> [f \in Field |-> v]])
upsert_sag_rule == Write("SagRule", [form |-> "spec", fields |-> RuleContent])
delete_sag_rule == Write("SagRule", Absent)
PutSecret(v) == Write("Secret", [form |-> "record", fields |-> [f \in Field |-> v]])
create_node_pool(v) == stored["NodePool"] = Absent /\ Write("NodePool", [form |-> "record", fields |-> [f \in Field |-> v]])
delete_node_pool == stored["NodePool"] # Absent /\ Write("NodePool", Absent)

\* The state machine writes the bytes it is given, all of a batch at once.
ApplyManifests(c) ==
    /\ stored' = [k \in Kind |-> IF k \in DOMAIN c.updates THEN c.updates[k] ELSE stored[k]]
    /\ posted' = Overtake(posted, c)
    /\ UNCHANGED calls

ApplyPosted == \E c \in posted : ApplyManifests(c)

ApplyNext ==
    \/ \E K \in Batch : \E b \in [K -> Manifest] : apply(b)
    \/ \E v \in Value \ {Default} : SubmitWorkload(v) \/ PutSecret(v) \/ create_node_pool(v)
    \/ upsert_sag_rule
    \/ delete_sag_rule
    \/ delete_node_pool
    \/ ApplyPosted

ApplySpec == ApplyInit /\ [][ApplyNext]_applyVars

-----------------------------------------------------------------------------
ApplyTypeOK ==
    /\ stored \in [Kind -> {Absent} \cup StoredRecord]
    /\ \A c \in posted : c.clean \in BOOLEAN /\ DOMAIN c.updates \subseteq Kind

\* The record of a kind as merge would read it.
Live(k) == IF stored[k] = Absent \/ (k = "Workload" /\ stored[k].form = "record") THEN Defaults ELSE stored[k].fields

\* A batch is applied when c is.
Applies(c) == c \in posted /\ c.cmd = "ApplyManifests" /\ ApplyManifests(c)

\* A batch takes effect as a whole: once its command is applied, every field
\* that its manifests set has the manifest's value, in rules, existing pools
\* and specs.  Where records were written since the merge that holds of the
\* records the merge changed, and the writes in between are lost silently.
BatchTakesEffect ==
    [][\A c \in posted : Applies(c) =>
          \A k \in DOMAIN c.batch \ {"Secret"} :
              \/ ~c.clean /\ k \notin DOMAIN c.updates
              \/ k = "NodePool" /\ stored[k] = Absent
              \/ \A f \in Sets(c.batch[k]) : Live(k)'[f] = c.batch[k][f]]_applyVars

\* Applying the same batch a second time, with nothing in between, changes
\* nothing: every manifest but a secret's then merges to no change, and never
\* to a conflict.
AppliedTwiceIsNoChange ==
    [][\A c \in posted : Applies(c) /\ c.clean =>
          \A k \in DOMAIN c.batch \ {"Secret"} : process_manifest(k, c.batch[k])'.out = "Unchanged"]_applyVars

\* A merge that nothing overtook leaves alone the fields its manifest does not
\* set, in the records it can read: rules, pools and bare specs.
AbsentFieldsSurvive ==
    [][\A c \in posted : Applies(c) /\ c.clean =>
          \A k \in DOMAIN c.batch \ {"Secret"} : \A f \in Field \ Sets(c.batch[k]) :
              Live(k)'[f] = Live(k)[f]]_applyVars

-----------------------------------------------------------------------------
(* What the README says and the code does not keep.                        *)

\* The documented rule: a batch is rejected when it sets a field whose stored
\* value is neither the baseline's nor the manifest's.  Nothing was applied
\* before, so the baseline is empty: a workload somebody submitted conflicts
\* with every manifest that says something else.
ConflictIsReported ==
    [][\A c \in posted' \ posted :
          /\ c.cmd = "ApplyManifests" /\ "Workload" \in DOMAIN c.batch /\ stored["Workload"] # Absent
          => \A f \in Sets(c.batch["Workload"]) :
                stored["Workload"].form = "record" => stored["Workload"].fields[f] = c.batch["Workload"][f]]_applyVars

=============================================================================
