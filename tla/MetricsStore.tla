---------------------------- MODULE MetricsStore ----------------------------
(***************************************************************************)
(* The metrics windows the leader keeps in memory for the autoscalers.  A  *)
(* report tests the capacity, then updates the pod's record under its      *)
(* lock, and when there is none inserts one: three separate steps.         *)
(***************************************************************************)
EXTENDS Proposals, Sequences, Functions

CONSTANTS
    MetricsPod,           \* pods that were placed
    Reporter,             \* reports handled concurrently
    MAX_PODS, MAX_WINDOWS_PER_POD,
    MaxWindow             \* bound on the windows' times

\* A report on its way: its step, and whether it is alone with its pod.
MetricsReport == [at : {"update", "insert"}, pod : MetricsPod, window : Int, alone : BOOLEAN]

ASSUME MetricsAssumption == Absent \notin MetricsReport

VARIABLES
    windows,    \* pod -> its windows, oldest first; <<>> when it has no record
    report,     \* where each report is
    swept       \* a sweep has removed records

metricsVars == <<windows, report, swept>>

MetricsInit ==
    /\ windows = [p \in MetricsPod |-> <<>>]
    /\ report = [r \in Reporter |-> Absent]
    /\ swept = FALSE

Newest(w) == w[Len(w)]

Recorded == {p \in MetricsPod : windows[p] # <<>>}

report_metrics(r, p, w) ==
    /\ report[r] = Absent
    /\ windows[p] # <<>> \/ Cardinality(Recorded) < MAX_PODS
    /\ report' = [report EXCEPT ![r] = [at |-> "update", pod |-> p, window |-> w, alone |-> TRUE]]
    /\ UNCHANGED <<windows, swept>>

\* Mutation: a window already stored is taken again.
NotOlder(w, newest) == w >= newest

IsNewer(w, newest) == w > newest

\* The record of a pod is written: the reports about to insert one are no
\* longer alone.
Met(p) == [r \in Reporter |-> IF report[r] # Absent /\ report[r].at = "insert" /\ report[r].pod = p
                              THEN [report[r] EXCEPT !.alone = FALSE] ELSE report[r]]

update_record(r) ==
    /\ report[r] # Absent /\ report[r].at = "update"
    /\ LET p == report[r].pod
           w == report[r].window
       IN \/ /\ windows[p] # <<>> /\ ~IsNewer(w, Newest(windows[p]))
             /\ report' = [report EXCEPT ![r] = Absent]
             /\ UNCHANGED windows
          \/ /\ windows[p] # <<>> /\ IsNewer(w, Newest(windows[p]))
             /\ LET all == Append(windows[p], w)
                IN  windows' = [windows EXCEPT ![p] =
                        IF Len(all) > MAX_WINDOWS_PER_POD THEN Tail(all) ELSE all]
             /\ report' = [Met(p) EXCEPT ![r] = Absent]
          \/ /\ windows[p] = <<>>
             /\ report' = [report EXCEPT ![r].at = "insert"]
             /\ UNCHANGED windows
    /\ UNCHANGED swept

insert_record(r) ==
    /\ report[r] # Absent /\ report[r].at = "insert"
    /\ windows' = [windows EXCEPT ![report[r].pod] = <<report[r].window>>]
    /\ report' = [Met(report[r].pod) EXCEPT ![r] = Absent]
    /\ UNCHANGED swept

sweep_metrics(p) ==
    /\ windows[p] # <<>> /\ ~swept
    /\ swept' = TRUE
    /\ windows' = [windows EXCEPT ![p] = <<>>]
    /\ UNCHANGED report

MetricsNext ==
    \/ \E r \in Reporter : \/ \E p \in MetricsPod, w \in 1 .. MaxWindow : report_metrics(r, p, w)
                           \/ update_record(r) \/ insert_record(r)
    \/ \E p \in MetricsPod : sweep_metrics(p)

MetricsSpec == MetricsInit /\ [][MetricsNext]_metricsVars

-----------------------------------------------------------------------------
MetricsTypeOK ==
    /\ \A p \in MetricsPod : /\ Range(windows[p]) \subseteq 1 .. MaxWindow
                             /\ Len(windows[p]) <= MAX_WINDOWS_PER_POD
    /\ Cardinality(Recorded) < MAX_PODS + Cardinality(Reporter)

\* The newest window of a pod, which the autoscalers act on, never goes back
\* while the pod keeps its record, unless a first report overtaken by another
\* one overwrites the record.
NewestAdvances ==
    [][\A p \in MetricsPod :
         /\ windows'[p] # windows[p] /\ windows[p] # <<>> /\ windows'[p] # <<>>
         => \/ Newest(windows'[p]) > Newest(windows[p])
            \/ \E r \in Reporter : report[r] # Absent /\ report'[r] = Absent /\ ~report[r].alone]_metricsVars

=============================================================================
