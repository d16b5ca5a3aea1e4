----------------------------- MODULE MCCluster -----------------------------
(***************************************************************************)
(* The parts of a control node below the state machine, for TLC: the log   *)
(* store, a joiner among changing leaders and crashes, and a CONTROL pool  *)
(* whose nodes come and go under changing leaders.  A behaviour runs one   *)
(* of them.                                                                *)
(***************************************************************************)
EXTENDS LogStore, ControlMembership

VARIABLE scenario

clusterVars == <<logVars, memberVars, scenario>>

Init ==
    /\ scenario \in {"log", "join", "pool"}
    /\ LogStoreInit
    /\ MembershipInit

LeaderChanges == LoseLeader \/ \E n \in Founders : Elect(n)

Next ==
    \/ scenario = "log" /\ LogStoreNext /\ UNCHANGED <<memberVars, scenario>>
    \/ scenario = "join" /\ (Joining \/ JoinFaults) /\ UNCHANGED <<logVars, scenario>>
    \/ scenario = "pool" /\ (Provisioning \/ LeaderChanges) /\ UNCHANGED <<logVars, scenario>>

\* Elections end (the timeouts are randomized), followers hear from the leader,
\* entries are replicated, and the handlers and the joiner's loop run on.
Fairness ==
    /\ WF_memberVars(scenario = "join" /\ \E n \in Founders : Elect(n))
    /\ \A n \in Founders :
          /\ WF_memberVars(scenario = "join" /\ LearnLeader(n))
          /\ WF_memberVars(scenario = "join" /\ RequestJoin(n))
    /\ WF_memberVars(scenario = "join" /\ JoinerCatchesUp)
    /\ WF_memberVars(scenario = "join" /\ (ResumeMembership \/ FirstBoot))
    /\ WF_memberVars(scenario = "join" /\ SendJoin)
    /\ WF_memberVars(scenario = "join" /\ Backoff)

Spec == Init /\ [][Next]_clusterVars /\ Fairness

\* The types of both parts.
ClusterTypeOK == LogStoreTypeOK /\ MembershipTypeOK

=============================================================================
