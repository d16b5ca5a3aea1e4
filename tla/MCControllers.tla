--------------------------- MODULE MCControllers ---------------------------
(***************************************************************************)
(* The leader's loops, one scenario each: cron workloads; the health of a  *)
(* pod and of a node; the horizontal autoscaler, the vertical one, and     *)
(* both at once; and the arithmetic of the autoscalers on its inputs.      *)
(***************************************************************************)
EXTENDS Autoscaler, FleetHealth, CronController

VARIABLE scenario

HpaPolicy == [target |-> 2, min |-> 1, max |-> 3, window |-> 2]
VpaPolicy == [percent |-> 100, min |-> 1, max |-> 2, window |-> 1, recreate |-> TRUE]
KeepTwo == [kind |-> "min_count", value |-> 2]

controllerVars == <<scaleVars, healthVars, cronVars, input, scenario>>

NoInput == [of |-> "nothing"]
Scaling == {"hpa", "vpa", "both"}
Health  == {"pod", "node"}

ControllersInit ==
    /\ AutoscalerInit /\ HealthInit /\ CronInit
    /\ \/ scenario \in Scaling \cup Health \cup {"cron"} /\ input = NoInput
       \/ scenario = "math" /\ MathInit
    /\ (scenario = "node") = (node.status = "Active")
    /\ scenario # "cron" => skew = 0

ScalingNext ==
    \/ scenario \in {"hpa", "both"} /\ HpaTask
    \/ scenario \in {"vpa", "both"} /\ VpaTask
    \/ scenario = "hpa"  /\ Metrics(Load \cup {Nothing}, {})
    \/ scenario = "vpa"  /\ Metrics({}, Load \cup {Nothing})
    \/ scenario = "both" /\ Metrics(Load, Load)
    \/ scenario # "both" /\ Interference
    \/ PlacesAndTime

HealthSteps ==
    \/ Loops
    \/ scenario = "pod"  /\ PodReports
    \/ scenario = "node" /\ NodeReports

ControllersNext ==
    /\ UNCHANGED <<input, scenario>>
    /\ \/ scenario \in Scaling /\ ScalingNext /\ UNCHANGED <<healthVars, cronVars>>
       \/ scenario \in Health /\ HealthSteps /\ UNCHANGED <<scaleVars, cronVars>>
       \/ scenario = "cron" /\ CronNext /\ UNCHANGED <<scaleVars, healthVars>>

\* Every loop runs on its timer while its scenario lasts and gets to all that it
\* has listed, a new leader applies its log, and a proposal is committed.
ControllersFairness ==
    /\ WF_scaleVars(scenario \in {"hpa", "both"} /\ HpaTask)
    /\ WF_scaleVars(scenario \in {"vpa", "both"} /\ VpaTask)
    /\ WF_scaleVars(scenario \in Scaling /\ ApplyCommitted)
    /\ WF_healthVars(scenario \in Health /\ GrowOlder)
    /\ WF_healthVars(scenario \in Health /\ PodLoop)
    /\ WF_healthVars(scenario \in Health /\ NodeLoop)
    /\ WF_cronVars(scenario = "cron" /\ Loop)
    /\ WF_cronVars(scenario = "cron" /\ CatchUp)
    /\ \A c \in Cron :
          WF_cronVars(scenario = "cron" /\ \E x \in todo : x.cron = c /\ Evaluate(x))
    /\ WF_cronVars(scenario = "cron" /\ \E m \in submitting : CommitSubmit(m))
    /\ WF_cronVars(scenario = "cron" /\ \E o \in orphans : ApplyOrphan(o))

ControllersSpec == ControllersInit /\ [][ControllersNext]_controllerVars /\ ControllersFairness

\* Every component's state has its type.
ControllersTypeOK == AutoscalerTypeOK /\ HealthTypeOK /\ CronTypeOK

=============================================================================
