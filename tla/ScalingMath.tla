---------------------------- MODULE ScalingMath ----------------------------
(***************************************************************************)
(* The arithmetic of the autoscalers and of the disruption guard: replicas *)
(* from utilization, their split over roles, footprints from utilization,  *)
(* deadbands, and budgets as a number of pods that must stay.              *)
(*                                                                         *)
(* Nothing stands for Rust's None.  Roles are numbered in the order of     *)
(* their names, so a replica map is a sequence.                            *)
(***************************************************************************)
EXTENDS Integers, FiniteSets, Sequences

CONSTANTS
    Nothing,
    Milli      \* millicores to a vCPU (1000), bytes to a megabyte

DEADBAND_PERCENT == 10

SumOf(s) == LET acc[i \in 0 .. Len(s)] == IF i = 0 THEN 0 ELSE acc[i - 1] + s[i] IN acc[Len(s)]

Clamp(x, lo, hi) == IF x < lo THEN lo ELSE IF hi < x THEN hi ELSE x

AtLeastOne(x) == IF x < 1 THEN 1 ELSE x

\* ceil(current * avg / target), clamped.
compute_desired_for_metric(current_total, avg, target, min, max) ==
    IF current_total = 0 \/ target = 0 THEN Nothing
    ELSE Clamp((current_total * avg + target - 1) \div target, min, max)

\* The largest over the active metrics.
compute_desired_total(current_total, signals, min, max) ==
    LET wanted == {compute_desired_for_metric(current_total, s.avg, s.target, min, max) : s \in signals}
                  \ {Nothing}
    IN  IF wanted = {} THEN Nothing ELSE CHOOSE d \in wanted : \A e \in wanted : e <= d

Distance(a, b) == IF a < b THEN b - a ELSE a - b

within_deadband(current, wanted, percent) ==
    current # 0 /\ Distance(current, wanted) * 100 <= current * percent

\* Mutation: the shortfall goes to the first roles.
DistributeByName(current, desired_total) ==
    LET total == SumOf(current)
        base == [i \in DOMAIN current |-> (desired_total * current[i]) \div total]
        shortfall == desired_total - SumOf(base)
    IN  IF total = 0 \/ desired_total = 0 THEN [i \in DOMAIN current |-> 0]
        ELSE [i \in DOMAIN current |-> base[i] + (IF i <= shortfall THEN 1 ELSE 0)]

\* Largest remainder: the shortfall goes to the roles with the largest
\* remainders, the first names among equals.
distribute_replicas(current, desired_total) ==
    LET total == SumOf(current)
        base == [i \in DOMAIN current |-> (desired_total * current[i]) \div total]
        remainder == [i \in DOMAIN current |-> (desired_total * current[i]) % total]
        shortfall == desired_total - SumOf(base)
        ahead(i) == {j \in DOMAIN current :
                        \/ remainder[j] > remainder[i]
                        \/ remainder[j] = remainder[i] /\ j < i}
    IN  IF total = 0 \/ desired_total = 0 THEN [i \in DOMAIN current |-> 0]
        ELSE [i \in DOMAIN current |->
                 base[i] + (IF Cardinality(ahead(i)) < shortfall THEN 1 ELSE 0)]

\* One dimension of the VPA: utilization to whole units, rounded up, in bounds.
recommended_footprint(avg, percent, min, max) ==
    LET atTarget == (avg * 100) \div percent
    IN  Clamp((atTarget + Milli - 1) \div Milli, AtLeastOne(min), AtLeastOne(max))

\* The dimensions the VPA acts on: the first one that the HPA drives is left out.
active_dimensions(wanted, hpa_metrics) ==
    IF "cpu" \in wanted \cap hpa_metrics THEN wanted \ {"cpu"}
    ELSE IF "memory" \in wanted \cap hpa_metrics THEN wanted \ {"memory"}
    ELSE wanted

\* Mutation: a minimum in percent is rounded down.
MinAvailableRoundedDown(budget, desired) ==
    CASE budget.kind = "min_count" -> budget.value
      [] budget.kind = "min_percent" -> IF budget.value > 100 THEN Nothing ELSE (desired * budget.value) \div 100
      [] budget.kind = "max_count" -> Clamp(desired - budget.value, 0, desired)
      [] budget.kind = "max_percent" -> IF budget.value > 100 THEN Nothing
                                        ELSE Clamp(desired - (desired * budget.value) \div 100, 0, desired)

\* resolve_min_available: percentages round in favour of the pods that stay.
resolve_min_available(budget, desired) ==
    CASE budget.kind = "min_count" -> budget.value
      [] budget.kind = "min_percent" -> IF budget.value > 100 THEN Nothing
                                        ELSE (desired * budget.value + 99) \div 100
      [] budget.kind = "max_count" -> Clamp(desired - budget.value, 0, desired)
      [] budget.kind = "max_percent" -> IF budget.value > 100 THEN Nothing
                                        ELSE Clamp(desired - (desired * budget.value) \div 100, 0, desired)

\* allow_disruption with a budget: what cannot be resolved is denied.
allow_disruption(budget, desired, healthy, count) ==
    LET min_available == resolve_min_available(budget, desired)
    IN  min_available # Nothing /\ Clamp(healthy - count, 0, healthy) >= min_available

-----------------------------------------------------------------------------
\* Inputs: the questions below are asked of each.

CONSTANTS
    MaxReplicas,   \* bound on the replicas of a role
    Sample,        \* averages and targets
    Percent        \* percentages of budgets

\* None is no number, and what budgets and replicas count are numbers.
ASSUME MathAssumption == Nothing \notin Int /\ Milli \in Nat \ {0} /\ MaxReplicas \in Nat /\ Percent \subseteq Nat

VARIABLE input

Budget == [kind : {"min_count", "max_count"}, value : 0 .. MaxReplicas]
          \cup [kind : {"min_percent", "max_percent"}, value : Percent]

MathInit ==
    \/ \E s \in [1 .. 3 -> 0 .. MaxReplicas], d \in 0 .. 2 * MaxReplicas :
          input = [of |-> "split", current |-> s, desired |-> d]
    \/ \E c \in 0 .. MaxReplicas, a, b \in Sample, t, u \in Sample \cup {0} :
          input = [of |-> "desired", current |-> c, signals |-> {[avg |-> a, target |-> t], [avg |-> b, target |-> u]}]
    \/ \E b \in Budget, d \in 0 .. MaxReplicas, h \in 0 .. MaxReplicas, c \in 1 .. 2 :
          input = [of |-> "budget", budget |-> b, desired |-> d, healthy |-> h, count |-> c]
    \/ \E a \in Sample, p \in Percent \ {0} :
          input = [of |-> "footprint", avg |-> a, percent |-> p]
    \/ \E w, h \in SUBSET {"cpu", "memory"} :
          input = [of |-> "conflict", wanted |-> w, hpa_metrics |-> h]

MathNext == FALSE /\ UNCHANGED input

MathSpec == MathInit /\ [][MathNext]_input

\* distribute_replicas hands out exactly the desired total, gives no role more
\* than one replica above or below its exact share, keeps a stopped role
\* stopped and never ranks a smaller role above a larger one.
SplitIsFair ==
    input.of = "split" /\ SumOf(input.current) > 0 =>
        LET total == SumOf(input.current)
            new == distribute_replicas(input.current, input.desired)
        IN  /\ SumOf(new) = input.desired
            /\ \A i \in DOMAIN new :
                  /\ Distance(new[i] * total, input.desired * input.current[i]) < total
                  /\ input.current[i] = 0 => new[i] = 0
                  /\ \A j \in DOMAIN new : input.current[i] > input.current[j] => new[i] >= new[j]

\* The desired total is the least in bounds at which no active metric exceeds
\* its target per replica, and metrics without a target have no say
\* (compute_desired_total with min 1 and max MaxReplicas).
DesiredMeetsTargets ==
    input.of = "desired" =>
        LET d == compute_desired_total(input.current, input.signals, 1, MaxReplicas)
            Enough(n) == \A s \in input.signals : s.target > 0 => input.current * s.avg <= n * s.target
        IN  IF input.current = 0 \/ \A s \in input.signals : s.target = 0 THEN d = Nothing
            ELSE /\ d \in 1 .. MaxReplicas
                 /\ Enough(d) \/ d = MaxReplicas
                 /\ d > 1 => ~Enough(d - 1)

\* A disruption the guard allows leaves the share of the role's pods that the
\* budget asks for, whichever way it is written and however it rounds, and the
\* guard denies nothing the budget permits (allow_disruption).
AllowedLeavesBudget ==
    input.of = "budget" =>
        LET left == IF input.healthy < input.count THEN 0 ELSE input.healthy - input.count
            gone == input.desired - left
            value == input.budget.value
        IN  allow_disruption(input.budget, input.desired, input.healthy, input.count) <=>
                CASE input.budget.kind = "min_count"   -> left >= value
                  [] input.budget.kind = "min_percent" -> value <= 100 /\ left * 100 >= input.desired * value
                  [] input.budget.kind = "max_count"   -> gone <= value
                  [] input.budget.kind = "max_percent" -> value <= 100 /\ gone * 100 <= input.desired * value

\* The VPA's recommendation is the smallest footprint within bounds that holds
\* the observed utilization at the target, counted in whole units, and once the
\* template has it the deadband keeps it there (evaluate_with_dimensions).
FootprintFits ==
    input.of = "footprint" =>
        LET new == recommended_footprint(input.avg, input.percent, 1, MaxReplicas)
            Holds(n) == (input.avg * 100) \div input.percent <= n * Milli
        IN  /\ new \in 1 .. MaxReplicas
            /\ Holds(new) \/ new = MaxReplicas
            /\ new > 1 => ~Holds(new - 1)
            /\ within_deadband(new, new, DEADBAND_PERCENT)

\* A dimension has one autoscaler: the VPA keeps away from what the HPA drives,
\* and gives up nothing else, whenever they meet in one dimension only.  (When
\* they meet in both, it goes on with memory: evaluate_workload returns after
\* the first conflict.)
OneOwnerPerDimension ==
    input.of = "conflict" /\ Cardinality(input.wanted \cap input.hpa_metrics) <= 1 =>
        active_dimensions(input.wanted, input.hpa_metrics) = input.wanted \ input.hpa_metrics

=============================================================================
