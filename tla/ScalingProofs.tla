--------------------------- MODULE ScalingProofs ----------------------------
(***************************************************************************)
(* Scaling for any workload, budget and policy: the exact arithmetic of the *)
(* disruption guard and of the split over roles, the stabilization window, *)
(* and what the autoscalers write.                                         *)
(***************************************************************************)
EXTENDS Autoscaler, FiniteSetTheorems, TLAPS

\* Steps that name no prover are tried with Zenon, then with the SMT solver.
USE ZenonT(20), SMTT(30)

-----------------------------------------------------------------------------
(* The disruption guard.                                                   *)

\* Rounding a share up to whole pods.
LEMMA RoundedUp ==
    ASSUME NEW share \in Nat, NEW left \in Nat
    PROVE  left >= (share + 99) \div 100 <=> left * 100 >= share
  BY SMTT(30)

\* Rounding down what may be missing.
LEMMA RoundedDown ==
    ASSUME NEW share \in Nat, NEW gone \in Int
    PROVE  gone <= share \div 100 <=> gone * 100 <= share
  BY SMTT(30)

\* What stays when some of the healthy pods are disrupted.
LEMMA Remaining ==
    ASSUME NEW healthy \in Nat, NEW count \in Nat
    PROVE  /\ Clamp(healthy - count, 0, healthy) = IF healthy < count THEN 0 ELSE healthy - count
           /\ Clamp(healthy - count, 0, healthy) \in Nat
  BY SMTT(30) DEF Clamp

\* What the budget asks for, without rounding.
Permits(budget, desired, left) ==
    CASE budget.kind = "min_count"   -> left >= budget.value
      [] budget.kind = "min_percent" -> budget.value <= 100 /\ left * 100 >= desired * budget.value
      [] budget.kind = "max_count"   -> desired - left <= budget.value
      [] budget.kind = "max_percent" -> budget.value <= 100 /\ (desired - left) * 100 <= desired * budget.value

\* The guard allows exactly what the budget permits.
LEMMA GuardIsExact ==
    ASSUME NEW kind \in {"min_count", "min_percent", "max_count", "max_percent"}, NEW value \in Nat,
           NEW desired \in Nat, NEW left \in Nat, NEW budget, budget.kind = kind, budget.value = value
    PROVE  LET min_available == resolve_min_available(budget, desired)
           IN  (min_available # Nothing /\ left >= min_available) <=> Permits(budget, desired, left)
  <1>. DEFINE min_available == resolve_min_available(budget, desired)
  <1>. SUFFICES (min_available # Nothing /\ left >= min_available) <=> Permits(budget, desired, left)
    OBVIOUS
  <1>. DEFINE share == desired * value
  <1>0. share \in Nat /\ (share + 99) \div 100 \in Int /\ share \div 100 \in Int
    BY SMTT(30)
  <1>1. CASE kind = "min_count"
    <2>1. min_available = value
      BY <1>1 DEF resolve_min_available
    <2>. QED  BY <1>1, <2>1, MathAssumption, SMTT(30) DEF Permits
  <1>2. CASE kind = "min_percent"
    <2>1. min_available = IF value > 100 THEN Nothing ELSE (share + 99) \div 100
      BY <1>2 DEF resolve_min_available
    <2>2. Permits(budget, desired, left) <=> value <= 100 /\ left * 100 >= share
      BY <1>2 DEF Permits
    <2>. HIDE DEF share, min_available
    <2>3. CASE value > 100
      BY <2>1, <2>2, <2>3, SMTT(30)
    <2>4. CASE value <= 100
      <3>1. min_available = (share + 99) \div 100 /\ min_available \in Int
        BY <1>0, <2>1, <2>4, SMTT(30)
      <3>2. min_available # Nothing
        BY <3>1, MathAssumption
      <3>3. left >= min_available <=> left * 100 >= share
        BY <1>0, <3>1, RoundedUp
      <3>. QED  BY <2>2, <2>4, <3>2, <3>3
    <2>. QED  BY <2>3, <2>4, SMTT(30)
  <1>3. CASE kind = "max_count"
    <2>1. min_available = Clamp(desired - value, 0, desired)
      BY <1>3 DEF resolve_min_available
    <2>2. Permits(budget, desired, left) <=> desired - left <= value
      BY <1>3 DEF Permits
    <2>. HIDE DEF min_available
    <2>3. min_available \in Int /\ (left >= min_available <=> desired - left <= value)
      BY <2>1, SMTT(30) DEF Clamp
    <2>4. min_available # Nothing
      BY <2>3, MathAssumption
    <2>. QED  BY <2>2, <2>3, <2>4
  <1>4. CASE kind = "max_percent"
    <2>1. min_available = IF value > 100 THEN Nothing ELSE Clamp(desired - share \div 100, 0, desired)
      BY <1>4 DEF resolve_min_available
    <2>2. Permits(budget, desired, left) <=> value <= 100 /\ (desired - left) * 100 <= share
      BY <1>4 DEF Permits
    <2>. HIDE DEF share, min_available
    <2>3. desired - left <= share \div 100 <=> (desired - left) * 100 <= share
      BY <1>0, RoundedDown, SMTT(30)
    <2>4. share \div 100 >= 0
      BY <1>0, SMTT(30)
    <2>5. CASE value > 100
      BY <2>1, <2>2, <2>5, SMTT(30)
    <2>6. CASE value <= 100
      <3>. DEFINE spare == share \div 100
      <3>1. spare \in Nat /\ min_available = Clamp(desired - spare, 0, desired)
        BY <1>0, <2>1, <2>4, <2>6, SMTT(30)
      <3>. HIDE DEF spare
      <3>2. min_available \in Int /\ (left >= min_available <=> desired - left <= spare)
        BY <3>1, SMTT(30) DEF Clamp
      <3>3. min_available # Nothing
        BY <3>2, MathAssumption
      <3>. QED  BY <2>2, <2>3, <2>6, <3>2, <3>3 DEF spare
    <2>. QED  BY <2>5, <2>6, SMTT(30)
  <1>. QED  BY <1>1, <1>2, <1>3, <1>4

\* A disruption is allowed exactly when the budget permits it, whatever the
\* budget, the percentages and the numbers of pods (allow_disruption,
\* resolve_min_available).
THEOREM GuardLeavesBudget == MathSpec => []AllowedLeavesBudget
  <1>1. MathInit => AllowedLeavesBudget
    <2>. SUFFICES ASSUME MathInit, input.of = "budget" PROVE AllowedLeavesBudget
      BY DEF AllowedLeavesBudget
    <2>1. PICK b \in Budget, d \in 0 .. MaxReplicas, h \in 0 .. MaxReplicas, c \in 1 .. 2 :
              input = [of |-> "budget", budget |-> b, desired |-> d, healthy |-> h, count |-> c]
      BY SMTT(30) DEF MathInit
    <2>2. /\ b.kind \in {"min_count", "min_percent", "max_count", "max_percent"} /\ b.value \in Nat
          /\ d \in Nat /\ h \in Nat /\ c \in Nat
      <3>1. \/ b.kind \in {"min_count", "max_count"} /\ b.value \in 0 .. MaxReplicas
            \/ b.kind \in {"min_percent", "max_percent"} /\ b.value \in Percent
        BY DEF Budget
      <3>2. b.value \in Nat
        <4>1. \A n \in 0 .. MaxReplicas : n \in Nat
          BY MathAssumption, SMTT(30)
        <4>2. \A n \in Percent : n \in Nat
          BY MathAssumption
        <4>. QED  BY <3>1, <4>1, <4>2
      <3>. QED  BY <3>1, <3>2, MathAssumption, SMTT(30)
    <2>. DEFINE left == IF h < c THEN 0 ELSE h - c
    <2>3. left \in Nat /\ Clamp(h - c, 0, h) = left
      BY <2>2, Remaining
    <2>4. allow_disruption(b, d, h, c) <=> Permits(b, d, left)
      BY <2>2, <2>3, GuardIsExact DEF allow_disruption
    <2>. QED  BY <2>1, <2>4 DEF AllowedLeavesBudget, Permits
  <1>2. AllowedLeavesBudget /\ [MathNext]_input => AllowedLeavesBudget'
    BY DEF MathNext, AllowedLeavesBudget
  <1>. QED  BY <1>1, <1>2, PTL DEF MathSpec

-----------------------------------------------------------------------------
(* The split of a total over the roles.                                    *)

\* The sum over three roles, whose definition is recursive.
LEMMA SumOfThree ==
    ASSUME NEW s, DOMAIN s = 1 .. 3, Len(s) = 3, s[1] \in Int, s[2] \in Int, s[3] \in Int
    PROVE  SumOf(s) = s[1] + s[2] + s[3]
  <1>. DEFINE sums(f) == f = [i \in 0 .. Len(s) |-> IF i = 0 THEN 0 ELSE f[i - 1] + s[i]]
              f0 == [i \in 0 .. 3 |-> IF i = 0 THEN 0 ELSE IF i = 1 THEN s[1]
                                      ELSE IF i = 2 THEN s[1] + s[2] ELSE s[1] + s[2] + s[3]]
              acc == CHOOSE f : sums(f)
  <1>1. \A i \in 0 .. 3 : f0[i] = IF i = 0 THEN 0 ELSE f0[i - 1] + s[i]
    <2>1. f0[0] = 0 /\ f0[1] = s[1] /\ f0[2] = s[1] + s[2] /\ f0[3] = s[1] + s[2] + s[3]
      BY SMTT(30)
    <2>. HIDE DEF f0
    <2>2. \A i \in 0 .. 3 : i = 0 \/ i = 1 \/ i = 2 \/ i = 3
      BY SMTT(30)
    <2>. QED  BY <2>1, <2>2, SMTT(30)
  <1>2. sums(f0)
    BY <1>1
  <1>3. sums(acc)
    BY <1>2
  <1>4. SumOf(s) = acc[Len(s)]
    BY DEF SumOf
  <1>. HIDE DEF acc
  <1>5. acc = [i \in 0 .. 3 |-> IF i = 0 THEN 0 ELSE acc[i - 1] + s[i]]
    BY <1>3
  <1>6. acc[0] = 0 /\ acc[1] = acc[0] + s[1] /\ acc[2] = acc[1] + s[2] /\ acc[3] = acc[2] + s[3]
    BY <1>5, SMTT(30)
  <1>. QED  BY <1>4, <1>6, SMTT(30)

One(b) == IF b THEN 1 ELSE 0

\* The size of a set of roles.
LEMMA CountOfThree ==
    ASSUME NEW S \in SUBSET (1 .. 3)
    PROVE  Cardinality(S) = One(1 \in S) + One(2 \in S) + One(3 \in S)
  <1>. DEFINE A == S \cap {1}
              B == S \cap {1, 2}
  <1>1. IsFiniteSet({}) /\ Cardinality({}) = 0
    BY FS_EmptySet
  <1>2. IsFiniteSet({1}) /\ Cardinality({1}) = 1
    BY FS_Singleton
  <1>3. IsFiniteSet(A) /\ Cardinality(A) = One(1 \in S)
    <2>1. A = IF 1 \in S THEN {1} ELSE {}
      OBVIOUS
    <2>. HIDE DEF A
    <2>. QED  BY <1>1, <1>2, <2>1 DEF One
  <1>4. B = IF 2 \in S THEN A \cup {2} ELSE A
    OBVIOUS
  <1>5. IsFiniteSet(B) /\ Cardinality(B) = One(1 \in S) + One(2 \in S)
    <2>1. 2 \notin A
      BY SMTT(30)
    <2>. HIDE DEF A, B
    <2>. QED  BY <1>3, <1>4, <2>1, FS_AddElement, SMTT(30) DEF One
  <1>6. S = IF 3 \in S THEN B \cup {3} ELSE B
    <2>1. \A x \in S : x = 1 \/ x = 2 \/ x = 3
      BY SMTT(30)
    <2>. QED  BY <2>1
  <1>7. 3 \notin B
    BY SMTT(30)
  <1>. HIDE DEF A, B
  <1>. QED  BY <1>5, <1>6, <1>7, FS_AddElement, SMTT(30) DEF One

\* Three shares of a multiple of the total: what division leaves over is made
\* up of at most two whole replicas.
LEMMA LeftOver ==
    ASSUME NEW t \in Nat \ {0}, NEW d \in Nat, NEW b \in [1 .. 3 -> Nat], NEW r \in [1 .. 3 -> 0 .. t - 1],
           t * d = (t * b[1] + r[1]) + (t * b[2] + r[2]) + (t * b[3] + r[3])
    PROVE  \/ d = b[1] + b[2] + b[3] /\ r[1] + r[2] + r[3] = 0
           \/ d = b[1] + b[2] + b[3] + 1 /\ r[1] + r[2] + r[3] = t
           \/ d = b[1] + b[2] + b[3] + 2 /\ r[1] + r[2] + r[3] = 2 * t
  <1>1. PICK b1 \in Nat, b2 \in Nat, b3 \in Nat : b1 = b[1] /\ b2 = b[2] /\ b3 = b[3]
    BY SMTT(30)
  <1>2. PICK r1 \in 0 .. t - 1, r2 \in 0 .. t - 1, r3 \in 0 .. t - 1 : r1 = r[1] /\ r2 = r[2] /\ r3 = r[3]
    BY SMTT(30)
  <1>3. PICK s \in Int : s = d - (b1 + b2 + b3)
    BY SMTT(30)
  <1>4. t * s = r1 + r2 + r3
    <2>1. t * d = t * b1 + r1 + t * b2 + r2 + t * b3 + r3
      BY <1>1, <1>2, SMTT(30)
    <2>. QED  BY <1>3, <2>1, SMTT(30)
  <1>5. s <= 2
    <2>1. SUFFICES ASSUME s >= 3 PROVE FALSE
      BY SMTT(30)
    <2>2. t * s >= t * 3
      BY <2>1, SMTT(30)
    <2>. QED  BY <1>4, <2>2, SMTT(30)
  <1>6. s >= 0
    <2>1. SUFFICES ASSUME s <= -1 PROVE FALSE
      BY SMTT(30)
    <2>2. t * s <= t * (-1)
      BY <2>1, SMTT(30)
    <2>. QED  BY <1>4, <2>2, SMTT(30)
  <1>7. CASE s = 0
    <2>1. d = b1 + b2 + b3
      BY <1>3, <1>7, SMTT(30)
    <2>2. r1 + r2 + r3 = 0
      BY <1>4, <1>7, SMTT(30)
    <2>. QED  BY <1>1, <1>2, <2>1, <2>2
  <1>8. CASE s = 1
    BY <1>1, <1>2, <1>3, <1>4, <1>8, SMTT(30)
  <1>9. CASE s = 2
    BY <1>1, <1>2, <1>3, <1>4, <1>9, SMTT(30)
  <1>. QED  BY <1>5, <1>6, <1>7, <1>8, <1>9, SMTT(30)

\* The exact share of a role, divided.
LEMMA ShareIsDivided ==
    ASSUME NEW t \in Nat \ {0}, NEW p \in Nat
    PROVE  p \div t \in Nat /\ p % t \in 0 .. t - 1 /\ p = t * (p \div t) + (p % t)
  <1>1. p % t \in 0 .. t - 1
    BY SMTT(30)
  <1>2. p = t * (p \div t) + (p % t)
    BY SMTT(30)
  <1>3. p \div t \in Int
    BY SMTT(30)
  <1>4. p \div t >= 0
    BY SMTT(30)
  <1>. QED  BY <1>1, <1>2, <1>3, <1>4, SMTT(30)

\* A role's part differs from its exact share by less than a replica.
LEMMA PartIsClose ==
    ASSUME NEW t \in Nat \ {0}, NEW p \in Nat, NEW b \in Nat, NEW r \in 0 .. t - 1, NEW x \in {0, 1},
           p = t * b + r, r = 0 => x = 0
    PROVE  Distance((b + x) * t, p) < t
  <1>1. CASE x = 0
    <2>1. (b + x) * t = t * b
      BY <1>1, SMTT(30)
    <2>2. PICK q \in Nat : q = t * b
      BY SMTT(30)
    <2>. QED  BY <2>1, <2>2, SMTT(30) DEF Distance
  <1>2. CASE x = 1
    <2>1. (b + x) * t = t * b + t
      BY <1>2, SMTT(30)
    <2>2. PICK q \in Nat : q = t * b
      BY SMTT(30)
    <2>. QED  BY <1>2, <2>1, <2>2, SMTT(30) DEF Distance
  <1>. QED  BY <1>1, <1>2

\* The sum of a map of three roles.
LEMMA SumOfMap ==
    ASSUME NEW c \in [1 .. 3 -> Nat]
    PROVE  DOMAIN c = 1 .. 3 /\ Len(c) = 3 /\ SumOf(c) = c[1] + c[2] + c[3]
  <1>1. DOMAIN c = 1 .. 3 /\ Len(c) = 3 /\ c[1] \in Int /\ c[2] \in Int /\ c[3] \in Int
    BY SMTT(30)
  <1>. QED  BY <1>1, SumOfThree

\* What division gives each role, what it leaves of each, and what it leaves of
\* the total.
Whole(c, d, t) == [i \in 1 .. 3 |-> (d * c[i]) \div t]
Rest(c, d, t) == [i \in 1 .. 3 |-> (d * c[i]) % t]
Short(c, d, t) == d - (Whole(c, d, t)[1] + Whole(c, d, t)[2] + Whole(c, d, t)[3])

\* The roles that get one more.
Extra(r, s) ==
    [i \in 1 .. 3 |->
        IF i = 1 THEN One(One(r[2] > r[1]) + One(r[3] > r[1]) < s)
        ELSE IF i = 2 THEN One(One(r[1] >= r[2]) + One(r[3] > r[2]) < s)
        ELSE One(One(r[1] >= r[3]) + One(r[2] >= r[3]) < s)]

\* A share is its whole part and its remainder.
LEMMA SharesAreDivided ==
    ASSUME NEW c \in [1 .. 3 -> Nat], NEW d \in Nat, NEW t \in Nat \ {0}
    PROVE  /\ Whole(c, d, t) \in [1 .. 3 -> Nat] /\ Rest(c, d, t) \in [1 .. 3 -> 0 .. t - 1]
           /\ \A i \in 1 .. 3 : d * c[i] = t * Whole(c, d, t)[i] + Rest(c, d, t)[i]
  <1>1. ASSUME NEW i \in 1 .. 3
        PROVE  /\ Whole(c, d, t)[i] \in Nat /\ Rest(c, d, t)[i] \in 0 .. t - 1
               /\ d * c[i] = t * Whole(c, d, t)[i] + Rest(c, d, t)[i]
    <2>1. PICK p \in Nat : p = d * c[i]
      BY SMTT(30)
    <2>2. Whole(c, d, t)[i] = p \div t /\ Rest(c, d, t)[i] = p % t
      BY <2>1 DEF Whole, Rest
    <2>. QED  BY <2>1, <2>2, ShareIsDivided
  <1>2. Whole(c, d, t) = [i \in 1 .. 3 |-> Whole(c, d, t)[i]] /\ Rest(c, d, t) = [i \in 1 .. 3 |-> Rest(c, d, t)[i]]
    BY DEF Whole, Rest
  <1>. QED  BY <1>1, <1>2

\* The split over three roles, in these terms.
LEMMA SplitOfThree ==
    ASSUME NEW c \in [1 .. 3 -> Nat], NEW d \in Nat \ {0}, SumOf(c) # 0
    PROVE  distribute_replicas(c, d) = [i \in 1 .. 3 |->
               Whole(c, d, SumOf(c))[i] + Extra(Rest(c, d, SumOf(c)), Short(c, d, SumOf(c)))[i]]
  <1>1. PICK t \in Nat \ {0} : t = SumOf(c)
    BY SumOfMap, SMTT(30)
  <1>2. PICK b \in [1 .. 3 -> Nat] : b = Whole(c, d, t)
    BY SharesAreDivided
  <1>3. PICK r \in [1 .. 3 -> 0 .. t - 1] : r = Rest(c, d, t)
    BY SharesAreDivided
  <1>4. PICK s : s = Short(c, d, t)
    OBVIOUS
  <1>. DEFINE ahead(i) == {j \in 1 .. 3 : r[j] > r[i] \/ (r[j] = r[i] /\ j < i)}
  <1>5. s = d - SumOf(b)
    BY <1>2, <1>4, SumOfMap DEF Short
  <1>6. DOMAIN c = 1 .. 3
    OBVIOUS
  <1>7. b = [i \in DOMAIN c |-> (d * c[i]) \div SumOf(c)] /\ r = [i \in DOMAIN c |-> (d * c[i]) % SumOf(c)]
    BY <1>1, <1>2, <1>3, <1>6 DEF Whole, Rest
  <1>8. distribute_replicas(c, d) = [i \in 1 .. 3 |-> b[i] + (IF Cardinality(ahead(i)) < s THEN 1 ELSE 0)]
    BY <1>5, <1>6, <1>7 DEF distribute_replicas
  <1>9. /\ Cardinality(ahead(1)) = One(r[2] > r[1]) + One(r[3] > r[1])
        /\ Cardinality(ahead(2)) = One(r[1] >= r[2]) + One(r[3] > r[2])
        /\ Cardinality(ahead(3)) = One(r[1] >= r[3]) + One(r[2] >= r[3])
    <2>1. PICK r1 \in Int, r2 \in Int, r3 \in Int : r1 = r[1] /\ r2 = r[2] /\ r3 = r[3]
      BY SMTT(30)
    <2>2. \A i \in 1 .. 3 : Cardinality(ahead(i)) = One(1 \in ahead(i)) + One(2 \in ahead(i)) + One(3 \in ahead(i))
      <3> SUFFICES ASSUME NEW i \in 1 .. 3
                   PROVE  Cardinality(ahead(i)) = One(1 \in ahead(i)) + One(2 \in ahead(i)) + One(3 \in ahead(i))
        OBVIOUS
      <3>1. ahead(i) \in SUBSET (1 .. 3)
        OBVIOUS
      <3>. HIDE DEF ahead
      <3>. QED  BY <3>1, CountOfThree
    <2>3. /\ 1 \notin ahead(1) /\ (2 \in ahead(1) <=> r2 > r1) /\ (3 \in ahead(1) <=> r3 > r1)
          /\ (1 \in ahead(2) <=> r1 >= r2) /\ 2 \notin ahead(2) /\ (3 \in ahead(2) <=> r3 > r2)
          /\ (1 \in ahead(3) <=> r1 >= r3) /\ (2 \in ahead(3) <=> r2 >= r3) /\ 3 \notin ahead(3)
      BY <2>1, SMTT(30)
    <2>. HIDE DEF ahead
    <2>. QED  BY <2>1, <2>2, <2>3, SMTT(30) DEF One
  <1>. HIDE DEF ahead
  <1>10. \A i \in 1 .. 3 : (IF Cardinality(ahead(i)) < s THEN 1 ELSE 0) = Extra(r, s)[i]
    <2>1. \A i \in 1 .. 3 : i = 1 \/ i = 2 \/ i = 3
      BY SMTT(30)
    <2>2. /\ Extra(r, s)[1] = One(Cardinality(ahead(1)) < s)
          /\ Extra(r, s)[2] = One(Cardinality(ahead(2)) < s)
          /\ Extra(r, s)[3] = One(Cardinality(ahead(3)) < s)
      BY <1>9, SMTT(30) DEF Extra
    <2>. QED  BY <2>1, <2>2 DEF One
  <1>. QED  BY <1>1, <1>2, <1>3, <1>4, <1>8, <1>10

\* What the order of the remainders does for the parts.
LEMMA ExtraIsFair ==
    ASSUME NEW t \in Nat \ {0}, NEW s \in 0 .. 2, NEW r \in [1 .. 3 -> 0 .. t - 1],
           \/ s = 0 /\ r[1] + r[2] + r[3] = 0
           \/ s = 1 /\ r[1] + r[2] + r[3] = t
           \/ s = 2 /\ r[1] + r[2] + r[3] = 2 * t
    PROVE  /\ Extra(r, s) \in [1 .. 3 -> {0, 1}]
           /\ Extra(r, s)[1] + Extra(r, s)[2] + Extra(r, s)[3] = s
           /\ \A i \in 1 .. 3 : r[i] = 0 => Extra(r, s)[i] = 0
           /\ \A i, j \in 1 .. 3 : r[i] > r[j] => Extra(r, s)[i] >= Extra(r, s)[j]
  <1>1. PICK r1 \in 0 .. t - 1, r2 \in 0 .. t - 1, r3 \in 0 .. t - 1 : r1 = r[1] /\ r2 = r[2] /\ r3 = r[3]
    BY SMTT(30)
  <1>2. PICK x1, x2, x3 : /\ x1 = One(One(r2 > r1) + One(r3 > r1) < s)
                          /\ x2 = One(One(r1 >= r2) + One(r3 > r2) < s)
                          /\ x3 = One(One(r1 >= r3) + One(r2 >= r3) < s)
    OBVIOUS
  <1>3. Extra(r, s) = [i \in 1 .. 3 |-> IF i = 1 THEN x1 ELSE IF i = 2 THEN x2 ELSE x3]
    BY <1>1, <1>2 DEF Extra
  <1>4. x1 \in {0, 1} /\ x2 \in {0, 1} /\ x3 \in {0, 1}
    BY <1>2 DEF One
  <1>5. \/ s = 0 /\ r1 + r2 + r3 = 0
        \/ s = 1 /\ r1 + r2 + r3 = t
        \/ s = 2 /\ r1 + r2 + r3 = 2 * t
    BY <1>1
  <1>6. /\ x1 + x2 + x3 = s
        /\ r1 = 0 => x1 = 0
        /\ r2 = 0 => x2 = 0
        /\ r3 = 0 => x3 = 0
        /\ r1 > r2 => x1 >= x2
        /\ r1 > r3 => x1 >= x3
        /\ r2 > r3 => x2 >= x3
        /\ r2 > r1 => x2 >= x1
        /\ r3 > r1 => x3 >= x1
        /\ r3 > r2 => x3 >= x2
    BY <1>2, <1>5, SMTT(30) DEF One
  <1>7. Extra(r, s) \in [1 .. 3 -> {0, 1}]
    BY <1>3, <1>4
  <1>8. Extra(r, s)[1] = x1 /\ Extra(r, s)[2] = x2 /\ Extra(r, s)[3] = x3
    BY <1>3, SMTT(30)
  <1>9. \A i \in 1 .. 3 : i = 1 \/ i = 2 \/ i = 3
    BY SMTT(30)
  <1>10. \A i \in 1 .. 3 : r[i] = 0 => Extra(r, s)[i] = 0
    BY <1>1, <1>6, <1>8, <1>9
  <1>11. \A i, j \in 1 .. 3 : r[i] > r[j] => Extra(r, s)[i] >= Extra(r, s)[j]
    <2> SUFFICES ASSUME NEW i \in 1 .. 3, NEW j \in 1 .. 3, r[i] > r[j]
                 PROVE  Extra(r, s)[i] >= Extra(r, s)[j]
      OBVIOUS
    <2>1. i # j
      BY SMTT(30)
    <2>. QED  BY <1>1, <1>6, <1>8, <1>9, <2>1
  <1>. QED  BY <1>6, <1>7, <1>8, <1>10, <1>11

\* The split of a positive total over three roles that are not all stopped.
LEMMA SplitOfThreeIsFair ==
    ASSUME NEW c \in [1 .. 3 -> Nat], NEW d \in Nat \ {0}, NEW t \in Nat \ {0}, t = SumOf(c),
           NEW new, new = distribute_replicas(c, d)
    PROVE  /\ DOMAIN new = 1 .. 3
           /\ SumOf(new) = d
           /\ \A i \in 1 .. 3 :
                 /\ Distance(new[i] * t, d * c[i]) < t
                 /\ c[i] = 0 => new[i] = 0
                 /\ \A j \in 1 .. 3 : c[i] > c[j] => new[i] >= new[j]
  <1>1. PICK b \in [1 .. 3 -> Nat] : b = Whole(c, d, t)
    BY SharesAreDivided
  <1>2. PICK r \in [1 .. 3 -> 0 .. t - 1] : r = Rest(c, d, t)
    BY SharesAreDivided
  <1>3. \A i \in 1 .. 3 : d * c[i] = t * b[i] + r[i]
    <2>1. \A i \in 1 .. 3 : d * c[i] = t * Whole(c, d, t)[i] + Rest(c, d, t)[i]
      BY SharesAreDivided
    <2>. QED  BY <1>1, <1>2, <2>1
  <1>4. PICK s \in Int : s = d - (b[1] + b[2] + b[3])
    BY SMTT(30)
  <1>5. s = Short(c, d, t)
    BY <1>1, <1>4 DEF Short
  <1>6. t * d = (t * b[1] + r[1]) + (t * b[2] + r[2]) + (t * b[3] + r[3])
    <2>1. PICK c1 \in Nat, c2 \in Nat, c3 \in Nat : c1 = c[1] /\ c2 = c[2] /\ c3 = c[3]
      BY SMTT(30)
    <2>2. t = c1 + c2 + c3
      BY <2>1, SumOfMap
    <2>3. t * d = d * c1 + d * c2 + d * c3
      BY <2>2, SMTT(30)
    <2>4. d * c1 = t * b[1] + r[1] /\ d * c2 = t * b[2] + r[2] /\ d * c3 = t * b[3] + r[3]
      BY <1>3, <2>1, SMTT(30)
    <2>. QED  BY <2>3, <2>4
  <1>7. /\ s \in 0 .. 2
        /\ \/ s = 0 /\ r[1] + r[2] + r[3] = 0
           \/ s = 1 /\ r[1] + r[2] + r[3] = t
           \/ s = 2 /\ r[1] + r[2] + r[3] = 2 * t
    <2>1. \/ d = b[1] + b[2] + b[3] /\ r[1] + r[2] + r[3] = 0
          \/ d = b[1] + b[2] + b[3] + 1 /\ r[1] + r[2] + r[3] = t
          \/ d = b[1] + b[2] + b[3] + 2 /\ r[1] + r[2] + r[3] = 2 * t
      BY <1>6, LeftOver, SMTT(30)
    <2>. QED  BY <1>4, <2>1, SMTT(30)
  <1>8. PICK x \in [1 .. 3 -> {0, 1}] : x = Extra(r, s)
    BY <1>7, ExtraIsFair
  <1>9. /\ x[1] + x[2] + x[3] = s
        /\ \A i \in 1 .. 3 : r[i] = 0 => x[i] = 0
        /\ \A i, j \in 1 .. 3 : r[i] > r[j] => x[i] >= x[j]
    <2>1. /\ Extra(r, s)[1] + Extra(r, s)[2] + Extra(r, s)[3] = s
          /\ \A i \in 1 .. 3 : r[i] = 0 => Extra(r, s)[i] = 0
          /\ \A i, j \in 1 .. 3 : r[i] > r[j] => Extra(r, s)[i] >= Extra(r, s)[j]
      BY <1>7, ExtraIsFair, SMTT(30)
    <2>. QED  BY <1>8, <2>1
  <1>10. new = [i \in 1 .. 3 |-> b[i] + x[i]]
    BY <1>1, <1>2, <1>5, <1>8, SplitOfThree, SMTT(30)
  <1>11. new \in [1 .. 3 -> Nat] /\ \A i \in 1 .. 3 : new[i] = b[i] + x[i]
    BY <1>10, SMTT(30)
  <1>12. SumOf(new) = d
    <2>1. SumOf(new) = new[1] + new[2] + new[3]
      BY <1>11, SumOfMap
    <2>2. new[1] = b[1] + x[1] /\ new[2] = b[2] + x[2] /\ new[3] = b[3] + x[3]
      BY <1>11, SMTT(30)
    <2>3. /\ b[1] \in Nat /\ b[2] \in Nat /\ b[3] \in Nat
          /\ x[1] \in Nat /\ x[2] \in Nat /\ x[3] \in Nat
      BY SMTT(30)
    <2>. QED  BY <1>4, <1>9, <2>1, <2>2, <2>3, SMTT(30)
  <1>13. ASSUME NEW i \in 1 .. 3 PROVE Distance(new[i] * t, d * c[i]) < t
    <2>1. PICK q \in Nat, m \in 0 .. t - 1, y \in {0, 1} : q = b[i] /\ m = r[i] /\ y = x[i]
      OBVIOUS
    <2>2. PICK p \in Nat : p = d * c[i]
      BY SMTT(30)
    <2>3. p = t * q + m /\ (m = 0 => y = 0) /\ new[i] = q + y
      BY <1>3, <1>9, <1>11, <2>1, <2>2
    <2>4. Distance((q + y) * t, p) < t
      BY <2>3, PartIsClose
    <2>. QED  BY <2>2, <2>3, <2>4
  <1>14. ASSUME NEW i \in 1 .. 3, c[i] = 0 PROVE new[i] = 0
    <2>1. PICK q \in Nat, m \in 0 .. t - 1, y \in {0, 1} : q = b[i] /\ m = r[i] /\ y = x[i]
      OBVIOUS
    <2>2. d * c[i] = 0
      BY <1>14, SMTT(30)
    <2>3. t * q + m = 0
      BY <1>3, <2>1, <2>2
    <2>4. t * q >= q /\ t * q \in Nat
      BY SMTT(30)
    <2>5. m = 0 /\ q = 0
      BY <2>3, <2>4, SMTT(30)
    <2>6. y = 0
      BY <1>9, <2>1, <2>5
    <2>7. new[i] = q + y
      BY <1>11, <2>1
    <2>. QED  BY <2>5, <2>6, <2>7, SMTT(30)
  <1>15. ASSUME NEW i \in 1 .. 3, NEW j \in 1 .. 3, c[i] > c[j] PROVE new[i] >= new[j]
    <2>1. PICK q \in Nat, m \in 0 .. t - 1, y \in {0, 1} : q = b[i] /\ m = r[i] /\ y = x[i]
      OBVIOUS
    <2>2. PICK u \in Nat, n \in 0 .. t - 1, z \in {0, 1} : u = b[j] /\ n = r[j] /\ z = x[j]
      OBVIOUS
    <2>3. d * c[i] > d * c[j]
      <3>1. PICK ci \in Nat, cj \in Nat : ci = c[i] /\ cj = c[j]
        OBVIOUS
      <3>2. d * ci > d * cj
        BY <1>15, <3>1, SMTT(30)
      <3>. QED  BY <3>1, <3>2
    <2>4. t * q + m > t * u + n
      BY <1>3, <2>1, <2>2, <2>3
    <2>5. m > n => y >= z
      BY <1>9, <2>1, <2>2
    <2>6. q >= u
      <3>1. SUFFICES ASSUME q + 1 <= u PROVE FALSE
        BY SMTT(30)
      <3>2. t * (q + 1) <= t * u
        BY <3>1, SMTT(30)
      <3>3. t * (q + 1) = t * q + t
        BY SMTT(30)
      <3>. QED  BY <2>4, <3>2, <3>3, SMTT(30)
    <2>7. q + y >= u + z
      BY <2>4, <2>5, <2>6, SMTT(30)
    <2>. QED  BY <1>11, <2>1, <2>2, <2>7
  <1>. QED  BY <1>11, <1>12, <1>13, <1>14, <1>15

\* The largest-remainder split hands out exactly the desired total, keeps every
\* role within a replica of its exact share, keeps a stopped role stopped and
\* never ranks a smaller role above a larger one (distribute_replicas): for any
\* number of replicas in three roles and any desired total.
THEOREM SplitIsAlwaysFair == MathSpec => []SplitIsFair
  <1>1. MathInit => SplitIsFair
    <2> SUFFICES ASSUME MathInit, input.of = "split", SumOf(input.current) > 0 PROVE SplitIsFair
      BY DEF SplitIsFair
    <2>1. PICK c \in [1 .. 3 -> 0 .. MaxReplicas], d \in 0 .. 2 * MaxReplicas :
              input = [of |-> "split", current |-> c, desired |-> d]
      BY SMTT(30) DEF MathInit
    <2>2. input.current = c /\ input.desired = d
      BY <2>1
    <2>3. c \in [1 .. 3 -> Nat] /\ d \in Nat
      BY MathAssumption, SMTT(30)
    <2>4. PICK t \in Nat : t = c[1] + c[2] + c[3]
      BY <2>3, SMTT(30)
    <2>5. DOMAIN c = 1 .. 3 /\ Len(c) = 3
      BY SMTT(30)
    <2>6. SumOf(c) = t
      BY <2>3, <2>4, <2>5, SumOfThree, SMTT(30)
    <2>7. t \in Nat \ {0}
      BY <2>2, <2>4, <2>6, SMTT(30)
    <2>8. PICK new : new = distribute_replicas(c, d)
      OBVIOUS
    <2>9. /\ DOMAIN new = 1 .. 3
          /\ SumOf(new) = d
          /\ \A i \in 1 .. 3 :
                /\ Distance(new[i] * t, d * c[i]) < t
                /\ c[i] = 0 => new[i] = 0
                /\ \A j \in 1 .. 3 : c[i] > c[j] => new[i] >= new[j]
      <3>1. CASE d = 0
        <4>1. new = [i \in 1 .. 3 |-> 0]
          BY <2>5, <2>8, <3>1 DEF distribute_replicas
        <4>2. SumOf(new) = 0
          BY <4>1, SumOfThree, SMTT(30)
        <4>. QED  BY <2>3, <2>7, <3>1, <4>1, <4>2, SMTT(30) DEF Distance
      <3>2. CASE d # 0
        BY <2>3, <2>6, <2>7, <2>8, <3>2, SplitOfThreeIsFair, SMTT(30)
      <3>. QED  BY <3>1, <3>2
    <2>. QED  BY <2>2, <2>6, <2>8, <2>9 DEF SplitIsFair
  <1>2. SplitIsFair /\ [MathNext]_input => SplitIsFair'
    BY DEF MathNext, SplitIsFair
  <1>. QED  BY <1>1, <1>2, PTL DEF MathSpec

-----------------------------------------------------------------------------
(* The stabilization window of the horizontal autoscaler.                  *)

\* No evaluation is later than the clock, and the one under way is the latest.
HpaIsLatest ==
    /\ {"at", "clean", "now"} \subseteq DOMAIN hpa
    /\ hpa.now \in Nat /\ hpa.now <= tick
    /\ \A n \in Server : last_busy[n] <= hpa.now

MarkerInv ==
    /\ tick \in Nat /\ head \in Server
    /\ scale_down_since \in [Server -> Nat \cup {Nothing}]
    /\ last_busy \in [Server -> Nat]
    /\ \A n \in Server : last_busy[n] <= tick
    /\ hpa.at # "idle" => HpaIsLatest
    /\ MarkerMeansSustained

\* The clock is at zero.
LEMMA MarkerInitHolds == AutoscalerInit => MarkerInv
  <1> SUFFICES ASSUME AutoscalerInit PROVE MarkerInv
    OBVIOUS
  <1>1. head \in Server /\ tick = 0 /\ scale_down_since = [n \in Server |-> Nothing]
        /\ last_busy = [n \in Server |-> 0] /\ hpa.at = "idle"
    BY PolicyAssumption DEF AutoscalerInit, Idle1
  <1>. QED  BY <1>1, SMTT(30) DEF MarkerInv, MarkerMeansSustained

\* Steps of the others, which at most mark the evaluation as overtaken or end it.
LEMMA OthersKeepMarker ==
    ASSUME MarkerInv, UNCHANGED <<tick, head, scale_down_since, last_busy>>, hpa' \in {hpa, Overtaken(hpa), Idle1}
    PROVE  MarkerInv'
  <1>1. CASE hpa' = hpa
    BY <1>1 DEF MarkerInv, MarkerMeansSustained, HpaIsLatest
  <1>2. CASE hpa' = Idle1
    <2>1. hpa'.at = "idle"
      BY <1>2 DEF Idle1
    <2>. QED  BY <2>1 DEF MarkerInv, MarkerMeansSustained
  <1>3. CASE hpa.at # "idle" /\ hpa' = [hpa EXCEPT !.clean = FALSE]
    <2>1. DOMAIN hpa' = DOMAIN hpa /\ hpa'.at = hpa.at /\ hpa'.now = hpa.now
      BY <1>3 DEF MarkerInv, HpaIsLatest
    <2>. QED  BY <1>3, <2>1 DEF MarkerInv, MarkerMeansSustained, HpaIsLatest
  <1>. QED  BY <1>1, <1>2, <1>3 DEF Overtaken

\* An evaluation starts.
LEMMA EvaluateKeepsMarker ==
    ASSUME MarkerInv, hpa_evaluate
    PROVE  MarkerInv'
  <1>1. /\ DOMAIN hpa' = {"at", "clean", "spec", "pods", "now"} /\ hpa'.at = "listed" /\ hpa'.now = tick
        /\ UNCHANGED <<tick, head, scale_down_since, last_busy>>
    BY DEF hpa_evaluate
  <1>. QED  BY <1>1, SMTT(30) DEF MarkerInv, MarkerMeansSustained, HpaIsLatest

\* The evaluation sets, keeps or clears the marker, and proposes a scale-down
\* only when the marker is a window old.
LEMMA EvaluatedKeepsMarker ==
    ASSUME MarkerInv, hpa_evaluate_workload
    PROVE  MarkerInv'
  <1>1. CASE hpa' = Idle1 /\ UNCHANGED <<scale_down_since, last_busy>>
    <2>1. UNCHANGED <<tick, head>>
      BY DEF hpa_evaluate_workload
    <2>. QED  BY <1>1, <2>1, OthersKeepMarker
  <1>2. CASE ~(hpa' = Idle1 /\ UNCHANGED <<scale_down_since, last_busy>>)
    <2>1. PICK since : since = HpaMarker(head, hpa)
      OBVIOUS
    <2>2. PICK desired : desired = Desired(hpa.spec)
      OBVIOUS
    <2>3. PICK from : from = hpa.spec.replicas
      OBVIOUS
    <2>4. hpa.at = "listed" /\ HpaIsLatest
      BY DEF hpa_evaluate_workload, MarkerInv
    <2>5. PICK instant \in Nat : instant = hpa.now
      BY <2>4 DEF HpaIsLatest
    <2>6. /\ scale_down_since' = [scale_down_since EXCEPT ![head] = since]
          /\ last_busy' = [last_busy EXCEPT ![head] = IF since = Nothing THEN instant ELSE last_busy[head]]
          /\ UNCHANGED <<tick, head>>
      BY <1>2, <2>1, <2>5 DEF hpa_evaluate_workload, MarkerInv
    <2>7. \/ hpa' = Idle1
          \/ /\ DOMAIN hpa' = {"at", "clean", "now", "command"} /\ hpa'.at = "proposed" /\ hpa'.now = instant
             /\ ~within_deadband(from, desired, DEADBAND_PERCENT)
             /\ desired < from => ~(instant - since < Hpa.window)
      BY <1>2, <2>1, <2>2, <2>3, <2>5, SMTT(30) DEF hpa_evaluate_workload
    <2>8. since = IF desired < from /\ ~within_deadband(from, desired, DEADBAND_PERCENT)
                  THEN IF scale_down_since[head] = Nothing THEN instant ELSE scale_down_since[head]
                  ELSE Nothing
      BY <2>1, <2>2, <2>3, <2>5 DEF HpaMarker
    <2>9. head \in Server /\ scale_down_since[head] \in Nat \cup {Nothing} /\ last_busy[head] \in Nat /\ last_busy[head] <= instant
      BY <2>4, <2>5 DEF MarkerInv, HpaIsLatest
    <2>10. since \in Nat \cup {Nothing} /\ (since # Nothing => last_busy[head] <= since)
      BY <2>8, <2>9 DEF MarkerInv, MarkerMeansSustained
    <2>11. /\ scale_down_since' \in [Server -> Nat \cup {Nothing}] /\ last_busy' \in [Server -> Nat]
           /\ \A n \in Server : last_busy'[n] <= instant /\ last_busy'[n] <= tick
           /\ \A n \in Server : scale_down_since'[n] # Nothing => last_busy'[n] <= scale_down_since'[n]
      BY <2>4, <2>5, <2>6, <2>9, <2>10, SMTT(30) DEF MarkerInv, MarkerMeansSustained, HpaIsLatest
    <2>12. CASE hpa' = Idle1
      <3>1. hpa'.at = "idle"
        BY <2>12 DEF Idle1
      <3>. QED  BY <2>6, <2>11, <3>1 DEF MarkerInv, MarkerMeansSustained
    <2>13. CASE hpa' # Idle1
      <3>1. scale_down_since'[head] = since /\ (since # Nothing => last_busy'[head] = last_busy[head])
        BY <2>6, <2>9 DEF MarkerInv
      <3>2. since # Nothing => last_busy'[head] <= instant - Hpa.window
        <4> SUFFICES ASSUME since # Nothing PROVE last_busy[head] <= instant - Hpa.window
          BY <3>1
        <4>1. desired < from /\ since \in Nat /\ last_busy[head] <= since
          BY <2>8, <2>10
        <4>2. ~(instant - since < Hpa.window)
          BY <2>7, <2>13, <4>1
        <4>. QED  BY <2>9, <4>1, <4>2, PolicyAssumption, SMTT(30)
      <3>3. HpaIsLatest'
        BY <2>4, <2>5, <2>6, <2>7, <2>11, <2>13 DEF HpaIsLatest
      <3>4. MarkerMeansSustained'
        BY <2>6, <2>7, <2>11, <2>13, <3>1, <3>2 DEF MarkerMeansSustained
      <3>. QED  BY <2>6, <2>11, <3>3, <3>4 DEF MarkerInv
    <2>. QED  BY <2>12, <2>13
  <1>. QED  BY <1>1, <1>2

\* The marker goes once the scaled spec is applied.
LEMMA ScaleKeepsMarker ==
    ASSUME MarkerInv, hpa_propose_scale
    PROVE  MarkerInv'
  <1>1. /\ scale_down_since' = [scale_down_since EXCEPT ![head] = Nothing]
        /\ hpa' = Idle1 /\ UNCHANGED <<tick, head, last_busy>>
    BY DEF hpa_propose_scale
  <1>2. hpa'.at = "idle"
    BY <1>1 DEF Idle1
  <1>. QED  BY <1>1, <1>2 DEF MarkerInv, MarkerMeansSustained

\* Whenever a marker is set, every evaluation of its node since then found the
\* load low, and no scale-down is proposed before that has gone on for a window
\* (evaluate_workload, scale_down_since): for any number of leaders, for every
\* policy, and although the markers outlive the leadership of their node.
THEOREM LowLoadIsSustained == AutoscalerSpec => []MarkerMeansSustained
  <1>1. MarkerInv /\ [AutoscalerNext]_scaleVars => MarkerInv'
    <2> SUFFICES ASSUME MarkerInv, [AutoscalerNext]_scaleVars PROVE MarkerInv'
      OBVIOUS
    <2>1. CASE UNCHANGED scaleVars
      BY <2>1, OthersKeepMarker DEF scaleVars
    <2>2. CASE HpaTask
      BY <2>2, EvaluateKeepsMarker, EvaluatedKeepsMarker, ScaleKeepsMarker DEF HpaTask
    <2>3. CASE VpaTask
      <3>1. UNCHANGED <<tick, head, scale_down_since, last_busy>> /\ hpa' \in {hpa, Overtaken(hpa)}
        BY <2>3 DEF VpaTask, vpa_evaluate, vpa_evaluate_workload, vpa_decide, vpa_write, vpa_remove_stale_pod, Unwritten
      <3>. QED  BY <3>1, OthersKeepMarker
    <2>4. CASE Metrics(Load \cup {Nothing}, Load \cup {Nothing})
      <3>1. UNCHANGED <<tick, head, scale_down_since, last_busy, hpa>>
        BY <2>4 DEF Metrics, Observe
      <3>. QED  BY <3>1, OthersKeepMarker
    <2>5. CASE \E o \in Ordinal : PlacePod(o)
      <3>1. UNCHANGED <<tick, head, scale_down_since, last_busy, hpa>>
        BY <2>5 DEF PlacePod
      <3>. QED  BY <3>1, OthersKeepMarker
    <2>6. CASE Elapse
      <3>1. tick' = tick + 1 /\ UNCHANGED <<head, scale_down_since, last_busy, hpa>>
        BY <2>6 DEF Elapse
      <3>. QED  BY <3>1, SMTT(30) DEF MarkerInv, MarkerMeansSustained, HpaIsLatest
    <2>7. ASSUME NEW r \in 0 .. MaxReplicas, NEW prune \in BOOLEAN, OperatorWrites(r, prune) PROVE MarkerInv'
      <3>1. UNCHANGED <<tick, head, scale_down_since, last_busy>> /\ hpa' = Overtaken(hpa)
        BY <2>7 DEF OperatorWrites
      <3>. QED  BY <3>1, OthersKeepMarker
    <2>8. ASSUME NEW n \in Server, NEW kept, ChangeLeader(n, kept) PROVE MarkerInv'
      <3>1. head' = n /\ hpa' = Idle1 /\ UNCHANGED <<tick, scale_down_since, last_busy>>
        BY <2>8 DEF ChangeLeader
      <3>2. hpa'.at = "idle"
        BY <3>1 DEF Idle1
      <3>. QED  BY <3>1, <3>2 DEF MarkerInv, MarkerMeansSustained
    <2>9. CASE ApplyCommitted
      <3>1. UNCHANGED <<tick, head, scale_down_since, last_busy>> /\ hpa' = Overtaken(hpa)
        BY <2>9 DEF ApplyCommitted, ApplyInherited
      <3>. QED  BY <3>1, OthersKeepMarker
    <2>. QED
      BY <2>1, <2>2, <2>3, <2>4, <2>5, <2>6, <2>7, <2>8, <2>9 DEF AutoscalerNext, PlacesAndTime, Interference
  <1>2. MarkerInv => MarkerMeansSustained
    BY DEF MarkerInv
  <1>. QED  BY <1>1, <1>2, MarkerInitHolds, PTL DEF AutoscalerSpec

-----------------------------------------------------------------------------
(* What the autoscalers write.                                             *)

\* The sum over one role, whose definition is recursive.
LEMMA SumOfOne ==
    ASSUME NEW r \in Nat
    PROVE  SumOf(<<r>>) = r
  <1>. DEFINE s == <<r>>
              sums(f) == f = [i \in 0 .. Len(s) |-> IF i = 0 THEN 0 ELSE f[i - 1] + s[i]]
              f0 == [i \in 0 .. 1 |-> IF i = 0 THEN 0 ELSE r]
              acc == CHOOSE f : sums(f)
  <1>1. Len(s) = 1 /\ s[1] = r
    OBVIOUS
  <1>2. \A i \in 0 .. 1 : f0[i] = IF i = 0 THEN 0 ELSE f0[i - 1] + s[i]
    BY <1>1, SMTT(30)
  <1>3. sums(f0)
    BY <1>1, <1>2
  <1>4. sums(acc)
    BY <1>3
  <1>5. SumOf(s) = acc[Len(s)]
    BY DEF SumOf
  <1>. HIDE DEF acc
  <1>6. acc = [i \in 0 .. 1 |-> IF i = 0 THEN 0 ELSE acc[i - 1] + s[i]]
    BY <1>1, <1>4
  <1>7. acc[0] = 0 /\ acc[1] = acc[0] + s[1]
    BY <1>6, SMTT(30)
  <1>. QED  BY <1>1, <1>5, <1>7, SMTT(30)

\* A workload with one role: that role gets the whole total.
LEMMA OneRoleGetsAll ==
    ASSUME NEW r \in Nat \ {0}, NEW d \in Nat \ {0}
    PROVE  distribute_replicas(<<r>>, d)[1] = d
  <1>. DEFINE current == <<r>>
              total == SumOf(current)
              base == [i \in DOMAIN current |-> (d * current[i]) \div total]
              remainder == [i \in DOMAIN current |-> (d * current[i]) % total]
              shortfall == d - SumOf(base)
              ahead(i) == {j \in DOMAIN current :
                              \/ remainder[j] > remainder[i]
                              \/ remainder[j] = remainder[i] /\ j < i}
  <1>1. total = r /\ DOMAIN current = {1} /\ current[1] = r
    BY SumOfOne, SMTT(30)
  <1>2. (d * r) \div r = d
    BY SMTT(30)
  <1>3. base[1] = d /\ DOMAIN base = {1}
    BY <1>1, <1>2
  <1>4. base = <<d>>
    BY <1>1, <1>3, SMTT(30)
  <1>5. shortfall = 0
    BY <1>4, SumOfOne, SMTT(30)
  <1>6. ahead(1) = {}
    <2>1. remainder[1] \in Int
      BY <1>1, SMTT(30)
    <2>. QED  BY <1>1, <2>1, SMTT(30)
  <1>7. Cardinality(ahead(1)) = 0
    BY <1>6, FS_EmptySet
  <1>8. distribute_replicas(current, d) = [i \in DOMAIN current |->
                 base[i] + (IF Cardinality(ahead(i)) < shortfall THEN 1 ELSE 0)]
    BY <1>1 DEF distribute_replicas
  <1>9. distribute_replicas(current, d)[1] = base[1] + (IF Cardinality(ahead(1)) < shortfall THEN 1 ELSE 0)
    BY <1>8, <1>1
  <1>. QED  BY <1>3, <1>5, <1>7, <1>9, SMTT(30)

\* The desired total of a workload that is not stopped, with load and a valid
\* policy, is within the policy's bounds.
LEMMA DesiredInBounds ==
    ASSUME NEW s, s.replicas \in Nat \ {0}, load \in Nat,
           Hpa.target # 0, AtLeastOne(Hpa.min) <= Hpa.max
    PROVE  Desired(s) \in AtLeastOne(Hpa.min) .. Hpa.max
  <1>. DEFINE lo == AtLeastOne(Hpa.min)
              signal == [avg |-> load, target |-> Hpa.target]
              raw == (s.replicas * load + Hpa.target - 1) \div Hpa.target
              d == Clamp(raw, lo, Hpa.max)
              wanted == {compute_desired_for_metric(s.replicas, x.avg, x.target, lo, Hpa.max) : x \in {signal}} \ {Nothing}
  <1>1. lo \in Nat /\ Hpa.max \in Nat /\ Hpa.target \in Nat \ {0}
    BY PolicyAssumption DEF AtLeastOne
  <1>2. raw \in Int
    <2>1. s.replicas * load \in Nat
      BY SMTT(30)
    <2>. HIDE DEF raw
    <2>. QED  BY <1>1, <2>1, SMTT(30) DEF raw
  <1>. HIDE DEF raw
  <1>3. d \in lo .. Hpa.max
    BY <1>1, <1>2, SMTT(30) DEF Clamp
  <1>4. compute_desired_for_metric(s.replicas, load, Hpa.target, lo, Hpa.max) = d
    BY <1>1 DEF compute_desired_for_metric, raw
  <1>. HIDE DEF d, lo
  <1>5. wanted = {d}
    BY <1>3, <1>4, <1>1, MathAssumption, SMTT(30)
  <1>6. \A x \in {d} : \A y \in {d} : y <= x
    BY <1>1, <1>3, SMTT(30)
  <1>7. Desired(s) = CHOOSE x \in wanted : \A y \in wanted : y <= x
    BY <1>5 DEF Desired, compute_desired_total, lo
  <1>8. Desired(s) = d
    BY <1>5, <1>6, <1>7, SMTT(30)
  <1>. QED  BY <1>3, <1>8 DEF lo


\* A recommended footprint is a number.
LEMMA NewSizeIsNumber ==
    ASSUME NEW s, s.size \in Nat, usage \in Nat
    PROVE  NewSize(s) \in Nat
  <1>. DEFINE atTarget == (usage * 100) \div Vpa.percent
              units == (atTarget + Milli - 1) \div Milli
              lo == AtLeastOne(Vpa.min)
              hi == AtLeastOne(Vpa.max)
  <1>1. atTarget \in Int
    BY PolicyAssumption, SMTT(30)
  <1>. HIDE DEF atTarget
  <1>2. units \in Int
    BY <1>1, MathAssumption, SMTT(30)
  <1>. HIDE DEF units
  <1>3. lo \in Nat /\ hi \in Nat
    BY PolicyAssumption DEF AtLeastOne
  <1>. HIDE DEF lo, hi
  <1>4. Clamp(units, lo, hi) \in Nat
    BY <1>2, <1>3, SMTT(30) DEF Clamp
  <1>5. recommended_footprint(usage, Vpa.percent, Vpa.min, Vpa.max) \in Nat
    BY <1>4 DEF recommended_footprint, units, atTarget, lo, hi
  <1>. QED  BY <1>5 DEF NewSize

\* What a budget asks for is a number, or cannot be resolved.
LEMMA MinAvailableIsNumber ==
    ASSUME NEW n \in Nat
    PROVE  resolve_min_available(RoleBudget, n) \in Int \cup {Nothing}
  <1>1. /\ RoleBudget.kind \in {"min_count", "max_count", "min_percent", "max_percent"}
        /\ RoleBudget.value \in Nat
    <2>1. \/ RoleBudget \in [kind : {"min_count", "max_count"}, value : 0 .. MaxReplicas]
          \/ RoleBudget \in [kind : {"min_percent", "max_percent"}, value : Percent]
      BY PolicyAssumption DEF Budget
    <2>2. RoleBudget.kind \in {"min_count", "max_count", "min_percent", "max_percent"}
      BY <2>1
    <2>3. RoleBudget.value \in 0 .. MaxReplicas \/ RoleBudget.value \in Percent
      BY <2>1
    <2>4. Percent \subseteq Nat /\ 0 .. MaxReplicas \subseteq Nat
      BY MathAssumption, SMTT(30)
    <2>5. RoleBudget.value \in Nat
      BY <2>3, <2>4
    <2>. QED  BY <2>2, <2>5
  <1>2. PICK v \in Nat : v = RoleBudget.value
    BY <1>1
  <1>3. PICK share \in Nat : share = n * v
    BY SMTT(30)
  <1>4. (share + 99) \div 100 \in Int /\ share \div 100 \in Int
    BY SMTT(30)
  <1>5. Clamp(n - v, 0, n) \in Int /\ Clamp(n - share \div 100, 0, n) \in Int
    BY <1>4, SMTT(30) DEF Clamp
  <1>. QED  BY <1>1, <1>2, <1>3, <1>4, <1>5, SMTT(30) DEF resolve_min_available

\* What the guard allows it allows when there are more healthy pods.
LEMMA GuardIsMonotone ==
    ASSUME NEW n \in Nat, NEW h \in Nat, NEW g \in Nat, NEW k \in Nat, h <= g,
           allow_disruption(RoleBudget, n, h, k)
    PROVE  allow_disruption(RoleBudget, n, g, k)
  <1>1. PICK low : low = resolve_min_available(RoleBudget, n)
    OBVIOUS
  <1>2. low # Nothing /\ low \in Int /\ Clamp(h - k, 0, h) >= low
    BY <1>1, MinAvailableIsNumber DEF allow_disruption
  <1>3. Clamp(g - k, 0, g) >= low
    BY <1>2, SMTT(30) DEF Clamp
  <1>. QED  BY <1>1, <1>2, <1>3 DEF allow_disruption

\* The ordinals with a pod.
Live == {o \in Ordinal : placed[o] # Nothing}

\* The guard counts the ordinals with a pod.
LEMMA LiveIsFinite == IsFiniteSet(Live) /\ Healthy = Cardinality(Live) /\ Healthy \in Nat
  <1>1. IsFiniteSet(Ordinal)
    BY MathAssumption, FS_Interval, SMTT(30) DEF Ordinal
  <1>2. IsFiniteSet(Live)
    BY <1>1, FS_Subset DEF Live
  <1>. QED  BY <1>2, FS_CardinalityType DEF Healthy, Live

\* The same in the next state.
LEMMA LiveNextIsFinite == IsFiniteSet(Live') /\ Healthy' = Cardinality(Live') /\ Healthy' \in Nat
  <1>1. IsFiniteSet(Ordinal)
    BY MathAssumption, FS_Interval, SMTT(30) DEF Ordinal
  <1>2. IsFiniteSet(Live')
    BY <1>1, FS_Subset DEF Live
  <1>. QED  BY <1>2, FS_CardinalityType DEF Healthy, Live

\* More pods are not fewer to count.
LEMMA LiveGrows ==
    ASSUME Live \subseteq Live'
    PROVE  Healthy <= Healthy'
  BY LiveIsFinite, LiveNextIsFinite, FS_Subset

SpecFields == {"replicas", "size", "rev"}
IsSpec(s) == DOMAIN s = SpecFields /\ s.replicas \in Nat /\ s.size \in Nat
WritesSpec(c) == c.cmd \in {"scale", "resize"} => IsSpec(c.new)

\* The guard would let so many pods go now.
MayLose(k) == allow_disruption(RoleBudget, spec.replicas, Healthy, k)

\* The command the horizontal autoscaler waits for changes the replicas alone,
\* within bounds, and removes no more pods than the guard lets go.
ScaleIsExact ==
    /\ hpa.command.new.size = spec.size /\ hpa.command.new.rev = spec.rev
    /\ hpa.command.new.replicas \in AtLeastOne(Hpa.min) .. Hpa.max
    /\ hpa.command.new.replicas < spec.replicas => MayLose(spec.replicas - hpa.command.new.replicas)

HpaIsRight ==
    /\ hpa.at \in {"idle", "listed", "proposed"}
    /\ hpa.at # "idle" => {"at", "clean"} \subseteq DOMAIN hpa
    /\ hpa.at = "listed" => IsSpec(hpa.spec) /\ (hpa.clean => hpa.spec = spec)
    /\ hpa.at = "proposed" =>
          /\ hpa.command.cmd = "scale" /\ IsSpec(hpa.command.new)
          /\ hpa.clean => ScaleIsExact

\* The resize the vertical autoscaler waits for changes the size alone, within
\* the quota when it grows.
ResizeIsExact ==
    /\ vpa.command.new.replicas = spec.replicas /\ vpa.command.new.rev = spec.rev
    /\ vpa.command.new.size > spec.size => vpa.command.new.size * vpa.command.new.replicas <= MaxUnits

VpaReadIsCurrent ==
    /\ vpa.at \in {"listed", "decide"} => vpa.spec = spec
    /\ vpa.at = "proposed" =>
          /\ vpa.command.cmd = "recommend" => vpa.spec = spec
          /\ vpa.command.cmd = "resize" => ResizeIsExact
          /\ vpa.command.cmd # "recommend" => MayLose(1)

VpaIsRight ==
    /\ vpa.at \in {"idle", "listed", "decide", "proposed"}
    /\ vpa.at # "idle" => {"at", "clean"} \subseteq DOMAIN vpa /\ IsSpec(vpa.spec)
    /\ vpa.at \in {"decide", "proposed"} => "command" \in DOMAIN vpa /\ vpa.size \in Nat
    /\ vpa.at = "proposed" =>
          /\ vpa.command.cmd \in {"recommend", "resize", "free", "remove"}
          /\ vpa.command.cmd = "resize" => IsSpec(vpa.command.new)
    /\ vpa.at # "idle" /\ vpa.clean => VpaReadIsCurrent

StoreIsTyped ==
    /\ IsSpec(spec)
    /\ placed \in [Ordinal -> Nat \cup {Nothing}]
    /\ load \in Nat \cup {Nothing} /\ usage \in Nat \cup {Nothing}
    /\ \A c \in inherited : WritesSpec(c)

ScalerInv == StoreIsTyped /\ HpaIsRight /\ VpaIsRight

\* The stored spec asks for the maximum, and no task is under way.
LEMMA ScalerInitHolds == AutoscalerInit => ScalerInv
  <1> SUFFICES ASSUME AutoscalerInit PROVE ScalerInv
    OBVIOUS
  <1>1. PICK big : big = CHOOSE s \in Size : \A z \in Size : z <= s
    OBVIOUS
  <1>2. big \in Nat
    <2>1. big \in Size
      BY <1>1, PolicyAssumption
    <2>. QED  BY <2>1, PolicyAssumption
  <1>3. spec = [replicas |-> Hpa.max, size |-> big, rev |-> 0]
    BY <1>1 DEF AutoscalerInit
  <1>4. Hpa.max \in Nat
    BY PolicyAssumption
  <1>5. IsSpec(spec) /\ spec.size = big
    BY <1>2, <1>3, <1>4 DEF IsSpec, SpecFields
  <1>6. placed \in [Ordinal -> Nat \cup {Nothing}]
    BY <1>2, <1>5 DEF AutoscalerInit
  <1>7. StoreIsTyped
    BY <1>5, <1>6 DEF AutoscalerInit, StoreIsTyped
  <1>8. hpa.at = "idle" /\ vpa.at = "idle"
    BY DEF AutoscalerInit, Idle1
  <1>. QED  BY <1>7, <1>8 DEF ScalerInv, HpaIsRight, VpaIsRight

\* What applying a command keeps typed.
LEMMA AppliedIsTyped ==
    ASSUME StoreIsTyped, NEW c, WritesSpec(c), Apply1(c)
    PROVE  IsSpec(spec') /\ placed' \in [Ordinal -> Nat \cup {Nothing}]
  <1>1. CASE c.cmd = "scale" /\ ScaleWorkload1(c.new)
    BY <1>1 DEF StoreIsTyped, WritesSpec, ScaleWorkload1
  <1>2. CASE c.cmd = "resize" /\ ResizeWorkload1(c.new)
    BY <1>2 DEF StoreIsTyped, WritesSpec, ResizeWorkload1
  <1>3. CASE FreeSlot(c.ord)
    BY <1>3 DEF StoreIsTyped, FreeSlot
  <1>4. CASE RemovePod(c.ord)
    BY <1>4 DEF StoreIsTyped, RemovePod
  <1>5. CASE UNCHANGED <<spec, ordinal, placed>>
    BY <1>5 DEF StoreIsTyped
  <1>. QED  BY <1>1, <1>2, <1>3, <1>4, <1>5 DEF Apply1

\* The guard's answer stands while the replicas stay and no pod goes.
LEMMA MayLoseStays ==
    ASSUME StoreIsTyped, NEW k \in Nat, MayLose(k), spec'.replicas = spec.replicas, Healthy <= Healthy'
    PROVE  allow_disruption(RoleBudget, spec'.replicas, Healthy', k)
  BY LiveIsFinite, LiveNextIsFinite, GuardIsMonotone DEF StoreIsTyped, IsSpec, MayLose

\* Steps of others: what they write overtakes the task, and without a write no
\* pod goes.
LEMMA OthersKeepHpa ==
    ASSUME StoreIsTyped, HpaIsRight,
           \/ hpa' = hpa /\ spec' = spec /\ Healthy <= Healthy'
           \/ hpa' \in {Overtaken(hpa), Idle1}
    PROVE  HpaIsRight'
  <1>1. CASE hpa' = Idle1
    <2>1. hpa'.at = "idle"
      BY <1>1 DEF Idle1
    <2>. QED  BY <2>1 DEF HpaIsRight
  <1>2. CASE hpa' = hpa /\ spec' = spec /\ Healthy <= Healthy'
    <2>1. ASSUME hpa.at = "proposed", hpa.clean PROVE ScaleIsExact'
      <3>1. ScaleIsExact /\ IsSpec(hpa.command.new)
        BY <2>1 DEF HpaIsRight
      <3>2. ASSUME hpa.command.new.replicas < spec.replicas
            PROVE  allow_disruption(RoleBudget, spec'.replicas, Healthy', spec.replicas - hpa.command.new.replicas)
        <4>1. spec.replicas - hpa.command.new.replicas \in Nat
          BY <3>1, <3>2, SMTT(30) DEF StoreIsTyped, IsSpec
        <4>. QED  BY <1>2, <3>1, <3>2, <4>1, MayLoseStays DEF ScaleIsExact
      <3>. QED  BY <1>2, <3>1, <3>2 DEF ScaleIsExact, MayLose
    <2>. QED  BY <1>2, <2>1 DEF HpaIsRight
  <1>3. CASE hpa.at # "idle" /\ hpa' = [hpa EXCEPT !.clean = FALSE]
    <2>1. DOMAIN hpa' = DOMAIN hpa /\ hpa'.at = hpa.at /\ hpa'.spec = hpa.spec /\ hpa'.command = hpa.command /\ ~hpa'.clean
      BY <1>3, SMTT(30) DEF HpaIsRight
    <2>. QED  BY <1>3, <2>1 DEF HpaIsRight
  <1>4. CASE hpa.at = "idle" /\ hpa' = hpa
    BY <1>4 DEF HpaIsRight
  <1>. QED  BY <1>1, <1>2, <1>3, <1>4 DEF Overtaken

\* What others do leaves a vertical evaluation right or marks it overtaken.
LEMMA OthersKeepVpa ==
    ASSUME StoreIsTyped, VpaIsRight,
           \/ vpa' = vpa /\ spec' = spec /\ Healthy <= Healthy'
           \/ vpa' \in {Overtaken(vpa), Idle1}
    PROVE  VpaIsRight'
  <1>1. CASE vpa' = Idle1
    <2>1. vpa'.at = "idle"
      BY <1>1 DEF Idle1
    <2>. QED  BY <2>1 DEF VpaIsRight
  <1>2. CASE vpa' = vpa /\ spec' = spec /\ Healthy <= Healthy'
    <2>1. ASSUME VpaReadIsCurrent PROVE VpaReadIsCurrent'
      <3>1. MayLose(1) => MayLose(1)'
        BY <1>2, MayLoseStays DEF MayLose
      <3>2. ResizeIsExact => ResizeIsExact'
        BY <1>2 DEF ResizeIsExact
      <3>. QED  BY <1>2, <2>1, <3>1, <3>2 DEF VpaReadIsCurrent
    <2>. QED  BY <1>2, <2>1 DEF VpaIsRight
  <1>3. CASE vpa.at # "idle" /\ vpa' = [vpa EXCEPT !.clean = FALSE]
    <2>1. /\ DOMAIN vpa' = DOMAIN vpa /\ vpa'.at = vpa.at /\ vpa'.spec = vpa.spec
          /\ vpa'.command = vpa.command /\ vpa'.size = vpa.size /\ ~vpa'.clean
      BY <1>3, SMTT(30) DEF VpaIsRight
    <2>. QED  BY <1>3, <2>1 DEF VpaIsRight
  <1>4. CASE vpa.at = "idle" /\ vpa' = vpa
    BY <1>4 DEF VpaIsRight
  <1>. QED  BY <1>1, <1>2, <1>3, <1>4 DEF Overtaken


\* The horizontal autoscaler decides: what it proposes is its reading with the
\* desired replicas, and the guard has been asked on the storage of the moment.
LEMMA DecidedHpaIsRight ==
    ASSUME ScalerInv, hpa_evaluate_workload
    PROVE  HpaIsRight'
  <1>1. CASE hpa' = Idle1
    BY <1>1, OthersKeepHpa DEF ScalerInv
  <1>2. CASE hpa' # Idle1
    <2>1. PICK d : d = Desired(hpa.spec)
      OBVIOUS
    <2>2. PICK new : new = Scaled(hpa.spec, d)
      OBVIOUS
    <2>3. /\ hpa.at = "listed" /\ ~NoSignal(hpa) /\ UNCHANGED <<spec, placed>>
          /\ hpa' = [at |-> "proposed", clean |-> hpa.clean, now |-> hpa.now,
                     command |-> [cmd |-> "scale", new |-> new]]
          /\ d < hpa.spec.replicas => ScaleDownAllowed(hpa.spec.replicas, new.replicas)
      BY <1>2, <2>1, <2>2 DEF hpa_evaluate_workload
    <2>4. IsSpec(hpa.spec) /\ (hpa.clean => hpa.spec = spec)
      BY <2>3 DEF ScalerInv, HpaIsRight
    <2>5. /\ load \in Nat /\ hpa.spec.replicas \in Nat \ {0} /\ Hpa.target # 0
          /\ ~(AtLeastOne(Hpa.min) > Hpa.max)
      BY <2>3, <2>4 DEF NoSignal, ScalerInv, StoreIsTyped, IsSpec
    <2>6. AtLeastOne(Hpa.min) \in Nat \ {0} /\ Hpa.max \in Nat /\ AtLeastOne(Hpa.min) <= Hpa.max
      BY <2>5, PolicyAssumption, SMTT(30) DEF AtLeastOne
    <2>7. d \in AtLeastOne(Hpa.min) .. Hpa.max
      BY <2>1, <2>5, <2>6, DesiredInBounds
    <2>8. d \in Nat \ {0}
      BY <2>6, <2>7, SMTT(30)
    <2>9. distribute_replicas(<<hpa.spec.replicas>>, d)[1] = d
      BY <2>5, <2>8, OneRoleGetsAll
    <2>10. new = [hpa.spec EXCEPT !.replicas = d]
      BY <2>2, <2>9 DEF Scaled
    <2>11. IsSpec(new) /\ new.replicas = d /\ new.size = hpa.spec.size /\ new.rev = hpa.spec.rev
      BY <2>4, <2>8, <2>10 DEF IsSpec, SpecFields
    <2>12. /\ DOMAIN hpa' = {"at", "clean", "now", "command"} /\ hpa'.at = "proposed"
           /\ hpa'.clean = hpa.clean /\ hpa'.command.cmd = "scale" /\ hpa'.command.new = new
      BY <2>3
    <2>13. ASSUME hpa.clean PROVE ScaleIsExact'
      <3>1. hpa.spec = spec /\ spec' = spec /\ Healthy' = Healthy
        BY <2>3, <2>4, <2>13 DEF Healthy
      <3>2. new.replicas < spec.replicas => MayLose(spec.replicas - new.replicas)
        BY <2>3, <2>11, <3>1 DEF ScaleDownAllowed, MayLose
      <3>3. MayLose(spec.replicas - new.replicas) => MayLose(spec.replicas - new.replicas)'
        <4>. HIDE DEF MayLose
        <4>1. new' = new
          OBVIOUS
        <4>. QED  BY <3>1 DEF MayLose
      <3>. QED  BY <2>7, <2>11, <2>12, <3>1, <3>2, <3>3 DEF ScaleIsExact, MayLose
    <2>. QED  BY <2>11, <2>12, <2>13 DEF HpaIsRight
  <1>. QED  BY <1>1, <1>2

\* An evaluation of the horizontal autoscaler keeps the invariant.
LEMMA HpaTaskKeepsInv ==
    ASSUME ScalerInv, HpaTask
    PROVE  ScalerInv'
  <1>1. CASE hpa_evaluate
    <2>1. /\ UNCHANGED <<spec, placed, load, usage, inherited, vpa>>
          /\ DOMAIN hpa' = {"at", "clean", "spec", "pods", "now"} /\ hpa'.at = "listed" /\ hpa'.spec = spec
      BY <1>1 DEF hpa_evaluate
    <2>2. Healthy' = Healthy /\ Healthy <= Healthy'
      BY <2>1, LiveIsFinite, SMTT(30) DEF Healthy
    <2>3. StoreIsTyped' /\ HpaIsRight'
      BY <2>1 DEF ScalerInv, StoreIsTyped, HpaIsRight
    <2>. QED  BY <2>1, <2>2, <2>3, OthersKeepVpa DEF ScalerInv
  <1>2. CASE hpa_evaluate_workload
    <2>1. UNCHANGED <<spec, placed, load, usage, inherited, vpa>>
      BY <1>2 DEF hpa_evaluate_workload
    <2>2. Healthy' = Healthy /\ Healthy <= Healthy'
      BY <2>1, LiveIsFinite, SMTT(30) DEF Healthy
    <2>3. StoreIsTyped'
      BY <2>1 DEF ScalerInv, StoreIsTyped
    <2>. QED  BY <1>2, <2>1, <2>2, <2>3, OthersKeepVpa, DecidedHpaIsRight DEF ScalerInv
  <1>3. CASE hpa_propose_scale
    <2>1. /\ hpa.at = "proposed" /\ Apply1(hpa.command) /\ UNCHANGED <<load, usage, inherited>>
          /\ hpa' = Idle1 /\ vpa' = Overtaken(vpa)
      BY <1>3 DEF hpa_propose_scale
    <2>2. WritesSpec(hpa.command)
      BY <2>1 DEF ScalerInv, HpaIsRight, WritesSpec
    <2>3. StoreIsTyped'
      BY <2>1, <2>2, AppliedIsTyped DEF ScalerInv, StoreIsTyped
    <2>. QED  BY <2>1, <2>3, OthersKeepHpa, OthersKeepVpa DEF ScalerInv
  <1>. QED  BY <1>1, <1>2, <1>3 DEF HpaTask

\* The vertical autoscaler decides to resize: the quota and the guard have been
\* asked on the storage of the moment.
LEMMA DecidedVpaIsRight ==
    ASSUME ScalerInv, vpa_decide
    PROVE  VpaIsRight'
  <1>1. CASE vpa' = Idle1
    BY <1>1, OthersKeepVpa DEF ScalerInv
  <1>2. CASE vpa' # Idle1
    <2>. DEFINE new == [vpa.spec EXCEPT !.size = vpa.size]
    <2>1. /\ vpa.at = "decide" /\ UNCHANGED <<spec, placed>>
          /\ vpa' = [vpa EXCEPT !.at = "proposed", !.command = [cmd |-> "resize", new |-> new]]
          /\ vpa.size > vpa.spec.size => GrowFits(vpa)
          /\ ReplacementAllowed
      BY <1>2 DEF vpa_decide, Unwritten
    <2>2. /\ {"at", "clean", "command"} \subseteq DOMAIN vpa /\ IsSpec(vpa.spec) /\ vpa.size \in Nat
          /\ vpa.clean => vpa.spec = spec
      BY <2>1 DEF ScalerInv, VpaIsRight, VpaReadIsCurrent
    <2>3. IsSpec(new) /\ new.size = vpa.size /\ new.replicas = vpa.spec.replicas /\ new.rev = vpa.spec.rev
      BY <2>2 DEF IsSpec, SpecFields
    <2>. HIDE DEF new
    <2>4. /\ DOMAIN vpa' = DOMAIN vpa /\ vpa'.at = "proposed" /\ vpa'.clean = vpa.clean
          /\ vpa'.spec = vpa.spec /\ vpa'.size = vpa.size
          /\ vpa'.command = [cmd |-> "resize", new |-> new]
      BY <2>1, <2>2, SMTT(30)
    <2>5. vpa'.command.cmd = "resize" /\ vpa'.command.new = new
      BY <2>4, SMTT(30)
    <2>6. ASSUME vpa.clean PROVE VpaReadIsCurrent'
      <3>1. vpa.spec = spec /\ spec' = spec /\ Healthy' = Healthy
        BY <2>1, <2>2, <2>6 DEF Healthy
      <3>2. new.size > spec.size => new.size * new.replicas <= MaxUnits
        <4> SUFFICES ASSUME new.size > spec.size PROVE new.size * new.replicas <= MaxUnits
          OBVIOUS
        <4>1. GrowFits(vpa)
          BY <2>1, <2>3, <3>1
        <4>2. PICK used \in Nat : used = spec.size * spec.replicas
          BY SMTT(30) DEF ScalerInv, StoreIsTyped, IsSpec
        <4>3. PICK asked \in Nat : asked = new.size * new.replicas
          BY <2>3, SMTT(30) DEF IsSpec
        <4>4. used - used + asked <= MaxUnits
          BY <2>3, <3>1, <4>1, <4>2, <4>3 DEF GrowFits
        <4>. QED  BY <4>3, <4>4, PolicyAssumption, SMTT(30)
      <3>3. ResizeIsExact'
        BY <2>3, <2>5, <3>1, <3>2 DEF ResizeIsExact
      <3>4. MayLose(1)'
        BY <2>1, <3>1 DEF ReplacementAllowed, MayLose
      <3>. QED  BY <2>4, <2>5, <3>3, <3>4 DEF VpaReadIsCurrent
    <2>. QED  BY <2>2, <2>3, <2>4, <2>5, <2>6 DEF VpaIsRight
  <1>. QED  BY <1>1, <1>2


\* The vertical autoscaler evaluates: a new recommendation is a number.
LEMMA EvaluatedVpaIsRight ==
    ASSUME ScalerInv, vpa_evaluate_workload
    PROVE  VpaIsRight'
  <1>1. CASE vpa' = Idle1
    BY <1>1, OthersKeepVpa DEF ScalerInv
  <1>2. CASE vpa' # Idle1
    <2>1. PICK size : size = NewSize(vpa.spec)
      OBVIOUS
    <2>2. /\ vpa.at = "listed" /\ UNCHANGED <<spec, placed>> /\ usage # Nothing
          /\ vpa' = [at |-> IF recommended = size THEN "decide" ELSE "proposed",
                     clean |-> vpa.clean, spec |-> vpa.spec, pods |-> vpa.pods, now |-> vpa.now,
                     size |-> size, command |-> [cmd |-> "recommend", size |-> size]]
      BY <1>2, <2>1 DEF vpa_evaluate_workload, Unwritten
    <2>3. IsSpec(vpa.spec) /\ (vpa.clean => vpa.spec = spec)
      BY <2>2 DEF ScalerInv, VpaIsRight, VpaReadIsCurrent
    <2>4. size \in Nat
      BY <2>1, <2>2, <2>3, NewSizeIsNumber DEF ScalerInv, StoreIsTyped, IsSpec
    <2>5. /\ DOMAIN vpa' = {"at", "clean", "spec", "pods", "now", "size", "command"}
          /\ vpa'.at \in {"decide", "proposed"} /\ vpa'.clean = vpa.clean /\ vpa'.spec = vpa.spec
          /\ vpa'.size = size /\ vpa'.command.cmd = "recommend"
      BY <2>2
    <2>. QED  BY <2>2, <2>3, <2>4, <2>5 DEF VpaIsRight, VpaReadIsCurrent
  <1>. QED  BY <1>1, <1>2

\* The recommendation or the resize is applied; both leave the replicas.
LEMMA WrittenVpaIsRight ==
    ASSUME ScalerInv, vpa_write
    PROVE  VpaIsRight'
  <1>1. /\ vpa.at = "proposed" /\ {"at", "clean", "command"} \subseteq DOMAIN vpa /\ IsSpec(vpa.spec) /\ vpa.size \in Nat
        /\ vpa.clean => VpaReadIsCurrent
    BY DEF vpa_write, ScalerInv, VpaIsRight
  <1>2. CASE vpa.command.cmd = "recommend"
    <2>1. vpa' = [vpa EXCEPT !.at = "decide"] /\ UNCHANGED spec
      BY <1>2 DEF vpa_write, Apply1
    <2>2. DOMAIN vpa' = DOMAIN vpa /\ vpa'.at = "decide" /\ vpa'.clean = vpa.clean /\ vpa'.spec = vpa.spec /\ vpa'.size = vpa.size
      BY <1>1, <2>1, SMTT(30)
    <2>. QED  BY <1>1, <1>2, <2>1, <2>2 DEF VpaIsRight, VpaReadIsCurrent
  <1>3. CASE vpa.command.cmd = "resize"
    <2>1. PICK next : next = [cmd |-> "free", ord |-> FirstStale(vpa)]
      OBVIOUS
    <2>2. vpa' = [vpa EXCEPT !.command = next] /\ spec' = vpa.command.new /\ UNCHANGED placed
      BY <1>3, <2>1 DEF vpa_write, Apply1, ResizeWorkload1
    <2>3. /\ DOMAIN vpa' = DOMAIN vpa /\ vpa'.at = "proposed" /\ vpa'.clean = vpa.clean /\ vpa'.spec = vpa.spec
          /\ vpa'.size = vpa.size /\ vpa'.command.cmd = "free"
      BY <1>1, <2>1, <2>2, SMTT(30)
    <2>4. ASSUME vpa.clean PROVE MayLose(1)'
      <3>1. MayLose(1) /\ spec'.replicas = spec.replicas /\ Healthy' = Healthy
        BY <1>1, <1>3, <2>2, <2>4 DEF VpaReadIsCurrent, ResizeIsExact, Healthy
      <3>. QED  BY <3>1 DEF MayLose
    <2>. QED  BY <1>1, <2>3, <2>4 DEF VpaIsRight, VpaReadIsCurrent
  <1>. QED  BY <1>2, <1>3 DEF vpa_write

\* The slot is freed, or the placement removed.
LEMMA RemovingVpaIsRight ==
    ASSUME ScalerInv, vpa_remove_stale_pod
    PROVE  VpaIsRight'
  <1>1. CASE vpa.command.cmd = "free"
    <2>1. /\ vpa.at = "proposed" /\ {"at", "clean", "command"} \subseteq DOMAIN vpa /\ IsSpec(vpa.spec) /\ vpa.size \in Nat
          /\ vpa.clean => VpaReadIsCurrent
      BY DEF vpa_remove_stale_pod, ScalerInv, VpaIsRight
    <2>2. PICK next : next = [cmd |-> "remove", ord |-> vpa.command.ord]
      OBVIOUS
    <2>3. vpa' = [vpa EXCEPT !.command = next] /\ UNCHANGED <<spec, placed>>
      BY <1>1, <2>2 DEF vpa_remove_stale_pod, Apply1, FreeSlot
    <2>4. /\ DOMAIN vpa' = DOMAIN vpa /\ vpa'.at = "proposed" /\ vpa'.clean = vpa.clean /\ vpa'.spec = vpa.spec
          /\ vpa'.size = vpa.size /\ vpa'.command.cmd = "remove"
      BY <2>1, <2>2, <2>3, SMTT(30)
    <2>5. ASSUME vpa.clean PROVE MayLose(1)'
      <3>1. MayLose(1) /\ spec' = spec /\ Healthy' = Healthy
        BY <1>1, <2>1, <2>3, <2>5 DEF VpaReadIsCurrent, Healthy
      <3>. QED  BY <3>1 DEF MayLose
    <2>. QED  BY <2>1, <2>4, <2>5 DEF VpaIsRight, VpaReadIsCurrent
  <1>2. CASE vpa.command.cmd # "free"
    <2>1. vpa' = Idle1
      BY <1>2 DEF vpa_remove_stale_pod
    <2>. QED  BY <2>1, OthersKeepVpa DEF ScalerInv
  <1>. QED  BY <1>1, <1>2

\* So does one of the vertical autoscaler ...
LEMMA VpaTaskKeepsInv ==
    ASSUME ScalerInv, VpaTask
    PROVE  ScalerInv'
  <1>1. CASE vpa_evaluate
    <2>1. /\ UNCHANGED <<spec, placed, load, usage, inherited, hpa>>
          /\ DOMAIN vpa' = {"at", "clean", "spec", "pods", "now"} /\ vpa'.at = "listed" /\ vpa'.spec = spec
      BY <1>1 DEF vpa_evaluate
    <2>2. Healthy' = Healthy /\ Healthy <= Healthy'
      BY <2>1, LiveIsFinite, SMTT(30) DEF Healthy
    <2>3. StoreIsTyped' /\ VpaIsRight'
      BY <2>1 DEF ScalerInv, StoreIsTyped, VpaIsRight, VpaReadIsCurrent
    <2>. QED  BY <2>1, <2>2, <2>3, OthersKeepHpa DEF ScalerInv
  <1>2. CASE vpa_evaluate_workload \/ vpa_decide
    <2>1. UNCHANGED <<spec, placed, load, usage, inherited, hpa>>
      BY <1>2 DEF vpa_evaluate_workload, vpa_decide, Unwritten
    <2>2. Healthy' = Healthy /\ Healthy <= Healthy'
      BY <2>1, LiveIsFinite, SMTT(30) DEF Healthy
    <2>3. StoreIsTyped'
      BY <2>1 DEF ScalerInv, StoreIsTyped
    <2>. QED  BY <1>2, <2>1, <2>2, <2>3, OthersKeepHpa, EvaluatedVpaIsRight, DecidedVpaIsRight DEF ScalerInv
  <1>3. CASE vpa_write \/ vpa_remove_stale_pod
    <2>1. /\ vpa.at = "proposed" /\ Apply1(vpa.command) /\ UNCHANGED <<load, usage, inherited>>
          /\ hpa' = Overtaken(hpa)
      BY <1>3 DEF vpa_write, vpa_remove_stale_pod
    <2>2. WritesSpec(vpa.command)
      BY <2>1 DEF ScalerInv, VpaIsRight, WritesSpec
    <2>3. StoreIsTyped'
      BY <2>1, <2>2, AppliedIsTyped DEF ScalerInv, StoreIsTyped
    <2>. QED  BY <1>3, <2>1, <2>3, OthersKeepHpa, WrittenVpaIsRight, RemovingVpaIsRight DEF ScalerInv
  <1>. QED  BY <1>1, <1>2, <1>3 DEF VpaTask


\* The steps of neither task.
Around == Metrics(Load \cup {Nothing}, Load \cup {Nothing}) \/ PlacesAndTime \/ Interference

\* What a step of neither task does to the tasks: it leaves them, or overtakes
\* them with a write, or ends them with the leadership and without a write.
LEMMA AroundKeepsInv ==
    ASSUME ScalerInv, Around \/ UNCHANGED scaleVars
    PROVE  /\ ScalerInv'
           /\ \/ hpa' \in {hpa, Overtaken(hpa)} /\ vpa' \in {vpa, Overtaken(vpa)}
              \/ hpa' = Idle1 /\ vpa' = Idle1 /\ UNCHANGED <<spec, placed>>
  <1>1. CASE UNCHANGED scaleVars \/ Elapse \/ Metrics(Load \cup {Nothing}, Load \cup {Nothing})
    <2>1. UNCHANGED <<spec, placed, hpa, vpa, inherited>>
      BY <1>1 DEF scaleVars, Elapse, Metrics, Observe
    <2>2. load' \in Nat \cup {Nothing} /\ usage' \in Nat \cup {Nothing}
      <3>1. Load \subseteq Nat /\ load \in Nat \cup {Nothing} /\ usage \in Nat \cup {Nothing}
        BY PolicyAssumption DEF ScalerInv, StoreIsTyped
      <3>. QED  BY <1>1, <3>1 DEF scaleVars, Elapse, Metrics, Observe
    <2>3. Healthy' = Healthy /\ Healthy <= Healthy'
      BY <2>1, LiveIsFinite, SMTT(30) DEF Healthy
    <2>4. StoreIsTyped'
      BY <2>1, <2>2 DEF ScalerInv, StoreIsTyped
    <2>. QED  BY <2>1, <2>3, <2>4, OthersKeepHpa, OthersKeepVpa DEF ScalerInv
  <1>2. ASSUME NEW o \in Ordinal, PlacePod(o)
        PROVE  ScalerInv' /\ hpa' = hpa /\ vpa' = vpa
    <2>1. placed' = [placed EXCEPT ![o] = spec.size] /\ UNCHANGED <<spec, load, usage, inherited, hpa, vpa>>
      BY <1>2 DEF PlacePod
    <2>2. spec.size \in Nat /\ spec.size # Nothing
      BY MathAssumption, SMTT(30) DEF ScalerInv, StoreIsTyped, IsSpec
    <2>3. Live \subseteq Live' /\ placed' \in [Ordinal -> Nat \cup {Nothing}]
      BY <2>1, <2>2 DEF Live, ScalerInv, StoreIsTyped
    <2>4. StoreIsTyped'
      BY <2>1, <2>3 DEF ScalerInv, StoreIsTyped
    <2>. QED  BY <2>1, <2>3, <2>4, LiveGrows, OthersKeepHpa, OthersKeepVpa DEF ScalerInv
  <1>3. ASSUME NEW r \in 0 .. MaxReplicas, NEW prune \in BOOLEAN, OperatorWrites(r, prune)
        PROVE  ScalerInv' /\ hpa' = Overtaken(hpa) /\ vpa' = Overtaken(vpa)
    <2>. DEFINE new == [spec EXCEPT !.replicas = r, !.rev = writes + 1]
    <2>1. /\ hpa' = Overtaken(hpa) /\ vpa' = Overtaken(vpa) /\ UNCHANGED <<load, usage, inherited>>
          /\ spec' = new
          /\ \/ ScaleWorkload1(new)
             \/ UNCHANGED placed
      BY <1>3 DEF OperatorWrites, ScaleWorkload1
    <2>2. IsSpec(new)
      BY SMTT(30) DEF ScalerInv, StoreIsTyped, IsSpec, SpecFields
    <2>. HIDE DEF new
    <2>3. StoreIsTyped'
      BY <2>1, <2>2 DEF ScalerInv, StoreIsTyped, ScaleWorkload1
    <2>. QED  BY <2>1, <2>3, OthersKeepHpa, OthersKeepVpa DEF ScalerInv
  <1>4. ASSUME NEW n \in Server, NEW kept \in SUBSET (WaitsFor(hpa) \cup WaitsFor(vpa)), ChangeLeader(n, kept)
        PROVE  ScalerInv' /\ hpa' = Idle1 /\ vpa' = Idle1 /\ UNCHANGED <<spec, placed>>
    <2>1. /\ hpa' = Idle1 /\ vpa' = Idle1 /\ UNCHANGED <<spec, placed, load, usage>>
          /\ inherited' = inherited \cup kept
      BY <1>4 DEF ChangeLeader
    <2>2. \A c \in WaitsFor(hpa) \cup WaitsFor(vpa) : WritesSpec(c)
      BY DEF WaitsFor, ScalerInv, HpaIsRight, VpaIsRight, WritesSpec
    <2>3. StoreIsTyped'
      BY <2>1, <2>2 DEF ScalerInv, StoreIsTyped
    <2>. QED  BY <2>1, <2>3, OthersKeepHpa, OthersKeepVpa DEF ScalerInv
  <1>5. ASSUME NEW c \in inherited, ApplyInherited(c)
        PROVE  ScalerInv' /\ hpa' = Overtaken(hpa) /\ vpa' = Overtaken(vpa)
    <2>1. /\ Apply1(c) /\ inherited' = inherited \ {c}
          /\ hpa' = Overtaken(hpa) /\ vpa' = Overtaken(vpa) /\ UNCHANGED <<load, usage>>
      BY <1>5 DEF ApplyInherited
    <2>2. StoreIsTyped'
      BY <2>1, AppliedIsTyped DEF ScalerInv, StoreIsTyped
    <2>. QED  BY <2>1, <2>2, OthersKeepHpa, OthersKeepVpa DEF ScalerInv
  <1>6. CASE UNCHANGED scaleVars \/ Elapse \/ Metrics(Load \cup {Nothing}, Load \cup {Nothing})
    <2>1. hpa' = hpa /\ vpa' = vpa
      BY <1>6 DEF scaleVars, Elapse, Metrics, Observe
    <2>. QED  BY <1>1, <1>6, <2>1
  <1>. QED  BY <1>2, <1>3, <1>4, <1>5, <1>6 DEF Around, PlacesAndTime, Interference, ApplyCommitted

\* ... and every other step.
LEMMA ScalerInvIsInductive == ScalerInv /\ [AutoscalerNext]_scaleVars => ScalerInv'
  BY HpaTaskKeepsInv, VpaTaskKeepsInv, AroundKeepsInv DEF AutoscalerNext, Around

\* A proposal of the horizontal autoscaler ends by being applied, or with the
\* leadership.
LEMMA HpaProposalEnds ==
    ASSUME ScalerInv, [AutoscalerNext]_scaleVars, hpa.at = "proposed", hpa' = Idle1
    PROVE  hpa_propose_scale \/ UNCHANGED placed
  <1>1. hpa'.at = "idle"
    BY DEF Idle1
  <1>2. Overtaken(hpa).at = "proposed"
    BY DEF Overtaken, ScalerInv, HpaIsRight
  <1>3. HpaTask => hpa_propose_scale
    BY DEF HpaTask, hpa_evaluate, hpa_evaluate_workload, Idle1
  <1>4. VpaTask => hpa' \in {hpa, Overtaken(hpa)}
    BY DEF VpaTask, vpa_evaluate, vpa_evaluate_workload, vpa_decide, vpa_write, vpa_remove_stale_pod, Unwritten
  <1>. QED  BY <1>1, <1>2, <1>3, <1>4, AroundKeepsInv DEF AutoscalerNext, Around

\* A command of the vertical autoscaler makes room for the next one only when
\* it is applied.
LEMMA VpaProposalEnds ==
    ASSUME ScalerInv, [AutoscalerNext]_scaleVars, vpa.at = "proposed"
    PROVE  /\ Resizes => vpa_write
           /\ Replaces => vpa_remove_stale_pod \/ UNCHANGED placed
  <1>1. Idle1.at = "idle"
    BY DEF Idle1
  <1>2. Overtaken(vpa).at = "proposed" /\ Overtaken(vpa).command = vpa.command
    BY DEF Overtaken, ScalerInv, VpaIsRight
  <1>3. VpaTask => vpa_write \/ vpa_remove_stale_pod
    BY <1>1 DEF VpaTask, vpa_evaluate, vpa_evaluate_workload, vpa_decide
  <1>4. HpaTask => vpa' \in {vpa, Overtaken(vpa)}
    BY DEF HpaTask, hpa_evaluate, hpa_evaluate_workload, hpa_propose_scale
  <1>5. CASE vpa' \in {vpa, Overtaken(vpa)}
    BY <1>1, <1>2, <1>5 DEF Resizes, Replaces
  <1>6. CASE vpa' = Idle1 /\ UNCHANGED placed
    BY <1>1, <1>6 DEF Resizes, Replaces
  <1>7. CASE vpa_write
    BY <1>7 DEF Resizes, Replaces, vpa_write
  <1>8. CASE vpa_remove_stale_pod
    BY <1>8 DEF Resizes, Replaces, vpa_remove_stale_pod
  <1>. QED  BY <1>3, <1>4, <1>5, <1>6, <1>7, <1>8, AroundKeepsInv DEF AutoscalerNext, Around


\* An evaluation of either autoscaler that no other write overtook changes its
\* own part of the spec and nothing else, the replicas within the policy's
\* bounds and the footprint within the quota (propose_scale, the VPA's resize):
\* for every policy, load and number of operators' writes and failovers.
THEOREM AutoscalersWriteTheirPart == AutoscalerSpec => UndisturbedWriteIsExact
  <1>. DEFINE Exact == /\ Scales /\ hpa.clean =>
                              /\ ChangesOnly("replicas")
                              /\ spec'.replicas \in AtLeastOne(Hpa.min) .. Hpa.max
                       /\ Resizes /\ vpa.clean =>
                              /\ ChangesOnly("size")
                              /\ spec'.size > spec.size => spec'.size * spec'.replicas <= MaxUnits
  <1>1. ScalerInv /\ [AutoscalerNext]_scaleVars => [Exact]_scaleVars
    <2> SUFFICES ASSUME ScalerInv, [AutoscalerNext]_scaleVars PROVE Exact
      OBVIOUS
    <2>1. IsSpec(spec)
      BY DEF ScalerInv, StoreIsTyped
    <2>2. ASSUME Scales, hpa.clean
          PROVE  ChangesOnly("replicas") /\ spec'.replicas \in AtLeastOne(Hpa.min) .. Hpa.max
      <3>1. spec' = hpa.command.new /\ IsSpec(hpa.command.new) /\ ScaleIsExact
        BY <2>2 DEF Scales, ScalerInv, HpaIsRight
      <3>. QED  BY <2>1, <3>1 DEF ScaleIsExact, ChangesOnly, IsSpec, SpecFields
    <2>3. ASSUME Resizes, vpa.clean
          PROVE  ChangesOnly("size") /\ (spec'.size > spec.size => spec'.size * spec'.replicas <= MaxUnits)
      <3>1. vpa.at = "proposed" /\ vpa.command.cmd = "resize" /\ IsSpec(vpa.command.new) /\ ResizeIsExact
        BY <2>3 DEF Resizes, ScalerInv, VpaIsRight, VpaReadIsCurrent
      <3>2. spec' = vpa.command.new
        BY <2>3, <3>1, VpaProposalEnds DEF vpa_write, Apply1, ResizeWorkload1
      <3>. QED  BY <2>1, <3>1, <3>2 DEF ResizeIsExact, ChangesOnly, IsSpec, SpecFields
    <2>. QED  BY <2>2, <2>3
  <1>. HIDE DEF Exact
  <1>2. AutoscalerSpec => [][Exact]_scaleVars
    BY <1>1, ScalerInitHolds, ScalerInvIsInductive, PTL DEF AutoscalerSpec
  <1>. QED  BY <1>2 DEF Exact, UndisturbedWriteIsExact

\* Pruning to fewer replicas takes no more pods than the replicas that go, when
\* no pod was surplus before.
LEMMA PruningTakesTheRest ==
    ASSUME StoreIsTyped, NoSurplus, NEW new, IsSpec(new), ScaleWorkload1(new), Healthy' < Healthy
    PROVE  /\ new.replicas < spec.replicas
           /\ Healthy' >= Healthy - (spec.replicas - new.replicas)
  <1>1. PICK from \in Nat, to \in Nat : from = spec.replicas /\ to = new.replicas
    BY DEF StoreIsTyped, IsSpec
  <1>. DEFINE gone == {o \in Live : o >= to}
  <1>2. Live' = Live \ gone
    BY <1>1, MathAssumption DEF ScaleWorkload1, Live, StoreIsTyped, Ordinal
  <1>3. gone \subseteq to .. from - 1
    BY <1>1, MathAssumption, SMTT(30) DEF NoSurplus, Live, Ordinal
  <1>4. IsFiniteSet(gone) /\ Cardinality(gone) \in Nat
    BY LiveIsFinite, FS_Subset, FS_CardinalityType
  <1>5. Healthy' = Healthy - Cardinality(gone)
    <2>1. Cardinality(Live \ gone) = Cardinality(Live) - Cardinality(Live \cap gone)
      BY LiveIsFinite, FS_Difference
    <2>2. Live \cap gone = gone
      OBVIOUS
    <2>. QED  BY <1>2, <2>1, <2>2, LiveIsFinite, LiveNextIsFinite
  <1>6. to < from
    <2>1. SUFFICES ASSUME ~(to < from) PROVE FALSE
      OBVIOUS
    <2>2. gone = {}
      BY <1>3, <2>1, SMTT(30)
    <2>. QED  BY <1>5, <2>2, FS_EmptySet, LiveIsFinite, SMTT(30)
  <1>7. Cardinality(gone) <= from - to
    <2>1. IsFiniteSet(to .. from - 1) /\ Cardinality(to .. from - 1) = from - to
      <3>1. to \in Int /\ from - 1 \in Int
        BY SMTT(30)
      <3>2. /\ IsFiniteSet(to .. from - 1)
            /\ Cardinality(to .. from - 1) = IF to > from - 1 THEN 0 ELSE (from - 1) - to + 1
        BY <3>1, FS_Interval
      <3>. QED  BY <1>6, <3>2, SMTT(30)
    <2>. QED  BY <1>3, <2>1, FS_Subset
  <1>. QED  BY <1>1, <1>4, <1>5, <1>6, <1>7, LiveIsFinite, SMTT(30)

\* Removing one placement takes at most one pod.
LEMMA RemovingTakesOne ==
    ASSUME StoreIsTyped, NEW o, placed' = [placed EXCEPT ![o] = Nothing]
    PROVE  Healthy' >= Healthy - 1
  <1>1. Live' = Live \ {o}
    BY DEF Live, StoreIsTyped
  <1>2. IsFiniteSet({o} \cap Live) /\ Cardinality({o} \cap Live) \in {0, 1}
    <2>1. {o} \cap Live = {} \/ {o} \cap Live = {o}
      OBVIOUS
    <2>2. IsFiniteSet({}) /\ Cardinality({}) = 0
      BY FS_EmptySet
    <2>3. IsFiniteSet({o}) /\ Cardinality({o}) = 1
      BY FS_Singleton
    <2>. QED  BY <2>1, <2>2, <2>3
  <1>3. Cardinality(Live \ {o}) = Cardinality(Live) - Cardinality(Live \cap {o})
    BY LiveIsFinite, FS_Difference
  <1>4. Live \cap {o} = {o} \cap Live
    OBVIOUS
  <1>. QED  BY <1>1, <1>2, <1>3, <1>4, LiveIsFinite, LiveNextIsFinite, SMTT(30)

\* What the guard let go leaves the budget.
LEMMA LostIsWithinBudget ==
    ASSUME StoreIsTyped, NEW k \in Nat, MayLose(k), Healthy' >= Healthy - k
    PROVE  Healthy' >= MinAvailable
  <1>1. PICK low : low = MinAvailable
    OBVIOUS
  <1>2. low \in Int /\ Clamp(Healthy - k, 0, Healthy) >= low
    BY <1>1, MinAvailableIsNumber DEF MayLose, allow_disruption, MinAvailable, StoreIsTyped, IsSpec
  <1>3. Healthy \in Nat /\ Healthy' \in Nat
    BY LiveIsFinite, LiveNextIsFinite
  <1>4. Healthy' >= low
    BY <1>2, <1>3, SMTT(30) DEF Clamp
  <1>. QED  BY <1>1, <1>4

\* A scale-down or the replacement of a stale pod that the guard allowed leaves
\* the pods the budget asks for when it is applied, as long as no write came
\* between and no pod was surplus (allow_disruption, asked by both autoscalers):
\* for every budget, although the workload controller places pods meanwhile.
THEOREM AutoscalersKeepBudget == AutoscalerSpec => UndisturbedKeepsBudget
  <1>. DEFINE Keeps == NoSurplus /\ ((Scales /\ hpa.clean) \/ (Replaces /\ vpa.clean)) => LeavesBudget
  <1>1. ScalerInv /\ [AutoscalerNext]_scaleVars => [Keeps]_scaleVars
    <2> SUFFICES ASSUME ScalerInv, [AutoscalerNext]_scaleVars, NoSurplus, Healthy' < Healthy,
                        (Scales /\ hpa.clean) \/ (Replaces /\ vpa.clean)
                 PROVE  Healthy' >= MinAvailable
      BY DEF LeavesBudget
    <2>1. placed' # placed
      BY LiveIsFinite, SMTT(30) DEF Healthy
    <2>2. StoreIsTyped
      BY DEF ScalerInv
    <2>3. CASE Scales /\ hpa.clean
      <3>1. hpa.at = "proposed" /\ hpa.command.cmd = "scale" /\ IsSpec(hpa.command.new) /\ ScaleIsExact
        BY <2>3 DEF Scales, ScalerInv, HpaIsRight
      <3>2. ScaleWorkload1(hpa.command.new)
        BY <2>1, <2>3, <3>1, HpaProposalEnds DEF Scales, hpa_propose_scale, Apply1
      <3>3. /\ hpa.command.new.replicas < spec.replicas
            /\ Healthy' >= Healthy - (spec.replicas - hpa.command.new.replicas)
        BY <2>2, <3>1, <3>2, PruningTakesTheRest
      <3>4. spec.replicas - hpa.command.new.replicas \in Nat
        BY <2>2, <3>1, <3>3, SMTT(30) DEF StoreIsTyped, IsSpec
      <3>. QED  BY <2>2, <3>1, <3>3, <3>4, LostIsWithinBudget DEF ScaleIsExact
    <2>4. CASE Replaces /\ vpa.clean
      <3>1. vpa.at = "proposed" /\ vpa.command.cmd = "remove" /\ MayLose(1)
        BY <2>4 DEF Replaces, ScalerInv, VpaIsRight, VpaReadIsCurrent
      <3>2. placed' = [placed EXCEPT ![vpa.command.ord] = Nothing]
        BY <2>1, <2>4, <3>1, VpaProposalEnds DEF vpa_remove_stale_pod, Apply1, RemovePod
      <3>. QED  BY <2>2, <3>1, <3>2, RemovingTakesOne, LostIsWithinBudget
    <2>. QED  BY <2>3, <2>4
  <1>. HIDE DEF Keeps
  <1>2. AutoscalerSpec => [][Keeps]_scaleVars
    BY <1>1, ScalerInitHolds, ScalerInvIsInductive, PTL DEF AutoscalerSpec
  <1>. QED  BY <1>2 DEF Keeps, UndisturbedKeepsBudget

=============================================================================
