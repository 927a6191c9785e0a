------------------------ MODULE StagedRolloutProofs ------------------------
(***************************************************************************)
(* Proofs about StagedRollout, for every number of rollouts, every list of *)
(* devices and every stage list.                                           *)
(***************************************************************************)
EXTENDS StagedRollout, TLAPS

\* What a rollout keeps for its whole life: its batches are the ones its
\* stage list prescribes, and whatever a stage so far asked for was handed out.
WellFormed(ro) ==
  /\ ro \in Rollout
  /\ Size(ro) > 0
  /\ ro.current + 1 \in DOMAIN ro.stages
  /\ ro.assigned = AssignStages(Size(ro), ro.stages)

Asked(ro, i) == 0 .. Target(Size(ro), ro.stages[i]) - 1

HandedOut(ro) ==
  NonNegative(ro.stages) =>
    \A i \in 1 .. ro.current + 1 : Asked(ro, i) \subseteq Reached(ro)

Shape == \A r \in RolloutIds : Exists(r) => WellFormed(rollouts[r])
Served == \A r \in RolloutIds : Exists(r) => HandedOut(rollouts[r])
IInv ==
  /\ rollouts \in [RolloutIds -> Rollout \cup {None}]
  /\ Shape
  /\ Served

-----------------------------------------------------------------------------
\* The number of devices a percentage of 0 or more asks for.
LEMMA TargetRange ==
  ASSUME NEW size \in Nat, NEW pct \in Int, pct >= 0
  PROVE  /\ Target(size, pct) \in 0 .. size
         /\ 100 * Target(size, pct) >= size * Lesser(pct, 100)
         /\ 100 * (Target(size, pct) - 1) < size * Lesser(pct, 100) \/ size = 0
<1> DEFINE m == size * pct
           q == (-m) \div 100
<1>1. m \in Int /\ m >= 0
  BY SMT
<1>2. q \in Int /\ 100 * q <= -m /\ -m < 100 * q + 100
  BY <1>1, SMT
<1>3. Target(size, pct) = IF -q < size THEN -q ELSE size
  BY DEF Target, CeilDiv, Lesser
<1>4. CASE pct <= 100
  <2>1. m <= size * 100
    BY <1>4, SMT
  <2>2. -q <= size
    BY <1>1, <1>2, <2>1, SMT
  <2>3. Target(size, pct) = -q
    BY <1>2, <1>3, <2>2, SMT
  <2>4. size * Lesser(pct, 100) = m
    <3>1. Lesser(pct, 100) = pct
      BY <1>4, SMT DEF Lesser
    <3> QED BY <3>1
  <2> QED BY <1>1, <1>2, <2>2, <2>3, <2>4, SMT
<1>5. CASE pct > 100
  <2>1. m >= size * 100
    BY <1>5, SMT
  <2>2. -q >= size
    BY <1>1, <1>2, <2>1, SMT
  <2>3. Target(size, pct) = size
    BY <1>2, <1>3, <2>2, SMT
  <2>4. Lesser(pct, 100) = 100
    BY <1>5, SMT DEF Lesser
  <2> QED BY <2>3, <2>4, SMT
<1> QED BY <1>4, <1>5

\* A larger percentage never asks for fewer devices.
LEMMA TargetMonotone ==
  ASSUME NEW size \in Nat, NEW p \in Int, NEW q \in Int, p <= q
  PROVE  Target(size, p) <= Target(size, q)
<1>1. size * p <= size * q /\ size * p \in Int /\ size * q \in Int
  BY SMT
<1> DEFINE a == (-(size * p)) \div 100
           b == (-(size * q)) \div 100
<1>2. a \in Int /\ b \in Int /\ b <= a
  BY <1>1, SMT
<1>3. Target(size, p) = Lesser(-a, size) /\ Target(size, q) = Lesser(-b, size)
  BY DEF Target, CeilDiv
<1> HIDE DEF a, b
<1> QED BY <1>2, <1>3, SMT DEF Lesser

\* With thresholds of 0 or more, a batch is the stretch of the list between
\* two targets.
LEMMA Batches ==
  ASSUME NEW size \in Nat, NEW stages \in Seq(Int), NonNegative(stages)
  PROVE  \A i \in DOMAIN stages :
           /\ Target(size, stages[i]) \in 0 .. size
           /\ AssignStages(size, stages)[i] =
                (IF i = 1 THEN 0 ELSE Target(size, stages[i - 1]))
                  .. Target(size, stages[i]) - 1
<1> SUFFICES ASSUME NEW i \in DOMAIN stages
             PROVE  /\ Target(size, stages[i]) \in 0 .. size
                    /\ AssignStages(size, stages)[i] =
                         (IF i = 1 THEN 0 ELSE Target(size, stages[i - 1]))
                           .. Target(size, stages[i]) - 1
  OBVIOUS
<1>1. DOMAIN stages = 1 .. Len(stages) /\ Len(stages) \in Nat
  OBVIOUS
<1>2. \A k \in DOMAIN stages : Target(size, stages[k]) \in 0 .. size
  <2> SUFFICES ASSUME NEW k \in DOMAIN stages
               PROVE  Target(size, stages[k]) \in 0 .. size
    OBVIOUS
  <2>1. stages[k] \in Int /\ stages[k] >= 0
    BY DEF NonNegative
  <2> QED BY <2>1, TargetRange
<1>3. AssignStages(size, stages)[i] =
        Slice(size, IF i = 1 THEN 0 ELSE Target(size, stages[i - 1]),
                    Target(size, stages[i]))
  BY <1>1 DEF AssignStages
<1>4. i # 1 => i - 1 \in DOMAIN stages
  BY <1>1
<1>5. \A k \in 0 .. size : Bound(size, k) = k
  BY SMT DEF Bound, Lesser
<1> QED BY <1>2, <1>3, <1>4, <1>5, SMT DEF Slice

\* A batch stays inside the list.
LEMMA BatchInList ==
  ASSUME NEW size \in Nat, NEW stages \in Seq(Int), NonNegative(stages),
         NEW k \in DOMAIN stages
  PROVE  AssignStages(size, stages)[k] \subseteq 0 .. size - 1
<1> DEFINE T(m) == Target(size, stages[m])
           A == AssignStages(size, stages)
<1>1. \A m \in DOMAIN stages :
        /\ T(m) \in 0 .. size
        /\ A[m] = (IF m = 1 THEN 0 ELSE T(m - 1)) .. T(m) - 1
  BY Batches
<1>2. k # 1 => k - 1 \in DOMAIN stages
  OBVIOUS
<1> HIDE DEF T, A
<1>3. T(k) \in 0 .. size /\ (k # 1 => T(k - 1) \in 0 .. size)
  BY <1>1, <1>2
<1>4. A[k] = (IF k = 1 THEN 0 ELSE T(k - 1)) .. T(k) - 1
  BY <1>1
<1>5. A[k] \subseteq 0 .. size - 1
  BY <1>3, <1>4
<1> QED BY <1>5 DEF A

\* With thresholds that never fall, no place is in two batches.
LEMMA Disjoint ==
  ASSUME NEW size \in Nat, NEW stages \in Seq(Int), Cumulative(stages),
         NEW i \in DOMAIN stages, NEW j \in DOMAIN stages, i < j
  PROVE  AssignStages(size, stages)[i] \cap AssignStages(size, stages)[j] = {}
<1> DEFINE T(k) == Target(size, stages[k])
           A == AssignStages(size, stages)
<1>1. DOMAIN stages = 1 .. Len(stages) /\ Len(stages) \in Nat
  OBVIOUS
<1>2. j - 1 \in DOMAIN stages /\ i <= j - 1 /\ j # 1
  BY <1>1
<1>3. \A k \in DOMAIN stages :
        /\ T(k) \in 0 .. size
        /\ A[k] = (IF k = 1 THEN 0 ELSE T(k - 1)) .. T(k) - 1
  BY Batches DEF Cumulative
<1>4. T(i) <= T(j - 1)
  <2>1. stages[i] \in Int /\ stages[j - 1] \in Int
    BY <1>2
  <2>2. i = j - 1 \/ i < j - 1
    BY <1>1, <1>2
  <2>3. stages[i] <= stages[j - 1]
    <3>1. CASE i = j - 1
      BY <2>1, <3>1
    <3>2. CASE i < j - 1
      BY <1>2, <3>2 DEF Cumulative
    <3> QED BY <2>2, <3>1, <3>2
  <2> QED BY <2>1, <2>3, TargetMonotone
<1> HIDE DEF T, A
<1>5. \A k \in DOMAIN stages : T(k) \in Int
  BY <1>3
<1>6. \A n \in A[i] : n \in Int /\ n <= T(i) - 1
  <2>1. CASE i = 1
    BY <1>3, <1>5, <2>1, SMT
  <2>2. CASE i # 1
    <3>1. i - 1 \in DOMAIN stages
      BY <1>1, <2>2
    <3>2. A[i] = T(i - 1) .. T(i) - 1 /\ T(i - 1) \in Int /\ T(i) \in Int
      BY <1>3, <1>5, <2>2, <3>1
    <3> QED BY <3>2
  <2> QED BY <2>1, <2>2
<1>7. \A n \in A[j] : n \in Int /\ n >= T(j - 1)
  <2>1. A[j] = T(j - 1) .. T(j) - 1 /\ T(j - 1) \in Int /\ T(j) \in Int
    BY <1>2, <1>3, <1>5
  <2> QED BY <2>1
<1>8. A[i] \cap A[j] = {}
  BY <1>2, <1>4, <1>5, <1>6, <1>7
<1> QED BY <1>8 DEF A

\* With thresholds that never fall, what was handed out is what the current
\* stage asks for.
LEMMA HeadReached ==
  ASSUME NEW ro, WellFormed(ro), HandedOut(ro), Cumulative(ro.stages)
  PROVE  Reached(ro) = Asked(ro, ro.current + 1)
<1> DEFINE c == ro.current + 1
           n == Size(ro)
           T(k) == Target(n, ro.stages[k])
<1>1. /\ n \in Nat /\ ro.stages \in Seq(Int) /\ ro.current \in Nat
      /\ c \in DOMAIN ro.stages /\ c \in 1 .. c
      /\ ro.assigned = AssignStages(n, ro.stages)
  BY DEF WellFormed, Rollout, Size
<1>2. Asked(ro, c) \subseteq Reached(ro)
  BY <1>1 DEF HandedOut, Cumulative
<1>3. ASSUME NEW i \in 1 .. c PROVE ro.assigned[i] \subseteq Asked(ro, c)
  <2>1. i \in DOMAIN ro.stages /\ (i # 1 => i - 1 \in DOMAIN ro.stages)
    BY <1>1
  <2>2. \A k \in DOMAIN ro.stages :
          /\ T(k) \in 0 .. n
          /\ AssignStages(n, ro.stages)[k] =
               (IF k = 1 THEN 0 ELSE T(k - 1)) .. T(k) - 1
    <3>1. NonNegative(ro.stages)
      BY DEF Cumulative
    <3> QED BY <1>1, <3>1, Batches, Zenon
  <2>3. /\ ro.stages[i] \in Int /\ ro.stages[c] \in Int
        /\ ro.stages[i] <= ro.stages[c]
    <3>1. i = c \/ i < c
      BY <1>1
    <3> QED
      BY <1>1, <2>1, <3>1 DEF Cumulative
  <2>4. T(i) <= T(c)
    BY <1>1, <2>3, TargetMonotone
  <2> HIDE DEF T, n, c
  <2>5. T(i) \in Int /\ T(c) \in Int /\ (i # 1 => T(i - 1) \in Int /\ T(i - 1) >= 0)
    BY <1>1, <2>1, <2>2
  <2>6. ro.assigned[i] = (IF i = 1 THEN 0 ELSE T(i - 1)) .. T(i) - 1
    BY <1>1, <2>1, <2>2
  <2>7. ro.assigned[i] \subseteq 0 .. T(c) - 1
    BY <2>4, <2>5, <2>6
  <2> QED
    BY <2>7 DEF Asked, T, n, c
<1> QED
  BY <1>2, <1>3 DEF Reached

\* Going on to the next stage adds the stretch from the last target to its own.
LEMMA NextServed ==
  ASSUME NEW ro, WellFormed(ro), HandedOut(ro),
         ro.current + 1 < Len(ro.stages),
         NEW next, next = [ro EXCEPT !.current = @ + 1]
  PROVE  WellFormed(next) /\ HandedOut(next)
<1> DEFINE c == ro.current + 1
           n == Size(ro)
           T(k) == Target(n, ro.stages[k])
<1>1. /\ n \in Nat /\ ro.stages \in Seq(Int) /\ ro.current \in Nat
      /\ ro \in Rollout /\ n > 0
      /\ ro.assigned = AssignStages(n, ro.stages)
  BY DEF WellFormed, Rollout, Size
<1>2. /\ next \in Rollout
      /\ next.devices = ro.devices /\ next.stages = ro.stages
      /\ next.assigned = ro.assigned /\ next.current = ro.current + 1
      /\ Size(next) = n
  <2>1. /\ next \in Rollout
        /\ next.devices = ro.devices /\ next.stages = ro.stages
        /\ next.assigned = ro.assigned /\ next.current = ro.current + 1
    <3> DEFINE m == ro.current + 1
    <3>1. m \in Nat
      BY <1>1
    <3>2. next = [ro EXCEPT !.current = m]
      OBVIOUS
    <3>3. ro \in Rollout
      BY <1>1
    <3> HIDE DEF m
    <3> QED BY <3>1, <3>2, <3>3, Zenon DEF Rollout
  <2> QED BY <2>1 DEF Size
<1>3. c \in DOMAIN ro.stages /\ c + 1 \in DOMAIN ro.stages /\ c \in Nat /\ c >= 1
  BY <1>1
<1>4. WellFormed(next)
  BY <1>1, <1>2, <1>3 DEF WellFormed
<1>5. HandedOut(next)
  <2> SUFFICES ASSUME NonNegative(ro.stages), NEW i \in 1 .. c + 1
               PROVE  Asked(ro, i) \subseteq Reached(next)
    BY <1>1, <1>2 DEF HandedOut, Asked
  <2>1. Reached(next) = Reached(ro) \cup ro.assigned[c + 1]
    <3>1. 1 .. c + 1 = (1 .. c) \cup {c + 1}
      BY <1>3
    <3>2. Reached(next) = UNION {ro.assigned[k] : k \in 1 .. c + 1}
      BY <1>1, <1>2 DEF Reached
    <3> QED BY <3>1, <3>2 DEF Reached
  <2>2. \A k \in 1 .. c : Asked(ro, k) \subseteq Reached(ro)
    BY DEF HandedOut
  <2>3. CASE i \in 1 .. c
    BY <2>1, <2>2, <2>3
  <2>4. CASE i = c + 1
    <3>1. \A k \in DOMAIN ro.stages :
            /\ T(k) \in 0 .. n
            /\ AssignStages(n, ro.stages)[k] =
                 (IF k = 1 THEN 0 ELSE T(k - 1)) .. T(k) - 1
      BY <1>1, Batches, Zenon
    <3>2. c + 1 # 1 /\ c + 1 - 1 = c
      BY <1>3
    <3>3. 0 .. T(c) - 1 \subseteq Reached(ro)
      BY <1>3, <2>2 DEF Asked
    <3>4. Asked(ro, c + 1) = 0 .. T(c + 1) - 1
      BY DEF Asked
    <3> HIDE DEF T, n, c
    <3>5. T(c) \in Int /\ T(c + 1) \in Int /\ 0 <= T(c)
      BY <1>1, <1>3, <3>1
    <3>6. ro.assigned[c + 1] = T(c) .. T(c + 1) - 1
      BY <1>1, <1>3, <3>1, <3>2
    <3>7. 0 .. T(c + 1) - 1 \subseteq (0 .. T(c) - 1) \cup (T(c) .. T(c + 1) - 1)
      BY <3>5
    <3> QED
      BY <2>1, <2>4, <3>3, <3>4, <3>6, <3>7
  <2> QED
    BY <1>3, <2>3, <2>4
<1> QED BY <1>4, <1>5

\* A new rollout has handed out its first batch.
LEMMA FirstServed ==
  ASSUME NEW devices \in Seq(Devices), Len(devices) > 0,
         NEW stages \in Seq(Int), Len(stages) > 0,
         NEW new,
         new = [status |-> "active", devices |-> devices, stages |-> stages,
                assigned |-> AssignStages(Len(devices), stages), current |-> 0]
  PROVE  WellFormed(new) /\ HandedOut(new)
<1> DEFINE size == Len(devices)
<1>0. size \in Nat /\ size > 0
  OBVIOUS
<1> HIDE DEF size
<1>1. AssignStages(size, stages) \in Seq(SUBSET Nat)
  <2>1. \A p \in Int : Target(size, p) \in Int
    <3> SUFFICES ASSUME NEW p \in Int PROVE Target(size, p) \in Int
      OBVIOUS
    <3> DEFINE a == (-(size * p)) \div 100
    <3>1. a \in Int
      BY <1>0, SMT
    <3>2. Target(size, p) = Lesser(-a, size)
      BY DEF Target, CeilDiv
    <3> HIDE DEF a
    <3> QED BY <1>0, <3>1, <3>2 DEF Lesser
  <2>2. \A from, to \in Int : Slice(size, from, to) \in SUBSET Nat
    BY <1>0, SMT DEF Slice, Bound, Lesser
  <2>3. \A i \in 1 .. Len(stages) : AssignStages(size, stages)[i] \in SUBSET Nat
    <3> SUFFICES ASSUME NEW i \in 1 .. Len(stages)
                 PROVE  AssignStages(size, stages)[i] \in SUBSET Nat
      OBVIOUS
    <3> DEFINE from == IF i = 1 THEN 0 ELSE Target(size, stages[i - 1])
               to == Target(size, stages[i])
    <3>1. to \in Int
      <4>1. stages[i] \in Int
        OBVIOUS
      <4> QED BY <2>1, <4>1
    <3>2. from \in Int
      <4>1. CASE i = 1
        BY <4>1
      <4>2. CASE i # 1
        <5>1. stages[i - 1] \in Int
          BY <4>2
        <5>2. Target(size, stages[i - 1]) \in Int
          BY <2>1, <5>1
        <5> QED BY <4>2, <5>2
      <4> QED BY <4>1, <4>2
    <3>3. AssignStages(size, stages)[i] = Slice(size, from, to)
      BY DEF AssignStages
    <3> HIDE DEF from, to
    <3> QED BY <2>2, <3>1, <3>2, <3>3
  <2>4. /\ Len(stages) \in Nat
        /\ AssignStages(size, stages) =
             [i \in 1 .. Len(stages) |-> AssignStages(size, stages)[i]]
    BY DEF AssignStages
  <2> QED BY <2>3, <2>4
<1>2. WellFormed(new)
  <2>1. new \in Rollout
    BY <1>1 DEF Rollout, size
  <2>2. 1 \in DOMAIN stages
    OBVIOUS
  <2> QED BY <2>1, <2>2 DEF WellFormed, Size
<1>3. HandedOut(new)
  <2> SUFFICES ASSUME NonNegative(stages)
               PROVE  Asked(new, 1) \subseteq Reached(new)
    BY DEF HandedOut
  <2>1. AssignStages(size, stages)[1] = 0 .. Target(size, stages[1]) - 1
    <3>1. 1 \in DOMAIN stages
      OBVIOUS
    <3> QED BY <1>0, <3>1, Batches
  <2>2. 1 .. 0 + 1 = {1}
    OBVIOUS
  <2> QED BY <2>1, <2>2 DEF Reached, Asked, Size, size
<1> QED BY <1>2, <1>3

-----------------------------------------------------------------------------
\* A missing entry of the dictionary is told from every rollout.
LEMMA NoneIsNoRollout == None \notin Rollout /\ None.status = "none"
BY DEF None, Rollout

\* Every operation of the tracker keeps the invariant.
THEOREM Inductive == Spec => []IInv
<1>1. Init => IInv
  BY DEF Init, IInv, Shape, Served, Exists, None
<1>2. IInv /\ [Next]_rollouts => IInv'
  <2> SUFFICES ASSUME IInv, [Next]_rollouts PROVE IInv'
    OBVIOUS
  <2> USE DEF IInv, Shape, Served, Exists
  <2>1. ASSUME NEW r \in RolloutIds, NEW new,
               rollouts' = [rollouts EXCEPT ![r] = new],
               WellFormed(new), HandedOut(new)
        PROVE  IInv'
    <3>1. new \in Rollout
      BY <2>1 DEF WellFormed
    <3> QED BY <2>1, <3>1
  <2>2. ASSUME NEW r \in RolloutIds, NEW devices \in DeviceLists,
               NEW stages \in StageLists, CreateStagedRollout(r, devices, stages)
        PROVE  IInv'
    <3>1. /\ devices \in Seq(Devices) /\ Len(devices) > 0
          /\ stages \in Seq(Int) /\ Len(stages) > 0
      BY <2>2, RolloutAssumption DEF CreateStagedRollout
    <3> DEFINE new == [status |-> "active", devices |-> devices, stages |-> stages,
                       assigned |-> AssignStages(Len(devices), stages),
                       current |-> 0]
    <3>2. WellFormed(new) /\ HandedOut(new)
      BY <3>1, FirstServed
    <3>3. rollouts' = [rollouts EXCEPT ![r] = new]
      BY <2>2 DEF CreateStagedRollout
    <3> HIDE DEF new
    <3> QED BY <2>1, <3>2, <3>3
  <2>3. ASSUME NEW r \in RolloutIds, rollouts[r].status = "active",
               NEW s \in {"completed", "cancelled"},
               rollouts' = [rollouts EXCEPT ![r].status = s]
        PROVE  IInv'
    <3> DEFINE new == [rollouts[r] EXCEPT !.status = s]
    <3>1. WellFormed(rollouts[r]) /\ HandedOut(rollouts[r])
      BY <2>3
    <3>2. WellFormed(new) /\ HandedOut(new)
      <4>1. /\ new \in Rollout
            /\ new.devices = rollouts[r].devices
            /\ new.stages = rollouts[r].stages
            /\ new.assigned = rollouts[r].assigned
            /\ new.current = rollouts[r].current
        BY <3>1 DEF WellFormed, Rollout
      <4> HIDE DEF new
      <4>2. Size(new) = Size(rollouts[r])
        BY <4>1 DEF Size
      <4>3. Reached(new) = Reached(rollouts[r])
        BY <4>1 DEF Reached
      <4> QED BY <3>1, <4>1, <4>2, <4>3, Zenon DEF WellFormed, HandedOut, Asked
    <3>3. rollouts' = [rollouts EXCEPT ![r] = new]
      BY <2>3
    <3> HIDE DEF new
    <3> QED BY <2>1, <3>2, <3>3
  <2>4. ASSUME NEW r \in RolloutIds, AdvanceStage(r)
        PROVE  IInv'
    <3>1. rollouts[r].status = "active"
      BY <2>4 DEF AdvanceStage
    <3>2. WellFormed(rollouts[r]) /\ HandedOut(rollouts[r])
      BY <3>1
    <3>3. CASE rollouts[r].current + 1 >= Len(rollouts[r].stages)
      BY <2>3, <2>4, <3>1, <3>3 DEF AdvanceStage
    <3>4. CASE ~(rollouts[r].current + 1 >= Len(rollouts[r].stages))
      <4> DEFINE new == [rollouts[r] EXCEPT !.current = @ + 1]
      <4>1. rollouts[r].current + 1 < Len(rollouts[r].stages)
        BY <3>2, <3>4 DEF WellFormed, Rollout
      <4>2. WellFormed(new) /\ HandedOut(new)
        BY <3>2, <4>1, NextServed
      <4>3. rollouts' = [rollouts EXCEPT ![r] = new]
        BY <2>4, <3>4 DEF AdvanceStage
      <4> HIDE DEF new
      <4> QED BY <2>1, <4>2, <4>3
    <3> QED BY <3>3, <3>4
  <2>5. ASSUME NEW r \in RolloutIds, CancelRollout(r)
        PROVE  IInv'
    BY <2>3, <2>5 DEF CancelRollout
  <2>6. CASE Restart
    BY <2>6 DEF Restart, None
  <2>7. CASE UNCHANGED rollouts
    BY <2>7
  <2> QED BY <2>2, <2>4, <2>5, <2>6, <2>7 DEF Next
<1> QED BY <1>1, <1>2, PTL DEF Spec

\* The stages of a rollout and its batches stay in step, and the current
\* stage is always one of them (deployment.py, advance_stage).
THEOREM TypeCorrect == Spec => []TypeOK
<1>1. IInv => TypeOK
  <2> SUFFICES ASSUME IInv PROVE TypeOK
    OBVIOUS
  <2> SUFFICES ASSUME NEW r \in RolloutIds, Exists(r)
               PROVE  /\ DOMAIN rollouts[r].assigned = DOMAIN rollouts[r].stages
                      /\ rollouts[r].current + 1 \in DOMAIN rollouts[r].stages
    BY DEF TypeOK, IInv
  <2>1. WellFormed(rollouts[r])
    BY DEF IInv, Shape
  <2>2. rollouts[r].stages \in Seq(Int)
    BY <2>1 DEF WellFormed, Rollout
  <2> QED BY <2>1, <2>2 DEF WellFormed, AssignStages
<1> QED BY <1>1, Inductive, PTL

\* With cumulative thresholds a device is in two batches of a rollout only when
\* the list names it at two places, for every list (create_staged_rollout).
THEOREM BatchesAreDisjoint == Spec => []BatchesDisjoint
<1>1. IInv => BatchesDisjoint
  <2> SUFFICES ASSUME IInv, NEW r \in RolloutIds, Exists(r),
                      Cumulative(rollouts[r].stages),
                      NEW i \in DOMAIN rollouts[r].stages,
                      NEW j \in DOMAIN rollouts[r].stages, i # j,
                      NEW d \in Batch(rollouts[r], i) \cap Batch(rollouts[r], j)
               PROVE  \E p, q \in DOMAIN rollouts[r].devices :
                        /\ p # q
                        /\ rollouts[r].devices[p] = d /\ rollouts[r].devices[q] = d
    BY DEF BatchesDisjoint
  <2> DEFINE ro == rollouts[r]
             n == Size(ro)
  <2>1. /\ n \in Nat /\ ro.stages \in Seq(Int) /\ ro.devices \in Seq(Devices)
        /\ ro.assigned = AssignStages(n, ro.stages)
    BY DEF IInv, Shape, WellFormed, Rollout, Size
  <2>2. ro.assigned[i] \cap ro.assigned[j] = {}
    <3>1. CASE i < j
      BY <2>1, <3>1, Disjoint
    <3>2. CASE j < i
      <4>1. ro.assigned[j] \cap ro.assigned[i] = {}
        BY <2>1, <3>2, Disjoint
      <4> QED BY <4>1
    <3> QED BY <2>1, <3>1, <3>2
  <2>3. \A k \in DOMAIN ro.stages : ro.assigned[k] \subseteq 0 .. n - 1
    <3>1. NonNegative(ro.stages)
      BY DEF Cumulative
    <3> QED
      BY <2>1, <3>1, BatchInList, Zenon
  <2>4. PICK p \in ro.assigned[i] : ro.devices[p + 1] = d
    BY DEF Batch
  <2>5. PICK q \in ro.assigned[j] : ro.devices[q + 1] = d
    BY DEF Batch
  <2>6. p \in 0 .. n - 1 /\ q \in 0 .. n - 1 /\ p # q
    BY <2>2, <2>3
  <2>7. p + 1 \in DOMAIN ro.devices /\ q + 1 \in DOMAIN ro.devices
    BY <2>1, <2>6 DEF Size
  <2>8. p + 1 # q + 1
    BY <2>6
  <2> QED
    BY <2>4, <2>5, <2>7, <2>8
<1> QED BY <1>1, Inductive, PTL

\* At every stage exactly the least head of the list that makes up the stage's
\* percentage has been handed out, for every list and every cumulative
\* thresholds (create_staged_rollout, advance_stage).
THEOREM ShareIsReached == Spec => []ReachedShare
<1>1. IInv => ReachedShare
  <2> SUFFICES ASSUME IInv, NEW r \in RolloutIds, Exists(r),
                      Cumulative(rollouts[r].stages)
               PROVE  LET ro == rollouts[r]
                          share == Size(ro) * Lesser(ro.stages[ro.current + 1], 100)
                      IN  \E k \in 0 .. Size(ro) :
                            /\ Reached(ro) = 0 .. k - 1
                            /\ 100 * k >= share /\ 100 * (k - 1) < share
    BY DEF ReachedShare
  <2> DEFINE ro == rollouts[r]
             n == Size(ro)
             pct == ro.stages[ro.current + 1]
             k == Target(n, pct)
  <2>1. /\ n \in Nat /\ n # 0 /\ WellFormed(ro) /\ HandedOut(ro)
        /\ ro.stages \in Seq(Int) /\ ro.current + 1 \in DOMAIN ro.stages
    BY DEF IInv, Shape, Served, WellFormed, Rollout, Size
  <2>2. pct \in Int /\ pct >= 0
    BY <2>1 DEF Cumulative, NonNegative
  <2>3. Reached(ro) = 0 .. k - 1
    BY <2>1, HeadReached DEF Asked
  <2>4. /\ k \in 0 .. n
        /\ 100 * k >= n * Lesser(pct, 100)
        /\ 100 * (k - 1) < n * Lesser(pct, 100)
    BY <2>1, <2>2, TargetRange
  <2> HIDE DEF k
  <2> QED BY <2>3, <2>4
<1> QED BY <1>1, Inductive, PTL

\* A rollout is completed at its last stage only.
EndsAtLast ==
  \A r \in RolloutIds :
    rollouts[r].status = "completed" =>
      rollouts[r].current + 1 = Len(rollouts[r].stages)

\* advance_stage completes at the last stage; nothing moves a completed rollout.
LEMMA KeepsEnd == IInv /\ EndsAtLast /\ [Next]_rollouts => EndsAtLast'
<1> SUFFICES ASSUME IInv, EndsAtLast, [Next]_rollouts PROVE EndsAtLast'
  OBVIOUS
<1>1. rollouts \in [RolloutIds -> Rollout \cup {None}]
  BY DEF IInv
<1>2. ASSUME NEW r \in RolloutIds, NEW devices \in DeviceLists,
             NEW stages \in StageLists, CreateStagedRollout(r, devices, stages)
      PROVE  EndsAtLast'
  BY <1>1, <1>2 DEF CreateStagedRollout, EndsAtLast
<1>3. ASSUME NEW r \in RolloutIds, AdvanceStage(r) PROVE EndsAtLast'
  <2> DEFINE ro == rollouts[r]
  <2>1. ro.status = "active" /\ Exists(r)
    BY <1>3 DEF AdvanceStage, Exists
  <2>2. ro \in Rollout /\ ro.current + 1 \in 1 .. Len(ro.stages)
        /\ ro.current \in Nat /\ Len(ro.stages) \in Nat
    BY <2>1 DEF IInv, Shape, WellFormed, Rollout
  <2>3. CASE ro.current + 1 >= Len(ro.stages)
    <3>1. ro.current + 1 = Len(ro.stages)
      BY <2>2, <2>3, SMT
    <3>2. rollouts' = [rollouts EXCEPT ![r].status = "completed"]
      BY <1>3, <2>3 DEF AdvanceStage
    <3>3. /\ \A q \in RolloutIds : q # r => rollouts'[q] = rollouts[q]
          /\ rollouts'[r].current = ro.current /\ rollouts'[r].stages = ro.stages
      BY <1>1, <2>2, <3>2 DEF Rollout
    <3> QED
      BY <3>1, <3>3 DEF EndsAtLast
  <2>4. CASE ~(ro.current + 1 >= Len(ro.stages))
    <3>1. rollouts' = [rollouts EXCEPT ![r].current = @ + 1]
      BY <1>3, <2>4 DEF AdvanceStage
    <3>2. /\ \A q \in RolloutIds : q # r => rollouts'[q] = rollouts[q]
          /\ rollouts'[r].status = "active"
      BY <1>1, <2>1, <2>2, <3>1 DEF Rollout
    <3> QED
      BY <3>2 DEF EndsAtLast
  <2> QED
    BY <2>3, <2>4
<1>4. ASSUME NEW r \in RolloutIds, CancelRollout(r) PROVE EndsAtLast'
  <2>1. rollouts[r] \in Rollout
    BY <1>1, <1>4 DEF CancelRollout, None
  <2>2. /\ \A q \in RolloutIds : q # r => rollouts'[q] = rollouts[q]
        /\ rollouts'[r].status = "cancelled"
    BY <1>1, <1>4, <2>1 DEF CancelRollout, Rollout
  <2> QED
    BY <2>2 DEF EndsAtLast
<1>5. CASE Restart
  BY <1>5 DEF Restart, None, EndsAtLast
<1>6. CASE UNCHANGED rollouts
  BY <1>6 DEF EndsAtLast
<1> QED
  BY <1>2, <1>3, <1>4, <1>5, <1>6 DEF Next

\* A completed rollout is at its last stage and, when one of its thresholds
\* asks for everything and none is below zero, has handed out the whole list,
\* whatever the order of the thresholds (deployment.py, advance_stage).
THEOREM CompletionCovers == Spec => []CompletedCovers
<1>1. Init => EndsAtLast
  BY DEF Init, EndsAtLast, None
<1>2. IInv /\ EndsAtLast => CompletedCovers
  <2> SUFFICES ASSUME IInv, EndsAtLast, NEW r \in RolloutIds,
                      rollouts[r].status = "completed"
               PROVE  LET ro == rollouts[r]
                      IN  /\ ro.current + 1 = Len(ro.stages)
                          /\ /\ NonNegative(ro.stages)
                             /\ \E i \in DOMAIN ro.stages : ro.stages[i] >= 100
                             => Reached(ro) = 0 .. Size(ro) - 1
    BY DEF CompletedCovers
  <2> DEFINE ro == rollouts[r]
             n == Size(ro)
             T(k) == Target(n, ro.stages[k])
  <2>1. ro.current + 1 = Len(ro.stages)
    BY DEF EndsAtLast
  <2>2. /\ n \in Nat /\ ro.stages \in Seq(Int) /\ HandedOut(ro)
        /\ ro.assigned = AssignStages(n, ro.stages)
    BY DEF IInv, Shape, Served, WellFormed, Rollout, Exists, Size
  <2>3. ASSUME NonNegative(ro.stages),
               NEW i \in DOMAIN ro.stages, ro.stages[i] >= 100
        PROVE  Reached(ro) = 0 .. n - 1
    <3>1. ro.stages[i] \in Int
      BY <2>2
    <3>2. T(i) = n
      <4> DEFINE pct == ro.stages[i]
      <4>1. pct \in Int /\ pct >= 0 /\ pct >= 100
        BY <2>3, <3>1
      <4> HIDE DEF pct, n
      <4>2. /\ Target(n, pct) \in 0 .. n
            /\ 100 * Target(n, pct) >= n * Lesser(pct, 100)
        BY <2>2, <4>1, TargetRange
      <4>3. Lesser(pct, 100) = 100
        BY <4>1, SMT DEF Lesser
      <4>4. Target(n, pct) = n
        BY <2>2, <4>2, <4>3, SMT
      <4> QED
        BY <4>4 DEF pct
    <3>3. i \in 1 .. ro.current + 1
      BY <2>1, <2>2
    <3>4. 0 .. n - 1 \subseteq Reached(ro)
      BY <2>2, <2>3, <3>2, <3>3 DEF HandedOut, Asked
    <3>5. ASSUME NEW k \in 1 .. ro.current + 1
          PROVE  ro.assigned[k] \subseteq 0 .. n - 1
      <4>1. k \in DOMAIN ro.stages
        BY <2>1, <2>2
      <4> QED
        BY <2>2, <2>3, <4>1, BatchInList, Zenon
    <3> QED
      BY <3>4, <3>5 DEF Reached
  <2> QED
    BY <2>1, <2>3
<1> QED
  BY <1>1, <1>2, Inductive, KeepsEnd, PTL DEF Spec

\* An existing rollout moves one stage at a time while it is active, keeps its
\* batches, or vanishes with every other one (advance_stage, cancel_rollout).
THEOREM StagesInOrder == Spec => OneStageAtATime
<1>1. IInv /\ [Next]_rollouts =>
        [\A r \in RolloutIds :
           Exists(r) /\ rollouts'[r] # rollouts[r] =>
             \/ \A q \in RolloutIds : ~Exists(q)'
             \/ /\ rollouts[r].status = "active"
                /\ rollouts'[r].assigned = rollouts[r].assigned
                /\ rollouts'[r].current \in
                     {rollouts[r].current, rollouts[r].current + 1}]_rollouts
  <2> SUFFICES ASSUME IInv, Next, NEW r \in RolloutIds,
                      Exists(r), rollouts'[r] # rollouts[r],
                      ~ \A q \in RolloutIds : ~Exists(q)'
               PROVE  /\ rollouts[r].status = "active"
                      /\ rollouts'[r].assigned = rollouts[r].assigned
                      /\ rollouts'[r].current \in
                           {rollouts[r].current, rollouts[r].current + 1}
    OBVIOUS
  <2>1. rollouts \in [RolloutIds -> Rollout \cup {None}] /\ rollouts[r] \in Rollout
    BY DEF IInv, Shape, WellFormed
  <2>2. ~Restart
    BY DEF Restart, Exists, None
  <2>3. ASSUME NEW q \in RolloutIds, NEW devices \in DeviceLists,
               NEW stages \in StageLists, CreateStagedRollout(q, devices, stages)
        PROVE  FALSE
    BY <2>1, <2>3 DEF CreateStagedRollout
  <2>4. ASSUME NEW q \in RolloutIds, AdvanceStage(q)
        PROVE  /\ rollouts[r].status = "active"
               /\ rollouts'[r].assigned = rollouts[r].assigned
               /\ rollouts'[r].current \in
                    {rollouts[r].current, rollouts[r].current + 1}
    BY <2>1, <2>4 DEF AdvanceStage, Rollout
  <2>5. ASSUME NEW q \in RolloutIds, CancelRollout(q)
        PROVE  /\ rollouts[r].status = "active"
               /\ rollouts'[r].assigned = rollouts[r].assigned
               /\ rollouts'[r].current = rollouts[r].current
    BY <2>1, <2>5 DEF CancelRollout, Rollout
  <2> QED
    BY <2>2, <2>3, <2>4, <2>5 DEF Next
<1> QED
  BY <1>1, Inductive, PTL DEF Spec, OneStageAtATime
=============================================================================
