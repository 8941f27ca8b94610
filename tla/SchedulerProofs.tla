---------------------------- MODULE SchedulerProofs ----------------------------
(***************************************************************************)
(* Lane exclusion, rolling ceilings and bounded overtaking of admission,   *)
(* proved for every set of threads, lanes, budgets and limits.             *)
(***************************************************************************)
EXTENDS Scheduler, DataLemmas, TLAPS

-----------------------------------------------------------------------------
(* Lane exclusion. *)

\* The part of the type invariant that the lanes need.
LaneTypeOK ==
    /\ owner \in [Lanes -> Threads \cup {NoThread}]
    /\ call \in [Threads -> {"out", "waiting", "running"}]

\* LaneExclusive needs only LaneTypeOK to be inductive: a lane is taken only
\* when it is free, and given back only by the call that holds it.
LaneInv == LaneTypeOK /\ LaneExclusive

\* Every thread has a lane.
LEMMA PairInLanes == \A t \in Threads : Pair[t] \in Lanes
  BY DEF Lanes

\* At the start no call runs and no lane is taken.
LEMMA LaneInit == SchedInit => LaneInv
  <1> SUFFICES ASSUME SchedInit PROVE LaneInv
    OBVIOUS
  <1>1. LaneTypeOK
    BY DEF SchedInit, LaneTypeOK
  <1>2. LaneExclusive
    BY PairInLanes, SchedulerAssumption
    DEF SchedInit, LaneExclusive, SchedulerAssumption
  <1> QED
    BY <1>1, <1>2 DEF LaneInv

\* Every step keeps the lanes exclusive (scheduler.py:132 and 171-188).
LEMMA LaneStep == LaneInv /\ [SchedNext]_schedVars => LaneInv'
  <1> SUFFICES ASSUME LaneInv, [SchedNext]_schedVars PROVE LaneInv'
    OBVIOUS
  <1> USE PairInLanes, SchedulerAssumption
      DEF LaneInv, LaneTypeOK, LaneExclusive, SchedulerAssumption
  <1>1. ASSUME NEW t \in Threads, Request(t) PROVE LaneInv'
    BY <1>1 DEF Request
  <1>2. ASSUME NEW t \in Threads, Reject(t) PROVE LaneInv'
    BY <1>2 DEF Reject
  <1>3. ASSUME NEW t \in Threads, Start(t) PROVE LaneInv'
    <2>1. owner[Pair[t]] = NoThread
      BY <1>3 DEF Start, Chosen, Able, Eligible
    <2>2. \A u \in Threads : Pair[u] = Pair[t] => call[u] # "running"
      BY <2>1
    <2>3. LaneTypeOK'
      BY <1>3 DEF Start
    <2>4. LaneExclusive'
      <3> SUFFICES ASSUME NEW u \in Threads
                   PROVE call'[u] = "running" <=> owner'[Pair[u]] = u
        BY DEF LaneExclusive
      <3>1. CASE u = t
        BY <1>3, <3>1 DEF Start
      <3>2. CASE u # t /\ Pair[u] = Pair[t]
        BY <1>3, <2>2, <3>2 DEF Start
      <3>3. CASE u # t /\ Pair[u] # Pair[t]
        BY <1>3, <3>3 DEF Start
      <3> QED
        BY <3>1, <3>2, <3>3
    <2> QED
      BY <2>3, <2>4
  <1>4. ASSUME NEW t \in Threads, Complete(t) PROVE LaneInv'
    <2>1. LaneTypeOK'
      BY <1>4 DEF Complete
    <2>2. LaneExclusive'
      <3> SUFFICES ASSUME NEW u \in Threads
                   PROVE call'[u] = "running" <=> owner'[Pair[u]] = u
        BY DEF LaneExclusive
      <3>1. owner[Pair[t]] = t
        BY <1>4 DEF Complete
      <3>2. CASE u = t
        BY <1>4, <3>2 DEF Complete
      <3>3. CASE u # t /\ Pair[u] = Pair[t]
        BY <1>4, <3>1, <3>3 DEF Complete
      <3>4. CASE u # t /\ Pair[u] # Pair[t]
        BY <1>4, <3>4 DEF Complete
      <3> QED
        BY <3>2, <3>3, <3>4
    <2> QED
      BY <2>1, <2>2
  <1>5. ASSUME NEW t \in Threads, SetCancel(t) PROVE LaneInv'
    BY <1>5 DEF SetCancel
  <1>6. CASE Close
    BY <1>6 DEF Close
  <1>7. CASE Tick
    BY <1>7 DEF Tick
  <1>8. CASE UNCHANGED schedVars
    BY <1>8 DEF schedVars
  <1> QED
    BY <1>1, <1>2, <1>3, <1>4, <1>5, <1>6, <1>7, <1>8 DEF SchedNext

\* No two requests of one app and chat are ever in flight together, and a
\* lane is held exactly as long as its request runs.
THEOREM LanesAreExclusive == SchedSpec => []LaneExclusive
  <1>1. SchedInit => LaneInv
    BY LaneInit
  <1>2. LaneInv /\ [SchedNext]_schedVars => LaneInv'
    BY LaneStep
  <1>3. LaneInv => LaneExclusive
    BY DEF LaneInv
  <1> QED
    BY <1>1, <1>2, <1>3, PTL DEF SchedSpec

-----------------------------------------------------------------------------
(* The bound on overtaking. *)

\* The code's counter counts exactly the normal starts that overtook an
\* eligible backfill call.
BurstInv ==
    /\ streak \in 0 .. NormalBurst
    /\ overtaken = streak

\* Every step keeps the counter exact and within its bound: a normal start
\* that passes an eligible backfill call needs streak < NormalBurst.
LEMMA BurstStep == BurstInv /\ [SchedNext]_schedVars => BurstInv'
  <1> SUFFICES ASSUME BurstInv, [SchedNext]_schedVars PROVE BurstInv'
    OBVIOUS
  <1> USE SchedulerAssumption DEF BurstInv, SchedulerAssumption
  <1>1. ASSUME NEW t \in Threads, Start(t) PROVE BurstInv'
    <2>1. CASE Priority[t] = "backfill"
      BY <1>1, <2>1 DEF Start
    <2>2. CASE Priority[t] = "normal" /\ Able("backfill") # {}
      <3>1. streak < NormalBurst
        BY <1>1, <2>2 DEF Start, Chosen, NormalTurn
      <3> QED
        BY <1>1, <2>2, <3>1 DEF Start
    <2>3. CASE Priority[t] = "normal" /\ Able("backfill") = {}
      BY <1>1, <2>3 DEF Start
    <2> QED
      BY <2>1, <2>2, <2>3
  <1>2. ASSUME NEW t \in Threads,
               Request(t) \/ Reject(t) \/ Complete(t) \/ SetCancel(t)
        PROVE  BurstInv'
    BY <1>2 DEF Request, Reject, Complete, SetCancel
  <1>3. CASE Close \/ Tick
    BY <1>3 DEF Close, Tick
  <1>4. CASE UNCHANGED schedVars
    BY <1>4 DEF schedVars
  <1> QED
    BY <1>1, <1>2, <1>3, <1>4 DEF SchedNext

\* At most NormalBurst normal calls start ahead of a backfill call that could
\* have started, before some backfill call does.
THEOREM BackfillIsBounded == SchedSpec => []BackfillBound
  <1>1. SchedInit => BurstInv
    BY SchedulerAssumption DEF SchedInit, BurstInv, SchedulerAssumption
  <1>2. BurstInv /\ [SchedNext]_schedVars => BurstInv'
    BY BurstStep
  <1>3. BurstInv => BackfillBound
    BY SchedulerAssumption DEF BurstInv, BackfillBound, SchedulerAssumption
  <1> QED
    BY <1>1, <1>2, <1>3, PTL DEF SchedSpec

-----------------------------------------------------------------------------
(* The rate ceilings. *)

StartsTypeOK ==
    /\ now \in Nat
    /\ starts \in [Budgets -> Seq(Nat)]

\* RollingCeiling is inductive: a start is charged to a budget only when its
\* Limit-th last start is at least Seconds old.
RateInv == StartsTypeOK /\ RollingCeiling

\* Charging a ready budget keeps its ceiling.
LEMMA ChargeKeepsCeiling ==
    ASSUME RateInv, NEW b \in Budgets, Ready(b)
    PROVE  LET new == Append(starts[b], now)
           IN  \A i \in 1 .. Len(new) :
                 i + Limit[b] <= Len(new) => new[i + Limit[b]] - new[i] >= Seconds[b]
  <1> DEFINE old == starts[b]
             new == Append(old, now)
  <1> USE SchedulerAssumption DEF SchedulerAssumption, RateInv, StartsTypeOK
  <1>1. old \in Seq(Nat) /\ Len(old) \in Nat
    OBVIOUS
  <1>2. Limit[b] \in Nat \ {0} /\ Seconds[b] \in Nat \ {0}
    OBVIOUS
  <1>3. /\ Len(new) = Len(old) + 1
        /\ new[Len(old) + 1] = now
        /\ \A i \in 1 .. Len(old) : new[i] = old[i]
    BY <1>1
  <1>4. SUFFICES ASSUME NEW i \in 1 .. Len(new), i + Limit[b] <= Len(new)
                 PROVE  new[i + Limit[b]] - new[i] >= Seconds[b]
    OBVIOUS
  <1>5. i \in 1 .. Len(old)
    BY <1>1, <1>2, <1>3, <1>4
  <1>6. CASE i + Limit[b] <= Len(old)
    <2>1. old[i + Limit[b]] - old[i] >= Seconds[b]
      BY <1>5, <1>6 DEF RollingCeiling
    <2>2. new[i + Limit[b]] = old[i + Limit[b]] /\ new[i] = old[i]
      BY <1>1, <1>2, <1>3, <1>5, <1>6
    <2> QED
      BY <2>1, <2>2
  <1>7. CASE i + Limit[b] = Len(old) + 1
    <2>1. i = Len(old) - Limit[b] + 1
      <3>1. \A x, y, z \in Int : x + y = z + 1 => x = z - y + 1
        OBVIOUS
      <3>2. i \in Int /\ Limit[b] \in Int /\ Len(old) \in Int
        BY <1>1, <1>2, <1>5
      <3> QED
        BY <3>1, <3>2, <1>7
    <2>2. old[i] <= now - Seconds[b]
      BY <1>1, <1>2, <1>5, <1>7, <2>1 DEF Ready
    <2>3. new[i + Limit[b]] = now /\ new[i] = old[i] /\ old[i] \in Nat
      BY <1>1, <1>3, <1>5, <1>7
    <2>4. \A x, y, z \in Int : x <= y - z => y - x >= z
      OBVIOUS
    <2>5. now \in Int /\ old[i] \in Int /\ Seconds[b] \in Int
      BY <1>2, <2>3
    <2> QED
      BY <2>2, <2>3, <2>4, <2>5
  <1>8. i + Limit[b] <= Len(old) \/ i + Limit[b] = Len(old) + 1
    <2>1. \A x, y, z \in Int : x + y <= z + 1 => x + y <= z \/ x + y = z + 1
      OBVIOUS
    <2>2. i \in Int /\ Limit[b] \in Int /\ Len(old) \in Int
      BY <1>1, <1>2, <1>5
    <2>3. i + Limit[b] <= Len(old) + 1
      BY <1>3, <1>4
    <2> QED
      BY <2>1, <2>2, <2>3
  <1> QED
    BY <1>6, <1>7, <1>8

\* Every step keeps every ceiling: only Start charges budgets, and only ready
\* ones (scheduler.py:129-135, 169).
LEMMA RateStep == RateInv /\ [SchedNext]_schedVars => RateInv'
  <1> SUFFICES ASSUME RateInv, [SchedNext]_schedVars PROVE RateInv'
    OBVIOUS
  <1> USE SchedulerAssumption DEF SchedulerAssumption
  <1>1. ASSUME NEW t \in Threads, Start(t) PROVE RateInv'
    <2> DEFINE B == BudgetsOf[Pair[t]]
    <2>1. \A b \in B : Ready(b)
      BY <1>1 DEF Start, Chosen, Able, Eligible
    <2>2. /\ starts' = [b \in Budgets |-> IF b \in B THEN Append(starts[b], now)
                                          ELSE starts[b]]
          /\ now' = now
      BY <1>1 DEF Start, Spend
    <2>3. StartsTypeOK'
      BY <2>2 DEF RateInv, StartsTypeOK
    <2>4. RollingCeiling'
      <3> SUFFICES ASSUME NEW b \in Budgets
                   PROVE \A i \in 1 .. Len(starts'[b]) :
                           i + Limit[b] <= Len(starts'[b]) =>
                             starts'[b][i + Limit[b]] - starts'[b][i] >= Seconds[b]
        BY DEF RollingCeiling
      <3>1. CASE b \in B
        <4>1. starts'[b] = Append(starts[b], now)
          BY <2>2, <3>1
        <4> QED
          BY <2>1, <3>1, <4>1, ChargeKeepsCeiling
      <3>2. CASE b \notin B
        BY <2>2, <3>2 DEF RateInv, RollingCeiling
      <3> QED
        BY <3>1, <3>2
    <2> QED
      BY <2>3, <2>4 DEF RateInv
  <1>2. CASE Tick
    BY <1>2 DEF Tick, budgetVars, RateInv, StartsTypeOK, RollingCeiling
  <1>3. ASSUME NEW t \in Threads,
               Request(t) \/ Reject(t) \/ Complete(t) \/ SetCancel(t)
        PROVE  RateInv'
    BY <1>3 DEF Request, Reject, Complete, SetCancel, budgetVars,
                RateInv, StartsTypeOK, RollingCeiling
  <1>4. CASE Close
    BY <1>4 DEF Close, budgetVars, RateInv, StartsTypeOK, RollingCeiling
  <1>5. CASE UNCHANGED schedVars
    BY <1>5 DEF schedVars, budgetVars, RateInv, StartsTypeOK, RollingCeiling
  <1> QED
    BY <1>1, <1>2, <1>3, <1>4, <1>5 DEF SchedNext

\* In every window of a budget's length at most its limit of requests start,
\* for every limit, window and burst, and whatever the callers do.
THEOREM CeilingsHold == SchedSpec => []RollingCeiling
  <1>1. SchedInit => RateInv
    BY DEF SchedInit, RateInv, StartsTypeOK, RollingCeiling
  <1>2. RateInv /\ [SchedNext]_schedVars => RateInv'
    BY RateStep
  <1>3. RateInv => RollingCeiling
    BY DEF RateInv
  <1> QED
    BY <1>1, <1>2, <1>3, PTL DEF SchedSpec
-----------------------------------------------------------------------------
(* Types, and what the queue holds. *)

\* SchedTypeOK is inductive, in three parts: the queue and the calls in it ...
QueueOK ==
    /\ queue \in Seq(Threads) /\ IsInjective(queue)
    /\ ToSet(queue) = {t \in Threads : call[t] = "waiting"}
    /\ call \in [Threads -> {"out", "waiting", "running"}]

\* ... the budgets ...
BudgetOK ==
    \A b \in Budgets : /\ tokens[b] \in 0 .. Full(b)
                       /\ updated[b] \in 0 .. now
                       /\ starts[b] \in Seq(0 .. now)

\* ... and the rest.
ClockOK ==
    /\ now \in 0 .. MaxTime
    /\ owner \in [Lanes -> Threads \cup {NoThread}]
    /\ deadline \in [Threads -> 0 .. MaxTime]
    /\ closed \in BOOLEAN
    /\ cancelled \subseteq Threads

\* The three parts and the burst counter are the type invariant.
LEMMA SchedParts == QueueOK /\ BudgetOK /\ ClockOK /\ BurstInv => SchedTypeOK
  BY DEF QueueOK, BudgetOK, ClockOK, BurstInv, SchedTypeOK

\* A queue without one of its calls, and with a new one at its end.
LEMMA QueueStep == QueueOK /\ [SchedNext]_schedVars => QueueOK'
  <1> SUFFICES ASSUME QueueOK, [SchedNext]_schedVars PROVE QueueOK'
    OBVIOUS
  <1> USE DEF QueueOK
  <1>1. ASSUME NEW t \in Threads, Request(t) PROVE QueueOK'
    <2>1. t \notin ToSet(queue) /\ queue' = Append(queue, t)
      BY <1>1 DEF Request
    <2>2. queue' \in Seq(Threads) /\ IsInjective(queue') /\ ToSet(queue') = ToSet(queue) \cup {t}
      BY <2>1, AppendedToQueue
    <2> QED
      BY <1>1, <2>2 DEF Request
  <1>2. ASSUME NEW t \in Threads, Reject(t) \/ Start(t) PROVE QueueOK'
    <2>1. queue' = RemoveFirst(queue, t)
      BY <1>2 DEF Reject, Start, Without
    <2>2. queue' \in Seq(Threads) /\ IsInjective(queue') /\ ToSet(queue') = ToSet(queue) \ {t}
      BY <2>1, RemovedFromQueue
    <2>3. \E s \in {"out", "running"} : call' = [call EXCEPT ![t] = s]
      BY <1>2 DEF Reject, Start
    <2> QED
      BY <2>2, <2>3
  <1>3. ASSUME NEW t \in Threads, Complete(t) PROVE QueueOK'
    BY <1>3 DEF Complete
  <1>4. ASSUME NEW t \in Threads, SetCancel(t) PROVE QueueOK'
    BY <1>4 DEF SetCancel
  <1>5. CASE Close
    BY <1>5 DEF Close
  <1>6. CASE Tick
    BY <1>6 DEF Tick
  <1>7. CASE UNCHANGED schedVars
    BY <1>7 DEF schedVars
  <1> QED
    BY <1>1, <1>2, <1>3, <1>4, <1>5, <1>6, <1>7 DEF SchedNext

\* Products of naturals.
LEMMA NatProduct == \A x, y \in Nat : x * y \in Nat
  OBVIOUS

\* A bucket never holds more than its capacity, nor less than nothing.
LEMMA RefilledTyped ==
    ASSUME BudgetOK, now \in Nat, NEW b \in Budgets
    PROVE  /\ Full(b) \in Nat
           /\ Refilled(b) \in 0 .. Full(b)
  <1> USE SchedulerAssumption DEF SchedulerAssumption
  <1>1. Full(b) \in Nat
    <2>1. (IF Limit[b] < Burst THEN Limit[b] ELSE Burst) \in Nat /\ Seconds[b] \in Nat
      OBVIOUS
    <2> QED
      BY <2>1, NatProduct DEF Full
  <1>2. tokens[b] \in 0 .. Full(b) /\ updated[b] \in 0 .. now
    BY DEF BudgetOK
  <1>3. (now - updated[b]) * Limit[b] \in Nat
    <2>1. now - updated[b] \in Nat /\ Limit[b] \in Nat
      BY <1>2
    <2> QED
      BY <2>1, NatProduct
  <1> DEFINE gain == (now - updated[b]) * Limit[b]
  <1>4. Refilled(b) = IF tokens[b] + gain < Full(b) THEN tokens[b] + gain ELSE Full(b)
    BY DEF Refilled
  <1> HIDE DEF gain
  <1> QED
    BY <1>1, <1>2, <1>3, <1>4 DEF gain

\* Only Start spends tokens, of ready budgets, and only the clock ages them.
LEMMA BudgetStep == ClockOK /\ BudgetOK /\ [SchedNext]_schedVars => BudgetOK'
  <1> SUFFICES ASSUME ClockOK, BudgetOK, [SchedNext]_schedVars PROVE BudgetOK'
    OBVIOUS
  <1> USE SchedulerAssumption DEF SchedulerAssumption
  <1>0. now \in Nat /\ \A b \in Budgets : /\ tokens[b] \in 0 .. Full(b)
                                          /\ updated[b] \in 0 .. now
                                          /\ starts[b] \in Seq(0 .. now)
    BY DEF BudgetOK, ClockOK
  <1>1. ASSUME NEW t \in Threads, Start(t) PROVE BudgetOK'
    <2> DEFINE B == BudgetsOf[Pair[t]]
    <2>1. \A b \in B : Ready(b)
      BY <1>1 DEF Start, Chosen, Able, Eligible
    <2>2. Spend(B) /\ now' = now
      BY <1>1 DEF Start
    <2> HIDE DEF B
    <2> SUFFICES ASSUME NEW b \in Budgets
                 PROVE  /\ tokens'[b] \in 0 .. Full(b)
                        /\ updated'[b] \in 0 .. now
                        /\ starts'[b] \in Seq(0 .. now)
      BY <2>2 DEF BudgetOK, Full
    <2>3. CASE b \in B
      <3>1. Refilled(b) \in 0 .. Full(b) /\ Full(b) \in Nat
        BY <1>0, RefilledTyped
      <3>2. Refilled(b) >= Seconds[b] /\ Seconds[b] \in Nat
        BY <2>1, <2>3 DEF Ready
      <3>3. /\ tokens'[b] = Refilled(b) - Seconds[b]
            /\ updated'[b] = now
            /\ starts'[b] = Append(starts[b], now)
        BY <2>2, <2>3 DEF Spend
      <3>4. Append(starts[b], now) \in Seq(0 .. now)
        BY <1>0
      <3> QED
        BY <1>0, <3>1, <3>2, <3>3, <3>4
    <2>4. CASE b \notin B
      BY <1>0, <2>2, <2>4 DEF Spend
    <2> QED
      BY <2>3, <2>4
  <1>2. CASE Tick
    <2>1. now' = now + 1 /\ UNCHANGED <<tokens, updated, starts>>
      BY <1>2 DEF Tick, budgetVars
    <2>2. \A b \in Budgets : starts[b] \in Seq(0 .. now + 1)
      <3>1. 0 .. now \subseteq 0 .. now + 1
        BY <1>0
      <3> QED
        BY <1>0, <3>1, SeqMonotonic
    <2> QED
      BY <1>0, <2>1, <2>2 DEF BudgetOK, Full
  <1>3. ASSUME NEW t \in Threads,
               Request(t) \/ Reject(t) \/ Complete(t) \/ SetCancel(t)
        PROVE  BudgetOK'
    BY <1>3 DEF Request, Reject, Complete, SetCancel, budgetVars, BudgetOK, Full
  <1>4. CASE Close
    BY <1>4 DEF Close, budgetVars, BudgetOK, Full
  <1>5. CASE UNCHANGED schedVars
    BY <1>5 DEF schedVars, budgetVars, BudgetOK, Full
  <1> QED
    BY <1>1, <1>2, <1>3, <1>4, <1>5 DEF SchedNext

\* The clock, the lanes, the deadlines and the cancel events.
LEMMA ClockStep == ClockOK /\ [SchedNext]_schedVars => ClockOK'
  <1> SUFFICES ASSUME ClockOK, [SchedNext]_schedVars PROVE ClockOK'
    OBVIOUS
  <1> USE SchedulerAssumption, PairInLanes DEF SchedulerAssumption, ClockOK
  <1>1. ASSUME NEW t \in Threads, Request(t) PROVE ClockOK'
    BY <1>1 DEF Request
  <1>2. ASSUME NEW t \in Threads, Reject(t) PROVE ClockOK'
    BY <1>2 DEF Reject
  <1>3. ASSUME NEW t \in Threads, Start(t) PROVE ClockOK'
    BY <1>3 DEF Start
  <1>4. ASSUME NEW t \in Threads, Complete(t) PROVE ClockOK'
    BY <1>4 DEF Complete
  <1>5. ASSUME NEW t \in Threads, SetCancel(t) PROVE ClockOK'
    BY <1>5 DEF SetCancel
  <1>6. CASE Close
    BY <1>6 DEF Close
  <1>7. CASE Tick
    BY <1>7 DEF Tick
  <1>8. CASE UNCHANGED schedVars
    BY <1>8 DEF schedVars
  <1> QED
    BY <1>1, <1>2, <1>3, <1>4, <1>5, <1>6, <1>7, <1>8 DEF SchedNext

\* At the start the queue is empty and every bucket full.
LEMMA SchedStart == SchedInit => QueueOK /\ BudgetOK /\ ClockOK /\ BurstInv
  <1> SUFFICES ASSUME SchedInit PROVE QueueOK /\ BudgetOK /\ ClockOK /\ BurstInv
    OBVIOUS
  <1> USE SchedulerAssumption DEF SchedulerAssumption, SchedInit
  <1>1. QueueOK
    BY DEF QueueOK, IsInjective, ToSet
  <1>2. BudgetOK
    <2>1. ASSUME NEW b \in Budgets PROVE Full(b) \in Nat
      <3>1. (IF Limit[b] < Burst THEN Limit[b] ELSE Burst) \in Nat /\ Seconds[b] \in Nat
        OBVIOUS
      <3> QED
        BY <3>1, NatProduct DEF Full
    <2>2. \A b \in Budgets : tokens[b] = Full(b) /\ updated[b] = 0 /\ starts[b] = <<>> /\ now = 0
      OBVIOUS
    <2> QED
      BY <2>1, <2>2 DEF BudgetOK
  <1>3. ClockOK
    <2>1. now \in 0 .. MaxTime /\ deadline \in [Threads -> 0 .. MaxTime]
      OBVIOUS
    <2>2. owner \in [Lanes -> Threads \cup {NoThread}] /\ closed \in BOOLEAN /\ cancelled \subseteq Threads
      OBVIOUS
    <2> QED
      BY <2>1, <2>2 DEF ClockOK
  <1>4. BurstInv
    BY DEF BurstInv
  <1> QED
    BY <1>1, <1>2, <1>3, <1>4

\* The queue holds exactly the waiting calls, once each; a lane is held by its
\* running call; every bucket stays between empty and its capacity.
THEOREM SchedulersAreSafe == SchedSpec => []SchedSafe
  <1> DEFINE Inv == QueueOK /\ BudgetOK /\ ClockOK /\ BurstInv /\ LaneInv
  <1>1. SchedInit => Inv
    BY SchedStart, LaneInit
  <1>2. Inv /\ [SchedNext]_schedVars => Inv'
    BY QueueStep, BudgetStep, ClockStep, BurstStep, LaneStep
  <1>3. Inv => SchedSafe
    BY SchedParts DEF SchedSafe, LaneInv
  <1> QED
    BY <1>1, <1>2, <1>3, PTL DEF SchedSpec

-----------------------------------------------------------------------------
(* First in, first out. *)

FifoStep ==
    \A t \in Threads : call[t] = "waiting" /\ call'[t] = "running" =>
        \A u \in ToSet(queue) :
            Pair[u] = Pair[t] /\ Priority[u] = Priority[t] => ~ Before(u, t)

\* Calls of one lane and one priority start in the order they were queued: what
\* makes one of them eligible makes all of them, so the oldest is chosen.
THEOREM LanesAreFifo == SchedSpec => LaneFifo
  <1>1. QueueOK /\ [SchedNext]_schedVars => [FifoStep]_schedVars
    <2> SUFFICES ASSUME QueueOK, SchedNext PROVE FifoStep
      OBVIOUS
    <2> SUFFICES ASSUME NEW t \in Threads, call[t] = "waiting", call'[t] = "running",
                        NEW u \in ToSet(queue), Pair[u] = Pair[t], Priority[u] = Priority[t]
                 PROVE  ~ Before(u, t)
      BY DEF FifoStep
    <2>1. Start(t)
      BY DEF QueueOK, SchedNext, Request, Reject, Start, Complete, SetCancel, Close, Tick
    <2>2. Eligible(t)
      BY <2>1 DEF Start, Chosen, Able
    <2>3. u \in Able(Priority[t])
      BY <2>2 DEF Able, Eligible
    <2> QED
      BY <2>1, <2>3 DEF Start, Chosen
  <1>2. SchedInit => QueueOK
    BY SchedStart
  <1>3. QueueOK /\ [SchedNext]_schedVars => QueueOK'
    BY QueueStep
  <1> QED
    BY <1>1, <1>2, <1>3, PTL DEF SchedSpec, LaneFifo, FifoStep
=============================================================================
