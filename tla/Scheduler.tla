------------------------------ MODULE Scheduler ------------------------------
(***************************************************************************)
(* The shared admission of Feishu requests (scripts/hostd/scheduler.py):   *)
(* threads call run(); a call waits in one queue until it is the one that  *)
(* _choose picks, then runs outside the lock and ends.  Everything under   *)
(* the condition's lock is one action; condition.wait polls at least every *)
(* 0.25 s, so a waiting thread may look at the queue at any time.          *)
(*                                                                         *)
(* Tokens are counted in 1/seconds of a token, so they are exact here.     *)
(***************************************************************************)
EXTENDS Integers, FiniteSets, Sequences, SequencesExt

CONSTANTS
    Threads,        \* calling threads; each one repeats one kind of call
    Pair,           \* the app/chat lane of each thread's calls
    Priority,       \* "normal" or "backfill"
    Budgets,        \* the rate budgets
    BudgetsOf,      \* the budgets a lane draws on: its app's two, its chat's
    Limit,          \* requests ...
    Seconds,        \* ... per so many ticks, for each budget
    Burst,          \* 1: the bucket's capacity, at most the limit
    NormalBurst,    \* 8: contested normal starts before a backfill one
    MaxPending,     \* 1024: the queue's limit
    Timeout,        \* how long a call waits for admission
    MaxTime,        \* bound: the last tick
    NoThread        \* no thread holds the lane

Lanes == {Pair[t] : t \in Threads}

ASSUME SchedulerAssumption ==
    /\ \A t \in Threads : Priority[t] \in {"normal", "backfill"}
    /\ \A p \in Lanes : BudgetsOf[p] \subseteq Budgets
    /\ \A b \in Budgets : Limit[b] \in Nat \ {0} /\ Seconds[b] \in Nat \ {0}
    /\ {Burst, NormalBurst, MaxPending, Timeout} \subseteq Nat \ {0}
    /\ MaxTime \in Nat
    /\ NoThread \notin Threads

VARIABLES
    now,        \* clock()
    queue,      \* the waiting calls, oldest first
    owner,      \* active: the thread whose call holds each lane
    call,       \* what each thread is doing
    deadline,   \* when its wait ends
    tokens,     \* tokens of each budget, in 1/Seconds[b], as of updated
    updated,
    starts,     \* the admissions charged to each budget, oldest first
    streak,     \* normal_streak
    closed,
    cancelled,  \* the threads whose cancel event is set
    overtaken   \* history: normal starts that passed an eligible backfill call
                \* since the last backfill start

budgetVars == <<tokens, updated, starts>>
schedVars == <<now, queue, owner, call, deadline, budgetVars, streak, closed,
              cancelled, overtaken>>

-----------------------------------------------------------------------------
(* _Budget *)

Full(b) == Seconds[b] * (IF Limit[b] < Burst THEN Limit[b] ELSE Burst)

\* The bucket after the time since it was last looked at.
Refilled(b) ==
    LET t == tokens[b] + (now - updated[b]) * Limit[b]
    IN  IF t < Full(b) THEN t ELSE Full(b)

\* Mutant of Ready: tokens alone pace the budget.
HasToken(b) == Refilled(b) >= Seconds[b]

\* delay(now) <= 0: a whole token, and fewer than Limit[b] starts within the
\* last Seconds[b] ticks, i.e. the Limit[b]-th last one has left the deque.
Ready(b) ==
    LET n == Len(starts[b])
    IN  /\ Refilled(b) >= Seconds[b]
        /\ n < Limit[b] \/ starts[b][n - Limit[b] + 1] <= now - Seconds[b]

Spend(B) ==
    /\ tokens' = [b \in Budgets |-> IF b \in B THEN Refilled(b) - Seconds[b] ELSE tokens[b]]
    /\ updated' = [b \in Budgets |-> IF b \in B THEN now ELSE updated[b]]
    /\ starts' = [b \in Budgets |-> IF b \in B THEN Append(starts[b], now) ELSE starts[b]]

-----------------------------------------------------------------------------
(* _choose *)

\* Mutant of Eligible: a busy lane is not passed over.
InBudget(t) == \A b \in BudgetsOf[Pair[t]] : Ready(b)

Eligible(t) == owner[Pair[t]] = NoThread /\ \A b \in BudgetsOf[Pair[t]] : Ready(b)

\* The eligible calls of a priority.
Able(priority) == {t \in ToSet(queue) : Eligible(t) /\ Priority[t] = priority}

\* t was queued before u.
Before(t, u) == \E i, j \in 1 .. Len(queue) : i < j /\ queue[i] = t /\ queue[j] = u

\* Mutant of NormalTurn: one contested normal start too many.
NormalTurnLate == Able("backfill") = {} \/ streak <= NormalBurst

\* A normal call goes before the eligible backfill calls.
NormalTurn == Able("backfill") = {} \/ streak < NormalBurst

\* Mutant of Chosen: the first eligible thread to wake takes the turn.
ChosenAwake(t) ==
    /\ t \in Able(Priority[t])
    /\ IF Priority[t] = "normal" THEN NormalTurn ELSE Able("normal") = {} \/ ~ NormalTurn

\* _choose picks t: the oldest eligible call of the priority whose turn it is.
Chosen(t) ==
    /\ t \in Able(Priority[t])
    /\ \A u \in Able(Priority[t]) : ~ Before(u, t)
    /\ IF Priority[t] = "normal" THEN NormalTurn ELSE Able("normal") = {} \/ ~ NormalTurn

-----------------------------------------------------------------------------
(* run and close *)

Without(t) == RemoveFirst(queue, t)

\* A call is queued, unless the scheduler is closed or full: then it raises
\* AdmissionError and nothing changes.
Request(t) ==
    /\ call[t] = "out"
    /\ ~ closed
    /\ Len(queue) < MaxPending
    /\ now + Timeout <= MaxTime
    /\ queue' = Append(queue, t)
    /\ call' = [call EXCEPT ![t] = "waiting"]
    /\ deadline' = [deadline EXCEPT ![t] = now + Timeout]
    /\ UNCHANGED <<now, owner, budgetVars, streak, closed, cancelled, overtaken>>

\* Mutant of Stopped: the deadline is not checked.
StoppedByHand(t) == closed \/ t \in cancelled

Stopped(t) == closed \/ t \in cancelled \/ now >= deadline[t]

\* AdmissionError: the call was never dispatched.
Reject(t) ==
    /\ call[t] = "waiting"
    /\ Stopped(t)
    /\ queue' = Without(t)
    /\ call' = [call EXCEPT ![t] = "out"]
    /\ cancelled' = cancelled \ {t}
    /\ UNCHANGED <<now, owner, deadline, budgetVars, streak, closed, overtaken>>

Start(t) ==
    /\ call[t] = "waiting"
    /\ ~ Stopped(t)
    /\ Chosen(t)
    /\ Spend(BudgetsOf[Pair[t]])
    /\ queue' = Without(t)
    /\ owner' = [owner EXCEPT ![Pair[t]] = t]
    /\ call' = [call EXCEPT ![t] = "running"]
    /\ streak' = IF Priority[t] = "backfill" THEN 0
                 ELSE IF Able("backfill") # {} THEN streak + 1 ELSE streak
    /\ overtaken' = IF Priority[t] = "backfill" THEN 0
                    ELSE IF Able("backfill") # {} THEN overtaken + 1 ELSE overtaken
    /\ UNCHANGED <<now, deadline, closed, cancelled>>

\* The callable returns or raises.
Complete(t) ==
    /\ call[t] = "running"
    /\ owner' = [owner EXCEPT ![Pair[t]] = NoThread]
    /\ call' = [call EXCEPT ![t] = "out"]
    /\ cancelled' = cancelled \ {t}
    /\ UNCHANGED <<now, queue, deadline, budgetVars, streak, closed, overtaken>>

Close ==
    /\ closed' = TRUE
    /\ UNCHANGED <<now, queue, owner, call, deadline, budgetVars, streak, cancelled, overtaken>>

\* The caller of a waiting or running call sets its cancel event.
SetCancel(t) ==
    /\ call[t] # "out"
    /\ cancelled' = cancelled \cup {t}
    /\ UNCHANGED <<now, queue, owner, call, deadline, budgetVars, streak, closed, overtaken>>

Tick ==
    /\ now < MaxTime
    /\ now' = now + 1
    /\ UNCHANGED <<queue, owner, call, deadline, budgetVars, streak, closed, cancelled, overtaken>>

-----------------------------------------------------------------------------
SchedInit ==
    /\ now = 0
    /\ queue = <<>>
    /\ owner = [p \in Lanes |-> NoThread]
    /\ call = [t \in Threads |-> "out"]
    /\ deadline = [t \in Threads |-> 0]
    /\ tokens = [b \in Budgets |-> Full(b)]
    /\ updated = [b \in Budgets |-> 0]
    /\ starts = [b \in Budgets |-> <<>>]
    /\ streak = 0
    /\ closed = FALSE
    /\ cancelled = {}
    /\ overtaken = 0

SchedNext ==
    \/ \E t \in Threads :
         Request(t) \/ Reject(t) \/ Start(t) \/ Complete(t) \/ SetCancel(t)
    \/ Close
    \/ Tick

SchedSpec == SchedInit /\ [][SchedNext]_schedVars

\* The clock runs and a waiting thread polls; a request in flight may hang.
SchedFairSpec ==
    /\ SchedSpec
    /\ WF_schedVars(Tick)
    /\ \A t \in Threads : WF_schedVars(Reject(t) \/ Start(t))

-----------------------------------------------------------------------------
(* Properties. *)

SchedTypeOK ==
    /\ now \in 0 .. MaxTime
    /\ queue \in Seq(Threads) /\ IsInjective(queue)
    /\ ToSet(queue) = {t \in Threads : call[t] = "waiting"}
    /\ owner \in [Lanes -> Threads \cup {NoThread}]
    /\ call \in [Threads -> {"out", "waiting", "running"}]
    /\ deadline \in [Threads -> 0 .. MaxTime]
    /\ \A b \in Budgets : /\ tokens[b] \in 0 .. Full(b)
                          /\ updated[b] \in 0 .. now
                          /\ starts[b] \in Seq(0 .. now)
    /\ streak \in 0 .. NormalBurst
    /\ closed \in BOOLEAN
    /\ cancelled \subseteq Threads
    /\ overtaken \in Nat

\* At most one request of an app and a chat is in flight, and the lane is
\* released exactly when it ends: two threads never overlap in a lane and no
\* lane stays taken by a call that is over (scheduler.py:132, 171, 188).
LaneExclusive == \A t \in Threads : call[t] = "running" <=> owner[Pair[t]] = t

\* The queue holds exactly the waiting calls and a lane its running one
\* (scheduler.py).
SchedSafe == SchedTypeOK /\ LaneExclusive

\* In every window of a budget's length at most its limit of requests start,
\* for all threads together, whatever the bucket's burst
\* (scheduler.py:4-5 "rolling guards also enforce the documented ceilings").
RollingCeiling ==
    \A b \in Budgets : \A i \in 1 .. Len(starts[b]) :
        i + Limit[b] <= Len(starts[b]) => starts[b][i + Limit[b]] - starts[b][i] >= Seconds[b]

\* Calls of one lane and one priority start in the order they were queued
\* (scheduler.py:84 "FIFO applies within each priority").
LaneFifo ==
    [][\A t \in Threads : call[t] = "waiting" /\ call'[t] = "running" =>
         \A u \in ToSet(queue) :
             Pair[u] = Pair[t] /\ Priority[u] = Priority[t] => ~ Before(u, t)]_schedVars

\* At most NormalBurst normal calls start ahead of a backfill call that could
\* have started, before some backfill call does (scheduler.py:83-84).
BackfillBound == overtaken <= NormalBurst

\* A call that waits always gets its answer: it starts, or it is rejected in
\* time, also when the scheduler closes or its lane never frees up.
EventuallyAnswered == \A t \in Threads : call[t] = "waiting" ~> call[t] # "waiting"
=============================================================================
