---------------------------- MODULE AgentRestart ----------------------------
(***************************************************************************)
(* Restarts of one agent asked for at the console: the durable operations  *)
(* (scripts/hostd/console_operations.py, console_operation in store.py),   *)
(* the restart ledger (restart_operation in store.py) and the driver that  *)
(* restarts the agent's unit (scripts/hostd/agent_operations.py).          *)
(*                                                                         *)
(* An operation is named by the hash of its request key, and the ledger    *)
(* row its driver may create by the operation.  The unit's process is      *)
(* named by its incarnation, which stands for pid, start time and          *)
(* invocation.  The driver's coroutine runs on the loop (job), its         *)
(* dispatch in a worker thread (thread) that calls back to the loop and    *)
(* waits.  A restart may be carried out late, or never.                    *)
(***************************************************************************)
EXTENDS Integers, FiniteSets

CONSTANTS
    Requests,      \* request keys
    MaxProcess,    \* bound: incarnations of the unit's process
    MaxLives,      \* bound: lives of hostd
    MaxChanges,    \* bound: changes of the agent's scope
    Observations   \* looks at the process after a restart (observations)

ASSUME RestartAssumption ==
    /\ IsFiniteSet(Requests)
    /\ {MaxProcess, MaxLives, MaxChanges, Observations} \subseteq Nat

Granted   == {"scope", "wider"}                    \* agent active: its grants
Scopes    == Granted \cup {"paused", "retired"}
NoProcess == 0
OpenStates == {"queued", "dispatched", "unknown"}  \* console_one_pending_agent
Active    == {"reserved", "unknown"}               \* restart_one_active_agent

VARIABLES
    op,        \* ledger: status of each console operation ("none": no row)
    link,      \* ledger: operations linked to their restart row
    row,       \* ledger: state of each operation's restart row
    new,       \* ledger: the replacement pinned in the row
    foreign,   \* ledger: an active row of the agent made by an own-home admission
    scope,     \* the agent's status and grants
    busy,      \* the agent is in a turn
    process,   \* the unit's incarnation
    flying,    \* restarts handed to systemd and not yet carried out
    life,      \* lives of hostd so far
    up, closing,
    job,       \* each operation's coroutine
    thread,    \* its worker thread in _dispatch
    cancelled, \* the action was cancelled: by its deadline or by close
    seen,      \* scope and process the driver captured, replacement it pinned
    looks,     \* looks at the process left
    verdict,   \* the driver's result is "restarted"
    changes,   \* scope changes so far
    issued,    \* history: restarts ordered for each operation
    claimed    \* history: the process when the operation was claimed

rowVars  == <<link, row, new, foreign>>
worldVars == <<scope, busy, process, changes>>
runVars  == <<thread, seen, looks, verdict>>
hostVars == <<life, up, closing>>
restartVars == <<op, rowVars, worldVars, flying, hostVars, job, cancelled, runVars, issued, claimed>>

Ended == {"none", "done"}
Unseen == [scope |-> "retired", old |-> NoProcess, new |-> NoProcess]

RestartInit ==
    /\ op = [k \in Requests |-> "none"] /\ link = {}
    /\ row = [k \in Requests |-> "none"]
    /\ new = [k \in Requests |-> NoProcess] /\ foreign = FALSE
    /\ scope = "scope" /\ busy = FALSE /\ process = 1 /\ changes = 0
    /\ flying = {}
    /\ life = 1 /\ up = TRUE /\ closing = FALSE
    /\ job = [k \in Requests |-> "none"]
    /\ thread = [k \in Requests |-> "none"]
    /\ cancelled = {}
    /\ seen = [k \in Requests |-> Unseen]
    /\ looks = [k \in Requests |-> 0]
    /\ verdict = [k \in Requests |-> FALSE]
    /\ issued = [k \in Requests |-> 0]
    /\ claimed = [k \in Requests |-> NoProcess]

-----------------------------------------------------------------------------

\* hold_console_operation
Held(s) == IF s \in OpenStates THEN "unknown" ELSE s

\* _authorized: the console shows the agent and it is not retired.
Authorized == scope # "retired"

\* reconcile_console_restart: only the linked row's acknowledgement is a receipt.
Acknowledged(k) == k \in link /\ row[k] = "acked"

\* Mutant of Settled: what was held once is not looked up again.
SettledHeld(k, s) ==
    CASE s \in {"unknown", "none", "completed", "rejected"} -> s
      [] s \in {"queued", "dispatched"} /\ Authorized /\ Acknowledged(k) -> "completed"
      [] OTHER -> "unknown"

\* _settle of a restart
Settled(k, s) ==
    CASE s \notin OpenStates -> s
      [] s \in OpenStates /\ Authorized /\ Acknowledged(k) -> "completed"
      [] OTHER -> "unknown"

\* enqueue: one pending operation of the agent; a known key only finds its row.
Reserve(k) ==
    /\ up /\ op[k] = "none"
    /\ scope \in Granted
    /\ \A j \in Requests : op[j] \notin OpenStates
    /\ IF closing
       THEN op' = [op EXCEPT ![k] = "unknown"] /\ UNCHANGED job
       ELSE /\ op' = [op EXCEPT ![k] = "queued"]
            /\ job' = [job EXCEPT ![k] = "queued"]
    /\ UNCHANGED <<rowVars, worldVars, flying, hostVars, cancelled, runVars, issued, claimed>>

\* _execute up to the dispatch: authorize, then claim.
Execute(k) ==
    /\ job[k] = "queued" /\ k \notin cancelled
    /\ \/ /\ ~ Authorized
          /\ op' = [op EXCEPT ![k] = "rejected"]
          /\ job' = [job EXCEPT ![k] = "done"]
          /\ UNCHANGED claimed
       \/ /\ Authorized /\ scope \notin Granted
          /\ op' = [op EXCEPT ![k] = "unknown"]
          /\ job' = [job EXCEPT ![k] = "done"]
          /\ UNCHANGED claimed
       \/ /\ scope \in Granted
          /\ op' = [op EXCEPT ![k] = "dispatched"]
          /\ job' = [job EXCEPT ![k] = "starting"]
          /\ claimed' = [claimed EXCEPT ![k] = process]
    /\ UNCHANGED <<rowVars, worldVars, flying, hostVars, cancelled, runVars, issued>>

\* Where the coroutine goes when an await returns: to `next`, or to the
\* release of the agent's lock if the action was cancelled or its scope changed.
Onward(k, next) ==
    job' = [job EXCEPT ![k] =
        IF k \notin cancelled /\ seen[k].scope = scope THEN next ELSE "unlock"]

\* active_restart
ActiveRow == foreign \/ \E j \in Requests : row[j] \in Active

\* restart_for_console, _run: the scope is taken; an active row of the agent
\* is never this operation's own, so nothing is done then.
Start(k) ==
    /\ job[k] = "starting" /\ k \notin cancelled
    /\ IF scope \in Granted /\ ~ ActiveRow
       THEN /\ seen' = [seen EXCEPT ![k] = [Unseen EXCEPT !.scope = scope]]
            /\ job' = [job EXCEPT ![k] = "prepare"]
       ELSE job' = [job EXCEPT ![k] = "settle"] /\ UNCHANGED seen
    /\ UNCHANGED <<op, rowVars, worldVars, flying, hostVars, cancelled, thread, looks, verdict, issued, claimed>>

\* _prepare in a thread: the lock, which another program may hold, the files
\* and the running process.
Prepare(k) ==
    /\ job[k] = "prepare"
    /\ seen' = [seen EXCEPT ![k].old = process]
    /\ \/ Onward(k, "idle")
       \/ job' = [job EXCEPT ![k] = "unlock"]
    /\ UNCHANGED <<op, rowVars, worldVars, flying, hostVars, cancelled, thread, looks, verdict, issued, claimed>>

\* _idle in a thread, then _dispatch starts in another.
Unchanged(k) == process = seen[k].old
Idle(k) ==
    /\ job[k] = "idle"
    /\ IF Unchanged(k) /\ ~ busy /\ k \notin cancelled /\ seen[k].scope = scope
       THEN /\ job' = [job EXCEPT ![k] = "dispatch"]
            /\ thread' = [thread EXCEPT ![k] = "check"]
       ELSE job' = [job EXCEPT ![k] = "unlock"] /\ UNCHANGED thread
    /\ UNCHANGED <<op, rowVars, worldVars, flying, hostVars, cancelled, seen, looks, verdict, issued, claimed>>

-----------------------------------------------------------------------------
\* The thread goes on to `place`, everything the loop or the disk holds unchanged.
ThreadTo(k, place) ==
    /\ thread' = [thread EXCEPT ![k] = place]
    /\ UNCHANGED <<op, rowVars, worldVars, flying, hostVars, job, cancelled, seen, looks, verdict, issued, claimed>>

\* _dispatch, the checks before and after the reservation.
Check(k) ==
    /\ thread[k] \in {"check", "recheck"}
    /\ LET next == IF thread[k] = "check" THEN "admit" ELSE "live"
       IN  ThreadTo(k, IF Unchanged(k) /\ ~ busy THEN next ELSE "end")

\* The thread's wait for the loop ends without an answer: its callback, if it
\* has not run, will do nothing.
Abandon(k) ==
    /\ thread[k] \in {"admit", "live", "pin"}
    /\ ThreadTo(k, "end")

\* _admit on the loop: reserve, mark unknown and link in one transaction. When
\* time runs out inside it a bare reservation may stay, or the answer be late.
Admissible(k) ==
    /\ k \notin cancelled /\ seen[k].scope = scope
    /\ op[k] = "dispatched" /\ k \notin link
    /\ ~ ActiveRow
Marked(k) == row' = [row EXCEPT ![k] = "unknown"] /\ link' = link \cup {k}

Bare(k) == row' = [row EXCEPT ![k] = "reserved"] /\ link' = link
AdmitDispatch(k) ==
    /\ thread[k] = "admit"
    /\ \/ ~ Admissible(k) /\ UNCHANGED <<row, link>> /\ thread' = [thread EXCEPT ![k] = "end"]
       \/ Admissible(k) /\ Marked(k) /\ thread' = [thread EXCEPT ![k] = "recheck"]
       \/ Admissible(k) /\ (Marked(k) \/ Bare(k)) /\ thread' = [thread EXCEPT ![k] = "end"]
    /\ UNCHANGED <<op, new, foreign, worldVars, flying, hostVars, job, cancelled, seen, looks, verdict, issued, claimed>>

\* _admit_current on the loop: the live reservation may still dispatch.
StillLive(k) ==
    /\ k \notin cancelled /\ seen[k].scope = scope
    /\ row[k] = "unknown" /\ new[k] = NoProcess
    /\ op[k] = "dispatched" /\ k \in link
Live(k) ==
    /\ thread[k] = "live"
    /\ ThreadTo(k, IF StillLive(k) THEN "order" ELSE "end")

\* ops.restart: whatever it answers, the outcome is observed.
Order(k) ==
    /\ thread[k] = "order"
    /\ flying' = flying \cup {k}
    /\ issued' = [issued EXCEPT ![k] = @ + 1]
    /\ thread' = [thread EXCEPT ![k] = "observe"]
    /\ looks' = [looks EXCEPT ![k] = Observations]
    /\ UNCHANGED <<op, rowVars, worldVars, hostVars, job, cancelled, seen, verdict, claimed>>

\* Mutant of AfterLook: a restart that shows no effect is ordered again.
AfterLookAgain(k) == IF looks[k] <= 1 THEN "order" ELSE "observe"

\* The looks are counted; the last one ends the observation.
AfterLook(k) == IF looks[k] <= 1 THEN "end" ELSE "observe"

\* _observe with pin: the old process is looked at again, a new one pinned;
\* a pinned one must stay and its journal be complete.
Observe(k) ==
    /\ thread[k] = "observe"
    /\ \/ /\ seen[k].new = NoProcess /\ Unchanged(k)
          /\ looks' = [looks EXCEPT ![k] = @ - 1]
          /\ thread' = [thread EXCEPT ![k] = AfterLook(k)]
          /\ UNCHANGED <<verdict, seen>>
       \/ /\ seen[k].new = NoProcess /\ ~ Unchanged(k)
          /\ thread' = [thread EXCEPT ![k] = "pin"]
          /\ seen' = [seen EXCEPT ![k].new = process]
          /\ UNCHANGED <<looks, verdict>>
       \/ /\ seen[k].new # NoProcess
          /\ thread' = [thread EXCEPT ![k] = "end"]
          /\ \E complete \in BOOLEAN :
                verdict' = [verdict EXCEPT ![k] = complete /\ process = seen[k].new]
          /\ UNCHANGED <<looks, seen>>
    /\ UNCHANGED <<op, rowVars, worldVars, flying, hostVars, job, cancelled, issued, claimed>>

\* _pin_current on the loop pins what the thread saw; its answer may be late.
Pin(k) ==
    /\ thread[k] = "pin" /\ row[k] = "unknown" /\ new[k] = NoProcess
    /\ new' = [new EXCEPT ![k] = seen[k].new]
    /\ \E place \in {"observe", "end"} : thread' = [thread EXCEPT ![k] = place]
    /\ UNCHANGED <<op, link, row, foreign, worldVars, flying, hostVars, job, cancelled, seen, looks, verdict, issued, claimed>>

-----------------------------------------------------------------------------
\* Mutant of Reaped: a cancelled call is not awaited.
NotReaped(k) == thread[k] = "end" \/ k \in cancelled

\* thread_call: the coroutine goes on when its thread has ended, never before.
Reaped(k) == thread[k] = "end"
Collect(k) ==
    /\ job[k] = "dispatch" /\ Reaped(k)
    /\ job' = [job EXCEPT ![k] = "unlock"]
    /\ thread' = [thread EXCEPT ![k] = IF @ = "end" THEN "none" ELSE @]
    /\ verdict' = [verdict EXCEPT ![k] = @ /\ k \notin cancelled /\ seen[k].scope = scope]
    /\ UNCHANGED <<op, rowVars, worldVars, flying, hostVars, cancelled, seen, looks, issued, claimed>>

\* lock.close in a thread
Unlock(k) ==
    /\ job[k] = "unlock"
    /\ job' = [job EXCEPT ![k] = IF verdict[k] /\ k \notin cancelled THEN "verify" ELSE "settle"]
    /\ UNCHANGED <<op, rowVars, worldVars, flying, hostVars, cancelled, runVars, issued, claimed>>

\* _run after the lock: the pinned process is observed once more in a thread ...
Verify(k) ==
    /\ job[k] = "verify"
    /\ job' = [job EXCEPT ![k] =
          IF process = seen[k].new /\ k \notin cancelled THEN "ack" ELSE "settle"]
    /\ UNCHANGED <<op, rowVars, worldVars, flying, hostVars, cancelled, runVars, issued, claimed>>

\* ... and, on the loop, acknowledged.
Ack(k) ==
    /\ job[k] = "ack"
    /\ row' = [row EXCEPT ![k] =
          IF /\ k \notin cancelled /\ seen[k].scope = scope
             /\ op[k] = "dispatched" /\ k \in link
             /\ row[k] = "unknown" /\ new[k] = seen[k].new
          THEN "acked" ELSE @]
    /\ job' = [job EXCEPT ![k] = "settle"]
    /\ UNCHANGED <<op, link, new, foreign, worldVars, flying, hostVars, cancelled, runVars, issued, claimed>>

\* The end of _execute: cancelled by close it holds the operation, otherwise
\* it settles it by its receipt.
Settle(k) ==
    /\ job[k] = "settle"
    /\ op' = [op EXCEPT ![k] = IF closing THEN Held(@) ELSE Settled(k, @)]
    /\ job' = [job EXCEPT ![k] = "done"]
    /\ UNCHANGED <<rowVars, worldVars, flying, hostVars, cancelled, runVars, issued, claimed>>

\* The action's deadline in _dispatch_once: it is cancelled and awaited.
Timeout(k) ==
    /\ job[k] \notin Ended \cup {"queued", "settle"} /\ k \notin cancelled
    /\ cancelled' = cancelled \cup {k}
    /\ job' = [job EXCEPT ![k] = IF @ = "starting" THEN "settle" ELSE @]
    /\ UNCHANGED <<op, rowVars, worldVars, flying, hostVars, runVars, issued, claimed>>

\* reconcile_operation (a GET): a live operation is left alone; any other
\* pending one is held and read back.
Reconcile(k) ==
    /\ up /\ ~ closing /\ job[k] \in Ended
    /\ op[k] \in OpenStates
    /\ op' = [op EXCEPT ![k] = Settled(k, Held(@))]
    /\ UNCHANGED <<rowVars, worldVars, flying, hostVars, job, cancelled, runVars, issued, claimed>>

-----------------------------------------------------------------------------
\* close: every job is cancelled, and awaited before the process ends. One
\* that has not begun never begins, and its operation stays queued.
Close ==
    /\ up /\ ~ closing
    /\ closing' = TRUE
    /\ cancelled' = cancelled \cup {k \in Requests : job[k] \notin Ended}
    /\ job' = [k \in Requests |-> CASE job[k] = "queued" -> "done"
                                     [] job[k] = "starting" -> "settle"
                                     [] OTHER -> job[k]]
    /\ UNCHANGED <<op, rowVars, worldVars, flying, life, up, runVars, issued, claimed>>

Memoryless ==
    /\ job' = [k \in Requests |-> "none"]
    /\ thread' = [k \in Requests |-> "none"]
    /\ cancelled' = {}
    /\ seen' = [k \in Requests |-> Unseen]
    /\ looks' = [k \in Requests |-> 0]
    /\ verdict' = [k \in Requests |-> FALSE]

\* hostd ends: after close, or killed at any moment.
Exit ==
    /\ up /\ closing /\ \A k \in Requests : job[k] \in Ended
    /\ up' = FALSE /\ Memoryless
    /\ UNCHANGED <<op, rowVars, worldVars, flying, life, closing, issued, claimed>>

Crash ==
    /\ up /\ life < MaxLives
    /\ up' = FALSE /\ Memoryless
    /\ UNCHANGED <<op, rowVars, worldVars, flying, life, closing, issued, claimed>>

\* start: restore reads every pending operation back before the console listens.
Restored(k, s) == Settled(k, Held(s))
Boot ==
    /\ ~ up /\ life < MaxLives
    /\ life' = life + 1 /\ up' = TRUE /\ closing' = FALSE
    /\ op' = [k \in Requests |-> Restored(k, op[k])]
    /\ UNCHANGED <<rowVars, worldVars, flying, job, cancelled, runVars, issued, claimed>>

\* systemd carries a restart out, or drops it; the unit may restart by itself.
Land(k) ==
    /\ k \in flying
    /\ flying' = flying \ {k}
    /\ \/ process < MaxProcess /\ process' = process + 1 /\ busy' = FALSE
       \/ UNCHANGED <<process, busy>>
    /\ UNCHANGED <<op, rowVars, scope, changes, hostVars, job, cancelled, runVars, issued, claimed>>

Elsewhere ==
    /\ \/ process < MaxProcess /\ process' = process + 1 /\ busy' = FALSE
          /\ UNCHANGED <<scope, changes, foreign>>
       \/ busy' = ~ busy /\ changes < MaxChanges /\ changes' = changes + 1
          /\ UNCHANGED <<process, scope, foreign>>
       \/ changes < MaxChanges /\ changes' = changes + 1
          /\ \E s \in Scopes \ {scope} : scope' = s
          /\ UNCHANGED <<process, busy, foreign>>
       \/ changes < MaxChanges /\ changes' = changes + 1
          /\ ~ ActiveRow /\ foreign' = TRUE
          /\ UNCHANGED <<process, busy, scope>>
       \/ foreign /\ foreign' = FALSE
          /\ UNCHANGED <<process, busy, scope, changes>>
    /\ UNCHANGED <<op, link, row, new, flying, hostVars, job, cancelled, runVars, issued, claimed>>

Work(k) ==
    \/ Execute(k) \/ Start(k) \/ Prepare(k) \/ Idle(k) \/ Collect(k)
    \/ Unlock(k) \/ Verify(k) \/ Ack(k) \/ Settle(k)
    \/ Check(k) \/ Abandon(k) \/ AdmitDispatch(k) \/ Live(k) \/ Order(k) \/ Observe(k) \/ Pin(k)

RestartNext ==
    \/ \E k \in Requests :
          \/ Reserve(k) \/ Work(k) \/ Timeout(k) \/ Reconcile(k) \/ Land(k)
    \/ Close \/ Exit \/ Crash \/ Boot \/ Elsewhere

RestartFairness ==
    /\ \A k \in Requests : WF_restartVars(Work(k))
    /\ WF_restartVars(Exit) /\ WF_restartVars(Boot)

RestartSpec == RestartInit /\ [][RestartNext]_restartVars /\ RestartFairness

-----------------------------------------------------------------------------
\* The ledger keeps to its columns, constraints and unique indexes.
RestartTypeOK ==
    /\ op \in [Requests -> OpenStates \cup {"none", "completed", "rejected"}]
    /\ row \in [Requests -> Active \cup {"none", "acked"}]
    /\ new \in [Requests -> Nat]
    /\ link \subseteq {k \in Requests : row[k] \in {"unknown", "acked"}}
    /\ \A j, k \in Requests :
          /\ op[j] \in OpenStates /\ op[k] \in OpenStates => j = k
          /\ row[j] \in Active /\ row[k] \in Active => j = k
    /\ foreign => \A k \in Requests : row[k] \notin Active
    /\ thread \in [Requests -> {"none", "check", "admit", "recheck", "live", "order", "observe", "pin", "end"}]

\* A restart is ordered at most once for an operation, over crashes, repeated
\* requests and readbacks, and only with the uncertainty already on disk: the
\* operation is linked to a row that says unknown, and stays so or is
\* acknowledged ("Persist uncertainty BEFORE external dispatch", store.py).
OrderedOnce ==
    \A k \in Requests :
        /\ issued[k] <= 1
        /\ issued[k] = 1 => k \in link /\ row[k] \in {"unknown", "acked"}

\* An operation is completed only when the process running when it was claimed
\* has been replaced, by one the operation's own thread pinned after it
\* ordered the restart; what anybody restarts later is not adopted.
CompletedByReplacement ==
    \A k \in Requests :
        /\ op[k] = "completed" => /\ k \in link /\ row[k] = "acked"
                                  /\ new[k] > claimed[k] /\ issued[k] = 1
        /\ new[k] # NoProcess => issued[k] = 1

\* The ledger of restarts is consistent: one order for each operation at most,
\* and none completed by somebody else's restart (agent_operations.py).
RestartSafe == RestartTypeOK /\ OrderedOnce /\ CompletedByReplacement

\* No restart is ordered while another one of the agent, of the console or of
\* an own-home admission, has an outcome nobody knows.
NoOverlappingRestart ==
    [][\A k \in Requests : issued'[k] # issued[k] =>
          ~ foreign /\ \A j \in Requests \ {k} : row[j] \notin Active]_restartVars

\* What was reported is over: once an operation's job has ended nothing is
\* ordered, pinned or acknowledged for it any more, although its deadline or
\* close cancelled it while a thread was working (async_io.py, thread_call).
NothingAfterReport ==
    [][\A k \in Requests : job[k] \in Ended =>
          <<issued[k], new[k], row[k]>>' = <<issued[k], new[k], row[k]>>]_restartVars

\* A status once final stays; one held as unknown is only completed.
StatusForward ==
    [][\A k \in Requests :
          /\ op[k] \in {"completed", "rejected"} => op'[k] = op[k]
          /\ op[k] = "unknown" => op'[k] \in {"unknown", "completed"}
          /\ op'[k] = "rejected" /\ op[k] # "rejected" => k \notin link /\ issued[k] = 0]_restartVars

\* Steps of the ledger never overlap restarts, never touch what was reported
\* and never take a status back (agent_operations.py, console_operations.py).
RestartInOrder == NoOverlappingRestart /\ NothingAfterReport /\ StatusForward

\* hostd was stopped, and the bound has it never started again.
LastStop == life = MaxLives /\ (closing \/ ~ up)

\* Every operation is answered: it does not stay queued or dispatched, over
\* deadlines, stops and crashes, while hostd is started again.
OperationAnswered ==
    \A k \in Requests : op[k] \in {"queued", "dispatched"} ~>
        op[k] \notin {"queued", "dispatched"} \/ LastStop

\* A restart once acknowledged is reported as completed, unless the agent was
\* retired or hostd is down for good: a crash between the two is repaired.
AckReported ==
    \A k \in Requests : row[k] = "acked" /\ op[k] = "dispatched" ~>
        op[k] = "completed" \/ scope = "retired" \/ LastStop

\* The console gets its answer, and the right one.
RestartAnswered == OperationAnswered /\ AckReported
=============================================================================
