----------------------------- MODULE HostdRounds -----------------------------
(***************************************************************************)
(* The rounds of one binding in hostd (scripts/hostd/__main__.py and       *)
(* console_pause.py): feeds mark phases dirty, the binding's worker takes  *)
(* them, a round runs them in a thread, failed phases are retried on a     *)
(* timer, and console operations pause, resume or backfill the binding     *)
(* under the same lock.  The process may crash at any time; the ledger's   *)
(* status and pause fence survive it.                                      *)
(*                                                                         *)
(* One action is what the event loop does between two awaits.  RoundSlots  *)
(* is the admission of the round to a slot, here a step of other bindings. *)
(* The global notice lane may be held by another binding at any time.      *)
(***************************************************************************)
EXTENDS Naturals

CONSTANTS
    Ordinary,       \* the phases that read and send messages
    Operations,     \* the console operations in use
    MaxCrashes      \* bound: crashes of the process

Phases == Ordinary \cup {"notice"}

ASSUME RoundsAssumption ==
    /\ Ordinary \subseteq {"members", "buzz", "feishu"}
    /\ Operations \subseteq {"pause", "resume", "backfill"}
    /\ MaxCrashes \in Nat

VARIABLES
    status,     \* ledger: binding.status
    fence,      \* ledger: the state of the binding's console_pause row
    host,       \* the process: down, started (console only), serving
    dirty,      \* the marked phases
    wake,       \* the worker's event
    retry,      \* retry_phases; the retry task sleeps while there are any
    lock,       \* who holds the binding lock
    worker,     \* where the worker's loop is
    seen,       \* the worker's answer from _binding_state: paused or not
    lane,       \* the worker holds the notice lane
    asked,      \* console operations waiting for the binding lock
    stage,      \* where the round is
    work,       \* the round's phases
    report,     \* what the round's thread returned
    owed,       \* history: marked phases not dispatched since
    crashes

loopVars == <<dirty, wake, retry>>
workerVars == <<worker, seen, lane>>
roundVars == <<stage, work, report>>
roundsVars == <<status, fence, host, loopVars, lock, workerVars, asked, roundVars,
                owed, crashes>>

NoReport == [result |-> "none", retries |-> {}, hints |-> FALSE]

\* _binding_state: a fence counts as paused before the drain is over.
Paused == fence # "none" \/ status = "paused"

\* _binding_status_store: a pause is never overwritten.
Stored(s) == IF status = "paused" THEN status ELSE s

\* Stages of a round whose thread was started.
Dispatched == {"running", "settle", "look", "plan", "failed"}

-----------------------------------------------------------------------------
(* Feeds, timers and the worker's loop. *)

\* Mutant of Mark: only the first mark wakes the worker.
MarkFirst(S) ==
    /\ host = "serving"
    /\ dirty' = dirty \cup S
    /\ wake' = (wake \/ dirty = {})
    /\ owed' = owed \cup S
    /\ UNCHANGED <<status, fence, host, retry, lock, workerVars, asked, roundVars, crashes>>

\* mark, for the phases of one event or tick.
Mark(S) ==
    /\ host = "serving"
    /\ dirty' = dirty \cup S
    /\ wake' = TRUE
    /\ owed' = owed \cup S
    /\ UNCHANGED <<status, fence, host, retry, lock, workerVars, asked, roundVars, crashes>>

\* wake_later: the retry task's sleep ends.
RetryFire ==
    /\ host # "down"
    /\ retry # {}
    /\ dirty' = dirty \cup retry
    /\ wake' = TRUE
    /\ owed' = owed \cup retry
    /\ retry' = {}
    /\ UNCHANGED <<status, fence, host, lock, workerVars, asked, roundVars, crashes>>

\* The worker was woken and its debounce is over.  For notices alone it takes
\* the notice lane before the lock; while another binding has it, it loops.
Ready ==
    /\ host = "serving"
    /\ worker = "idle"
    /\ wake
    /\ worker' = "lock"
    /\ lane' = (dirty = {"notice"})
    /\ UNCHANGED <<status, fence, host, loopVars, lock, seen, asked, roundVars, owed, crashes>>

\* The lock is taken, the event cleared and the state read in a ledger thread.
Acquire ==
    /\ worker = "lock"
    /\ lock = "free"
    /\ lock' = "worker"
    /\ wake' = FALSE
    /\ seen' = Paused
    /\ worker' = "take"
    /\ UNCHANGED <<status, fence, host, dirty, retry, lane, asked, roundVars, owed, crashes>>

\* Ordinary phases first; notices only from under the notice lane.
Selected ==
    IF dirty # {"notice"} THEN dirty \ {"notice"} ELSE IF lane THEN dirty ELSE {}

\* What the worker does with the answer: keep, or take phases for a round.
Take ==
    /\ worker = "take"
    /\ IF seen \/ Selected = {}
       THEN /\ worker' = "idle"
            /\ lane' = FALSE
            /\ lock' = "free"
            /\ wake' = (wake \/ (~ seen /\ dirty # {}))
            /\ UNCHANGED <<dirty, stage, work>>
       ELSE /\ worker' = "round"
            /\ dirty' = dirty \ Selected
            /\ work' = Selected
            /\ stage' = "check"
            /\ UNCHANGED <<lane, lock, wake>>
    /\ UNCHANGED <<status, fence, host, retry, seen, asked, report, owed, crashes>>

-----------------------------------------------------------------------------
(* The round. *)

\* The round returns d to the dirty phases; its caller gives the lock back,
\* and the worker wakes itself for what is dirty.
EndRound(d, w) ==
    /\ dirty' = d
    /\ wake' = (w \/ (lock = "worker" /\ d # {}))
    /\ lock' = "free"
    /\ stage' = "none"
    /\ work' = {}
    /\ report' = NoReport
    /\ IF lock = "worker" THEN worker' = "idle" /\ lane' = FALSE
                          ELSE UNCHANGED <<worker, lane>>
    /\ UNCHANGED <<host, seen, asked, crashes>>

\* Mutants of Retain: the phases of the round are dropped; nobody is woken.
RetainNothing == EndRound(dirty, TRUE)
RetainQuietly == EndRound(dirty \cup work, wake)

\* _retain_round_work and return.
Retain == EndRound(dirty \cup work, TRUE)

\* The round's outlets are refreshed; a pause that came meanwhile ends it,
\* otherwise it queues for a slot.
Check ==
    /\ stage = "check"
    /\ IF Paused
       THEN Retain /\ UNCHANGED <<status, fence, retry, owed>>
       ELSE /\ stage' = "queued"
            /\ UNCHANGED <<status, fence, host, loopVars, lock, workerVars, asked, work,
                           report, owed, crashes>>

\* RoundSlots admits the ticket.
Grant ==
    /\ stage = "queued"
    /\ stage' = "granted"
    /\ UNCHANGED <<status, fence, host, loopVars, lock, workerVars, asked, work, report,
                   owed, crashes>>

\* A withdrawn or cancelled ticket.
GiveUp ==
    /\ stage = "withdrawn"
    /\ Retain
    /\ UNCHANGED <<status, fence, retry, owed>>

\* In the slot: a notice round yields to other work; the others take along
\* what was marked while they queued, look for a pause once more and start.
Dispatch ==
    /\ stage = "granted"
    /\ LET incoming == dirty \ {"notice"}
       IN  IF work = {"notice"} /\ incoming # {}
           THEN EndRound(dirty \cup {"notice"}, TRUE) /\ UNCHANGED owed
           ELSE IF Paused THEN Retain /\ UNCHANGED owed
           ELSE /\ work' = work \cup incoming
                /\ dirty' = dirty \ incoming
                /\ stage' = "running"
                /\ owed' = owed \ (work \cup incoming)
                /\ UNCHANGED <<host, wake, lock, workerVars, asked, report, crashes>>
    /\ UNCHANGED <<status, fence, retry>>

\* The reports of worker.run: a notice round reports a status only if it had
\* errors, an active binding has nothing to retry but cooperative slices.
Reports ==
    {r \in [result : {"none", "active", "degraded", "conflict"},
            retries : SUBSET Ordinary, hints : BOOLEAN] :
        IF work = {"notice"}
        THEN r.result # "active" /\ r.retries \subseteq {"buzz"} /\ ~ r.hints
        ELSE /\ r.result # "none"
             /\ r.result = "active" => r.retries \subseteq {"buzz", "feishu"}}

NextStage(r) == IF r.hints THEN "look" ELSE "plan"

\* The thread returned a report.  A resume stores the status at once, under
\* its own lock; the other rounds hand it to the ledger thread.
Finish(r) ==
    /\ stage = "running"
    /\ report' = r
    /\ stage' = IF lock = "resume" \/ r.result = "none" THEN NextStage(r) ELSE "settle"
    /\ status' = IF lock = "resume" THEN r.result ELSE status
    /\ UNCHANGED <<fence, host, loopVars, lock, workerVars, asked, work, owed, crashes>>

\* The refresh or the thread raised, or its report was not valid.
Raise ==
    /\ stage = "running" \/ (stage = "check" /\ work # {"notice"})
    /\ stage' = "failed"
    /\ UNCHANGED <<status, fence, host, loopVars, lock, workerVars, asked, work, report,
                   owed, crashes>>

Settle ==
    /\ stage = "settle"
    /\ status' = Stored(report.result)
    /\ stage' = NextStage(report)
    /\ UNCHANGED <<fence, host, loopVars, lock, workerVars, asked, work, report, owed, crashes>>

\* Notice candidates get a retry of their own if the binding is active.
Look ==
    /\ stage = "look"
    /\ report' = [report EXCEPT !.hints = (status = "active" /\ ~ Paused)]
    /\ stage' = "plan"
    /\ UNCHANGED <<status, fence, host, loopVars, lock, workerVars, asked, work, owed, crashes>>

\* schedule_retry adds to the phases already waiting; an ordinary round with
\* nothing to retry cancels the retry task and forgets its phases.
Plan ==
    /\ stage = "plan"
    /\ LET retries == report.retries \cup (IF report.hints THEN {"notice"} ELSE {})
       IN  retry' = IF retries # {} THEN retry \cup retries
                    ELSE IF work # {"notice"} THEN {} ELSE retry
    /\ EndRound(dirty, wake)
    /\ UNCHANGED <<status, fence, owed>>

\* The handler of a failed round, and the worker's, which marks its phases.
Fail ==
    /\ stage = "failed"
    /\ status' = Stored("degraded")
    /\ retry' = retry \cup (IF work = {"notice"} THEN Phases \cap {"members", "notice"} ELSE work)
    /\ EndRound(IF lock = "worker" THEN dirty \cup work ELSE dirty, wake)
    /\ UNCHANGED <<fence, owed>>

-----------------------------------------------------------------------------
(* Console operations.  A conflict ends each of them without effect. *)

\* console_action pause: the fence is committed, a queued ticket withdrawn.
PauseBegin ==
    /\ "pause" \in Operations
    /\ host # "down" /\ status # "conflict"
    /\ "pause" \notin asked
    /\ fence \in {"none", "drained"}
    /\ fence' = "stopping"
    /\ asked' = asked \cup {"pause"}
    /\ stage' = IF stage = "queued" THEN "withdrawn" ELSE stage
    /\ UNCHANGED <<status, host, loopVars, lock, workerVars, work, report, owed, crashes>>

\* complete: drained means that the lock was free under the fence.
Drain ==
    IF fence = "stopping" /\ status # "conflict"
    THEN fence' = "drained" /\ status' = "paused"
    ELSE UNCHANGED <<fence, status>>

\* Mutant of PauseComplete: the lock is not awaited.
PauseCompleteEarly ==
    /\ "pause" \in asked
    /\ asked' = asked \ {"pause"}
    /\ Drain
    /\ UNCHANGED <<host, loopVars, lock, workerVars, roundVars, owed, crashes>>

PauseComplete ==
    /\ "pause" \in asked
    /\ lock = "free"
    /\ asked' = asked \ {"pause"}
    /\ Drain
    /\ UNCHANGED <<host, loopVars, lock, workerVars, roundVars, owed, crashes>>

\* console_readback: an unknown pause is looked at again, nothing is repeated.
Readback ==
    /\ host # "down"
    /\ fence = "stopping" /\ "pause" \notin asked
    /\ lock = "free"
    /\ Drain
    /\ UNCHANGED <<host, loopVars, lock, workerVars, asked, roundVars, owed, crashes>>

Ask(op) ==
    /\ op \in Operations \ asked
    /\ host # "down" /\ status # "conflict"
    /\ lock # op
    /\ asked' = asked \cup {op}
    /\ UNCHANGED <<status, fence, host, loopVars, lock, workerVars, roundVars, owed, crashes>>

\* The operation gets the lock and starts a round of all ordinary phases.
StartRound(op) ==
    /\ lock' = op
    /\ stage' = "check"
    /\ work' = Ordinary

\* Only a drained fence is released; without one there is nothing to release.
Resume ==
    /\ "resume" \in asked
    /\ lock = "free"
    /\ asked' = asked \ {"resume"}
    /\ IF fence = "stopping" \/ status = "conflict"
       THEN UNCHANGED <<fence, status, lock, stage, work>>
       ELSE /\ fence' = "none"
            /\ status' = "pending"
            /\ StartRound("resume")
    /\ UNCHANGED <<host, loopVars, workerVars, report, owed, crashes>>

Backfill ==
    /\ "backfill" \in asked
    /\ lock = "free"
    /\ asked' = asked \ {"backfill"}
    /\ IF Paused \/ status = "conflict"
       THEN UNCHANGED <<lock, stage, work>>
       ELSE StartRound("backfill")
    /\ UNCHANGED <<status, fence, host, loopVars, workerVars, report, owed, crashes>>

\* The coordinator's timeout cancels a backfill: its ledger call still ends
\* and a running thread is joined, but what follows the call is cancelled.
BackfillTimeout ==
    \/ /\ "backfill" \in asked
       /\ asked' = asked \ {"backfill"}
       /\ UNCHANGED <<status, fence, host, loopVars, lock, workerVars, roundVars, owed, crashes>>
    \/ /\ lock = "backfill" /\ stage \in {"queued", "granted"}
       /\ stage' = "withdrawn"
       /\ UNCHANGED <<status, fence, host, loopVars, lock, workerVars, asked, work, report,
                      owed, crashes>>
    \/ /\ lock = "backfill" /\ stage \in {"check", "settle", "look"}
       /\ status' = IF stage = "settle" THEN Stored(report.result) ELSE status
       /\ Retain
       /\ UNCHANGED <<fence, retry, owed>>
    \/ /\ lock = "backfill" /\ stage = "failed"
       /\ status' = Stored("degraded")
       /\ EndRound(dirty, wake)
       /\ UNCHANGED <<fence, retry, owed>>

-----------------------------------------------------------------------------
(* The process. *)

Reset ==
    /\ dirty' = {} /\ wake' = FALSE /\ retry' = {}
    /\ lock' = "free"
    /\ worker' = "idle" /\ seen' = FALSE /\ lane' = FALSE
    /\ asked' = {}
    /\ stage' = "none" /\ work' = {} /\ report' = NoReport
    /\ owed' = {}

Crash ==
    /\ host # "down"
    /\ crashes < MaxCrashes
    /\ crashes' = crashes + 1
    /\ host' = "down"
    /\ Reset
    /\ UNCHANGED <<status, fence>>

\* start_console: restore reads the pauses back that were left open.
Boot ==
    /\ host = "down"
    /\ host' = "started"
    /\ Drain
    /\ UNCHANGED <<loopVars, lock, workerVars, asked, roundVars, owed, crashes>>

\* Mutant of Serve: the first rounds wait for an event.
ServeUnmarked ==
    /\ host = "started"
    /\ host' = "serving"
    /\ status' = Stored("pending")
    /\ UNCHANGED <<fence, loopVars, lock, workerVars, asked, roundVars, owed, crashes>>

\* spawn_binding and the marks of main.
Serve ==
    /\ host = "started"
    /\ host' = "serving"
    /\ status' = Stored("pending")
    /\ dirty' = dirty \cup Ordinary
    /\ wake' = TRUE
    /\ owed' = owed \cup Ordinary
    /\ UNCHANGED <<fence, retry, lock, workerVars, asked, roundVars, crashes>>

-----------------------------------------------------------------------------
RoundsInit ==
    /\ status = "pending" /\ fence = "none" /\ host = "down"
    /\ dirty = {} /\ wake = FALSE /\ retry = {}
    /\ lock = "free"
    /\ worker = "idle" /\ seen = FALSE /\ lane = FALSE
    /\ asked = {}
    /\ stage = "none" /\ work = {} /\ report = NoReport
    /\ owed = {} /\ crashes = 0

Thread == Raise \/ \E r \in Reports : Finish(r)

Round == Check \/ GiveUp \/ Dispatch \/ Thread \/ Settle \/ Look \/ Plan \/ Fail

RoundsNext ==
    \/ \E S \in SUBSET Phases \ {{}} : Mark(S)
    \/ RetryFire \/ Ready \/ Acquire \/ Take
    \/ Grant \/ Round
    \/ PauseBegin \/ PauseComplete \/ Readback
    \/ Ask("resume") \/ Resume
    \/ Ask("backfill") \/ Backfill \/ BackfillTimeout
    \/ Crash \/ Boot \/ Serve

RoundsSpec == RoundsInit /\ [][RoundsNext]_roundsVars

\* The loop runs what is ready, a thread's calls are bounded by timeouts, the
\* supervisor restarts the process, a slot is granted (RoundSlots), and the
\* binding lock is handed over in order.
RoundsFairSpec ==
    /\ RoundsSpec
    /\ WF_roundsVars(RetryFire) /\ WF_roundsVars(Ready) /\ WF_roundsVars(Take)
    /\ WF_roundsVars(Grant) /\ WF_roundsVars(Round)
    /\ WF_roundsVars(Boot) /\ WF_roundsVars(Serve)
    /\ SF_roundsVars(Acquire) /\ SF_roundsVars(PauseComplete)
    /\ SF_roundsVars(Resume) /\ SF_roundsVars(Backfill)

-----------------------------------------------------------------------------
(* Properties. *)

\* Types, and who may be where: a round runs under the lock, the worker's
\* under its own; notices run alone and under the notice lane
\* (__main__.py:863-888).
RoundsTypeOK ==
    /\ status \in {"pending", "active", "degraded", "conflict", "paused"}
    /\ fence \in {"none", "stopping", "drained"}
    /\ host \in {"down", "started", "serving"}
    /\ dirty \subseteq Phases /\ retry \subseteq Phases /\ owed \subseteq Phases
    /\ wake \in BOOLEAN /\ seen \in BOOLEAN
    /\ asked \subseteq Operations
    /\ report \in [result : {"none", "active", "degraded", "conflict"},
                   retries : SUBSET Ordinary, hints : BOOLEAN]
    /\ stage \in {"none", "check", "queued", "granted", "withdrawn"} \cup Dispatched
    /\ lock \in {"free", "worker", "resume", "backfill"}
    /\ lock = "worker" <=> worker \in {"take", "round"}
    /\ stage # "none" <=> worker = "round" \/ lock \in {"resume", "backfill"}
    /\ worker \in {"idle", "lock", "take", "round"}
    /\ work \subseteq Ordinary \/ (work = {"notice"} /\ lane /\ worker = "round")
    /\ stage = "settle" => report.result # "none"

\* A pause reported as drained is one: no round of the binding is under way,
\* not even one that has yet to look at the fence, and none starts until a
\* resume, also if the process died while a round ran
\* (console_pause.py:100 "Caller owns the binding lock").
DrainedIsQuiet == fence = "drained" => status = "paused" /\ stage = "none"

\* Rounds run where they may, and never beside a pause (__main__.py).
RoundsSafe == RoundsTypeOK /\ DrainedIsQuiet

\* What a feed has marked is never lost before a round is dispatched for it:
\* not by a pause, a withdrawn ticket, a cancelled operation, a failed refresh
\* or a round that yields (__main__.py:515, 871 "Keep dirty targets for resume").
NothingForgotten ==
    owed \subseteq dirty \cup (IF stage \in Dispatched \ {"failed"} THEN {} ELSE work)

\* When nobody is working and the binding is not paused, marked ordinary work
\* has a wake-up or a retry on the way (__main__.py:860-894).
NoLostWakeup ==
    /\ host = "serving" /\ worker = "idle" /\ lock = "free" /\ asked = {} /\ ~ Paused
    => dirty \cap Ordinary = {} \/ wake \/ retry # {}

\* A pause that waits for the lock gets it and ends, drained or because a
\* round found the binding in conflict.
PauseEnds ==
    "pause" \in asked ~> "pause" \notin asked /\ (fence # "stopping" \/ status = "conflict" \/ host # "serving")

\* A resume or a restart never leaves the binding in pending: a round reports,
\* or a new pause takes it over (__main__.py:707 "never strand a resumed
\* binding in pending").
NeverStranded == status = "pending" /\ fence = "none" ~> status # "pending" \/ fence # "none"

\* No binding is left on its way: neither stopping nor pending
\* (__main__.py:364-416).
FenceMovesOn == PauseEnds /\ NeverStranded

\* Marked work is taken while the binding is not paused.
EventuallyTaken == \A p \in Ordinary : p \in dirty ~> p \notin dirty \/ Paused

\* A scheduled retry happens: it leaves the timer by marking its phases, or
\* because a round has just run them.
RetryKept ==
    [][host' # "down" => retry \subseteq retry' \cup dirty' \cup work]_roundsVars

\* The phases of a failed round are queued again, whoever ran the round.
FailedIsRequeued ==
    [][stage = "failed" /\ host' # "down" /\ stage' # "failed" =>
          work \subseteq retry' \cup dirty' \cup {"notice"}]_roundsVars
=============================================================================
