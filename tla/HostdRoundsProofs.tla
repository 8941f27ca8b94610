-------------------------- MODULE HostdRoundsProofs --------------------------
(***************************************************************************)
(* Proofs about HostdRounds, for every set of phases and operations and    *)
(* any number of crashes: who may be where, that a drained pause is quiet, *)
(* and that no mark is forgotten before its round is dispatched.           *)
(***************************************************************************)
EXTENDS HostdRounds, TLAPS

ReportType == [result : {"none", "active", "degraded", "conflict"},
               retries : SUBSET Ordinary, hints : BOOLEAN]

\* RoundsTypeOK in two parts: the values that are Booleans or records of them,
\* and the places of the worker, the round and the lock.
Flags ==
    /\ wake \in BOOLEAN /\ seen \in BOOLEAN
    /\ report \in ReportType

Places ==
    /\ status \in {"pending", "active", "degraded", "conflict", "paused"}
    /\ fence \in {"none", "stopping", "drained"}
    /\ host \in {"down", "started", "serving"}
    /\ dirty \subseteq Phases /\ retry \subseteq Phases /\ owed \subseteq Phases
    /\ asked \subseteq Operations
    /\ stage \in {"none", "check", "queued", "granted", "withdrawn"} \cup Dispatched
    /\ lock \in {"free", "worker", "resume", "backfill"}
    /\ lock = "worker" <=> worker \in {"take", "round"}
    /\ stage # "none" <=> worker = "round" \/ lock \in {"resume", "backfill"}
    /\ worker \in {"idle", "lock", "take", "round"}
    /\ work \subseteq Ordinary \/ (work = {"notice"} /\ lane /\ worker = "round")
    /\ stage = "settle" => report.result # "none"

\* The two parts together are the type invariant.
LEMMA Parts == RoundsTypeOK <=> Flags /\ Places
  BY Zenon DEF RoundsTypeOK, Flags, Places, ReportType

\* The fields of a report.
LEMMA ReportFields ==
    ASSUME NEW r \in ReportType
    PROVE  /\ r.result \in {"none", "active", "degraded", "conflict"}
           /\ r.retries \subseteq Ordinary
           /\ r.hints \in BOOLEAN
  BY DEF ReportType

\* The empty report is one.
LEMMA NoReportType == NoReport \in ReportType
  BY Zenon DEF NoReport, ReportType

\* The inductive parts behind DrainedIsQuiet: a worker that is about to take
\* phases under a drained fence has seen it, and a dead process runs nothing.
QuietInv ==
    /\ fence = "drained" => status = "paused" /\ stage = "none"
    /\ fence = "drained" /\ worker = "take" => seen
    /\ host = "down" => lock = "free" /\ worker = "idle" /\ asked = {}

\* What is marked and not dispatched is dirty, or held by the worker's round.
\* A round of an operation never holds the only copy of a mark.
Held == IF lock = "worker" /\ stage \notin Dispatched \ {"failed"} THEN work ELSE {}

OwedInv ==
    /\ owed \subseteq dirty \cup Held
    /\ stage = "none" => work = {}

-----------------------------------------------------------------------------
(* Types and places. *)

\* Every step keeps the Boolean parts.
LEMMA FlagsStep == RoundsTypeOK /\ [RoundsNext]_roundsVars => Flags'
<1>. SUFFICES ASSUME Flags, [RoundsNext]_roundsVars PROVE Flags'
  BY Parts
<1>. USE NoReportType DEF Flags
<1>1. ASSUME NEW S \in SUBSET Phases \ {{}}, Mark(S) PROVE Flags'
  BY <1>1, Zenon DEF Mark, loopVars, workerVars, roundVars
<1>2. CASE RetryFire
  BY <1>2, Zenon DEF RetryFire, loopVars, workerVars, roundVars
<1>3. CASE Ready
  BY <1>3, Zenon DEF Ready, loopVars, workerVars, roundVars
<1>4. CASE Acquire
  <2>1. seen' \in BOOLEAN
    BY <1>4, Zenon DEF Acquire, Paused
  <2>2. wake' \in BOOLEAN /\ report' \in ReportType
    BY <1>4, Zenon DEF Acquire, roundVars
  <2>. QED
    BY <2>1, <2>2
<1>5. CASE Take
  BY <1>5, Zenon DEF Take, Selected, loopVars, workerVars, roundVars
<1>6. CASE Check
  BY <1>6, Zenon DEF Check, Retain, EndRound, loopVars, workerVars, roundVars
<1>7. CASE Grant
  BY <1>7, Zenon DEF Grant, loopVars, workerVars, roundVars
<1>8. CASE GiveUp
  BY <1>8, Zenon DEF GiveUp, Retain, EndRound, loopVars, workerVars, roundVars
<1>9. CASE Dispatch
  BY <1>9, Zenon DEF Dispatch, Retain, EndRound, loopVars, workerVars, roundVars
<1>10. CASE Raise
  BY <1>10, Zenon DEF Raise, loopVars, workerVars, roundVars
<1>11. ASSUME NEW r \in Reports, Finish(r) PROVE Flags'
  <2>1. r \in ReportType
    BY <1>11 DEF Reports, ReportType
  <2>. QED
    BY <1>11, <2>1, Zenon DEF Finish, loopVars, workerVars
<1>12. CASE Settle
  BY <1>12, Zenon DEF Settle, NextStage, loopVars, workerVars, roundVars
<1>13. CASE Look
  <2>1. (status = "active" /\ ~ Paused) \in BOOLEAN
    BY Zenon
  <2>2. report' \in ReportType
    BY <1>13, <2>1, Zenon DEF Look, ReportType
  <2>. QED
    BY <1>13, <2>2, Zenon DEF Look, loopVars, workerVars
<1>14. CASE Plan
  BY <1>14, Zenon DEF Plan, EndRound, loopVars, workerVars, roundVars
<1>15. CASE Fail
  BY <1>15, Zenon DEF Fail, EndRound, loopVars, workerVars, roundVars
<1>16. CASE PauseBegin
  BY <1>16, Zenon DEF PauseBegin, loopVars, workerVars, roundVars
<1>17. CASE PauseComplete
  BY <1>17, Zenon DEF PauseComplete, Drain, loopVars, workerVars, roundVars
<1>18. CASE Readback
  BY <1>18, Zenon DEF Readback, Drain, loopVars, workerVars, roundVars
<1>19. ASSUME NEW op \in {"resume", "backfill"}, Ask(op) PROVE Flags'
  BY <1>19, Zenon DEF Ask, loopVars, workerVars, roundVars
<1>20. CASE Resume
  BY <1>20, Zenon DEF Resume, StartRound, loopVars, workerVars, roundVars
<1>21. CASE Backfill
  BY <1>21, Zenon DEF Backfill, StartRound, loopVars, workerVars, roundVars
<1>22. CASE BackfillTimeout
  BY <1>22, Zenon DEF BackfillTimeout, Retain, EndRound, loopVars, workerVars, roundVars
<1>23. CASE Crash
  BY <1>23, Zenon DEF Crash, Reset, loopVars, workerVars, roundVars
<1>24. CASE Boot
  BY <1>24, Zenon DEF Boot, Drain, loopVars, workerVars, roundVars
<1>25. CASE Serve
  BY <1>25, Zenon DEF Serve, loopVars, workerVars, roundVars
<1>26. CASE UNCHANGED roundsVars
  BY <1>26 DEF roundsVars, loopVars, workerVars, roundVars
<1>. QED
  BY <1>1, <1>2, <1>3, <1>4, <1>5, <1>6, <1>7, <1>8, <1>9, <1>10, <1>11, <1>12, <1>13, <1>14, <1>15, <1>16, <1>17, <1>18, <1>19, <1>20, <1>21, <1>22, <1>23, <1>24, <1>25, <1>26 DEF RoundsNext, Round, Thread

\* Every step keeps the places: the lock is handed over with the round.
LEMMA PlacesStep == RoundsTypeOK /\ [RoundsNext]_roundsVars => Places'
<1>. SUFFICES ASSUME Flags, Places, [RoundsNext]_roundsVars PROVE Places'
  BY Parts
<1>a. /\ report.result \in {"none", "active", "degraded", "conflict"}
      /\ report.retries \subseteq Ordinary
  BY ReportFields DEF Flags
<1>. USE RoundsAssumption DEF Places, Phases, Dispatched, Stored
<1>1. ASSUME NEW S \in SUBSET Phases \ {{}}, Mark(S) PROVE Places'
  BY <1>1 DEF Mark, loopVars, workerVars, roundVars
<1>2. CASE RetryFire
  BY <1>2 DEF RetryFire, loopVars, workerVars, roundVars
<1>3. CASE Ready
  BY <1>3 DEF Ready, loopVars, workerVars, roundVars
<1>4. CASE Acquire
  BY <1>4 DEF Acquire, loopVars, workerVars, roundVars
<1>5. CASE Take
  <2>1. CASE seen \/ Selected = {}
    BY <1>5, <2>1 DEF Take, roundVars
  <2>2. CASE ~ (seen \/ Selected = {})
    <3>1. Selected \subseteq Ordinary \/ (Selected = {"notice"} /\ lane)
      BY <2>2 DEF Selected
    <3>. QED
      BY <1>5, <2>2, <3>1 DEF Take
  <2>. QED
    BY <2>1, <2>2
<1>6. CASE Check
  BY <1>6 DEF Check, Retain, EndRound, loopVars, workerVars, roundVars
<1>7. CASE Grant
  BY <1>7 DEF Grant, loopVars, workerVars, roundVars
<1>8. CASE GiveUp
  BY <1>8 DEF GiveUp, Retain, EndRound, loopVars, workerVars, roundVars
<1>9. CASE Dispatch
  BY <1>9 DEF Dispatch, Retain, EndRound, loopVars, workerVars, roundVars
<1>10. CASE Raise
  BY <1>10 DEF Raise, loopVars, workerVars, roundVars
<1>11. ASSUME NEW r \in Reports, Finish(r) PROVE Places'
  BY <1>11 DEF Finish, NextStage, Reports, loopVars, workerVars, roundVars
<1>12. CASE Settle
  <2>1. NextStage(report) \in {"look", "plan"}
    BY DEF NextStage
  <2>. QED
    BY <1>12, <1>a, <2>1 DEF Settle, loopVars, workerVars
<1>13. CASE Look
  BY <1>13 DEF Look, loopVars, workerVars, roundVars
<1>14. CASE Plan
  <2>1. retry' \subseteq Phases
    BY <1>14, <1>a DEF Plan
  <2>. QED
    BY <1>14, <2>1 DEF Plan, EndRound, NoReport
<1>15. CASE Fail
  BY <1>15 DEF Fail, EndRound, loopVars, workerVars, roundVars
<1>16. CASE PauseBegin
  BY <1>16 DEF PauseBegin, loopVars, workerVars, roundVars
<1>17. CASE PauseComplete
  BY <1>17 DEF PauseComplete, Drain, loopVars, workerVars, roundVars
<1>18. CASE Readback
  BY <1>18 DEF Readback, Drain, loopVars, workerVars, roundVars
<1>19. ASSUME NEW op \in {"resume", "backfill"}, Ask(op) PROVE Places'
  BY <1>19 DEF Ask, loopVars, workerVars, roundVars
<1>20. CASE Resume
  BY <1>20 DEF Resume, StartRound, loopVars, workerVars, roundVars
<1>21. CASE Backfill
  BY <1>21 DEF Backfill, StartRound, loopVars, workerVars, roundVars
<1>22. CASE BackfillTimeout
  <2>1. ASSUME "backfill" \in asked, asked' = asked \ {"backfill"},
               UNCHANGED <<status, fence, host, loopVars, lock, workerVars, roundVars, owed, crashes>>
        PROVE  Places'
    BY <2>1 DEF loopVars, workerVars, roundVars
  <2>2. ASSUME lock = "backfill", stage \in {"queued", "granted"}, stage' = "withdrawn",
               UNCHANGED <<status, fence, host, loopVars, lock, workerVars, asked, work, report,
                           owed, crashes>>
        PROVE  Places'
    BY <2>2 DEF loopVars, workerVars
  <2>3. ASSUME lock = "backfill", stage \in {"check", "settle", "look"},
               status' = IF stage = "settle" THEN Stored(report.result) ELSE status,
               Retain, UNCHANGED <<fence, retry, owed>>
        PROVE  Places'
    BY <2>3, <1>a DEF Retain, EndRound
  <2>4. ASSUME lock = "backfill", stage = "failed", status' = Stored("degraded"),
               EndRound(dirty, wake), UNCHANGED <<fence, retry, owed>>
        PROVE  Places'
    BY <2>4 DEF EndRound
  <2>. QED
    BY <1>22, <2>1, <2>2, <2>3, <2>4 DEF BackfillTimeout
<1>23. CASE Crash
  BY <1>23 DEF Crash, Reset, loopVars, workerVars, roundVars
<1>24. CASE Boot
  BY <1>24 DEF Boot, Drain, loopVars, workerVars, roundVars
<1>25. CASE Serve
  BY <1>25 DEF Serve, loopVars, workerVars, roundVars
<1>26. CASE UNCHANGED roundsVars
  BY <1>26 DEF roundsVars, loopVars, workerVars, roundVars
<1>. QED
  BY <1>1, <1>2, <1>3, <1>4, <1>5, <1>6, <1>7, <1>8, <1>9, <1>10, <1>11, <1>12, <1>13, <1>14, <1>15, <1>16, <1>17, <1>18, <1>19, <1>20, <1>21, <1>22, <1>23, <1>24, <1>25, <1>26 DEF RoundsNext, Round, Thread

\* A round runs under the lock, the worker's under its own, and notices run
\* alone and under the notice lane, for every number of phases and crashes.
THEOREM RoundsTyped == RoundsSpec => []RoundsTypeOK
<1>1. RoundsInit => Flags
  BY NoReportType, Zenon DEF RoundsInit, Flags
<1>2. RoundsInit => Places
  BY DEF RoundsInit, Places
<1>3. RoundsTypeOK /\ [RoundsNext]_roundsVars => RoundsTypeOK'
  <2>1. Flags' /\ Places' => RoundsTypeOK'
    BY Zenon DEF RoundsTypeOK, Flags, Places, ReportType
  <2>. QED
    BY <2>1, FlagsStep, PlacesStep
<1>. QED
  BY <1>1, <1>2, <1>3, Parts, PTL DEF RoundsSpec

-----------------------------------------------------------------------------
(* A drained pause. *)

\* Every step keeps a drained pause quiet: draining needs the free lock, and
\* whoever takes the lock afterwards sees the fence.
LEMMA QuietStep == RoundsTypeOK /\ QuietInv /\ [RoundsNext]_roundsVars => QuietInv'
<1>. SUFFICES ASSUME Places, QuietInv, [RoundsNext]_roundsVars PROVE QuietInv'
  BY Parts
<1>. USE DEF Places, QuietInv, Dispatched, Stored, Paused
<1>1. ASSUME NEW S \in SUBSET Phases \ {{}}, Mark(S) PROVE QuietInv'
  BY <1>1 DEF Mark, loopVars, workerVars, roundVars
<1>2. CASE RetryFire
  BY <1>2 DEF RetryFire, loopVars, workerVars, roundVars
<1>3. CASE Ready
  BY <1>3 DEF Ready, loopVars, workerVars, roundVars
<1>4. CASE Acquire
  BY <1>4 DEF Acquire, loopVars, workerVars, roundVars
<1>5. CASE Take
  BY <1>5 DEF Take, Selected, loopVars, workerVars, roundVars
<1>6. CASE Check
  BY <1>6 DEF Check, Retain, EndRound, loopVars, workerVars, roundVars
<1>7. CASE Grant
  BY <1>7 DEF Grant, loopVars, workerVars, roundVars
<1>8. CASE GiveUp
  BY <1>8 DEF GiveUp, Retain, EndRound, loopVars, workerVars, roundVars
<1>9. CASE Dispatch
  BY <1>9 DEF Dispatch, Retain, EndRound, loopVars, workerVars, roundVars
<1>10. CASE Raise
  BY <1>10 DEF Raise, loopVars, workerVars, roundVars
<1>11. ASSUME NEW r \in Reports, Finish(r) PROVE QuietInv'
  BY <1>11 DEF Finish, NextStage, Reports, loopVars, workerVars, roundVars
<1>12. CASE Settle
  BY <1>12 DEF Settle, NextStage, loopVars, workerVars, roundVars
<1>13. CASE Look
  BY <1>13 DEF Look, loopVars, workerVars, roundVars
<1>14. CASE Plan
  BY <1>14 DEF Plan, EndRound, loopVars, workerVars, roundVars
<1>15. CASE Fail
  BY <1>15 DEF Fail, EndRound, loopVars, workerVars, roundVars
<1>16. CASE PauseBegin
  BY <1>16 DEF PauseBegin, loopVars, workerVars, roundVars
<1>17. CASE PauseComplete
  BY <1>17 DEF PauseComplete, Drain, loopVars, workerVars, roundVars
<1>18. CASE Readback
  BY <1>18 DEF Readback, Drain, loopVars, workerVars, roundVars
<1>19. ASSUME NEW op \in {"resume", "backfill"}, Ask(op) PROVE QuietInv'
  BY <1>19 DEF Ask, loopVars, workerVars, roundVars
<1>20. CASE Resume
  BY <1>20 DEF Resume, StartRound, loopVars, workerVars, roundVars
<1>21. CASE Backfill
  BY <1>21 DEF Backfill, StartRound, loopVars, workerVars, roundVars
<1>22. CASE BackfillTimeout
  BY <1>22 DEF BackfillTimeout, Retain, EndRound, loopVars, workerVars, roundVars
<1>23. CASE Crash
  BY <1>23 DEF Crash, Reset, loopVars, workerVars, roundVars
<1>24. CASE Boot
  BY <1>24 DEF Boot, Drain, loopVars, workerVars, roundVars
<1>25. CASE Serve
  BY <1>25 DEF Serve, loopVars, workerVars, roundVars
<1>26. CASE UNCHANGED roundsVars
  BY <1>26 DEF roundsVars, loopVars, workerVars, roundVars
<1>. QED
  BY <1>1, <1>2, <1>3, <1>4, <1>5, <1>6, <1>7, <1>8, <1>9, <1>10, <1>11, <1>12, <1>13, <1>14, <1>15, <1>16, <1>17, <1>18, <1>19, <1>20, <1>21, <1>22, <1>23, <1>24, <1>25, <1>26 DEF RoundsNext, Round, Thread

\* While a pause is reported as drained no round of the binding is under way,
\* whatever crashed, was cancelled or was read back in between.
THEOREM DrainedPausesAreQuiet == RoundsSpec => []DrainedIsQuiet
<1>1. RoundsInit => QuietInv
  BY DEF RoundsInit, QuietInv
<1>2. QuietInv => DrainedIsQuiet
  BY DEF QuietInv, DrainedIsQuiet
<1>. QED
  BY <1>1, <1>2, QuietStep, RoundsTyped, PTL DEF RoundsSpec

-----------------------------------------------------------------------------
(* Marks. *)

\* Every step keeps the marks: each way out of a round before its dispatch
\* gives its phases back, and later ones have dispatched them.
LEMMA OwedStep == RoundsTypeOK /\ OwedInv /\ [RoundsNext]_roundsVars => OwedInv'
<1>. SUFFICES ASSUME Places, OwedInv, [RoundsNext]_roundsVars PROVE OwedInv'
  BY Parts
<1>. USE DEF Places, OwedInv, Held, Dispatched
<1>1. ASSUME NEW S \in SUBSET Phases \ {{}}, Mark(S) PROVE OwedInv'
  BY <1>1 DEF Mark, loopVars, workerVars, roundVars
<1>2. CASE RetryFire
  BY <1>2 DEF RetryFire, loopVars, workerVars, roundVars
<1>3. CASE Ready
  BY <1>3 DEF Ready, loopVars, workerVars, roundVars
<1>4. CASE Acquire
  BY <1>4 DEF Acquire, loopVars, workerVars, roundVars
<1>5. CASE Take
  BY <1>5 DEF Take, Selected, loopVars, workerVars, roundVars
<1>6. CASE Check
  BY <1>6 DEF Check, Retain, EndRound, loopVars, workerVars, roundVars
<1>7. CASE Grant
  BY <1>7 DEF Grant, loopVars, workerVars, roundVars
<1>8. CASE GiveUp
  BY <1>8 DEF GiveUp, Retain, EndRound, loopVars, workerVars, roundVars
<1>9. CASE Dispatch
  BY <1>9 DEF Dispatch, Retain, EndRound, loopVars, workerVars, roundVars
<1>10. CASE Raise
  BY <1>10 DEF Raise, loopVars, workerVars, roundVars
<1>11. ASSUME NEW r \in Reports, Finish(r) PROVE OwedInv'
  BY <1>11 DEF Finish, NextStage, Reports, loopVars, workerVars, roundVars
<1>12. CASE Settle
  BY <1>12 DEF Settle, NextStage, loopVars, workerVars, roundVars
<1>13. CASE Look
  BY <1>13 DEF Look, loopVars, workerVars, roundVars
<1>14. CASE Plan
  BY <1>14 DEF Plan, EndRound, loopVars, workerVars, roundVars
<1>15. CASE Fail
  BY <1>15 DEF Fail, EndRound, loopVars, workerVars, roundVars
<1>16. CASE PauseBegin
  BY <1>16 DEF PauseBegin, loopVars, workerVars, roundVars
<1>17. CASE PauseComplete
  BY <1>17 DEF PauseComplete, Drain, loopVars, workerVars, roundVars
<1>18. CASE Readback
  BY <1>18 DEF Readback, Drain, loopVars, workerVars, roundVars
<1>19. ASSUME NEW op \in {"resume", "backfill"}, Ask(op) PROVE OwedInv'
  BY <1>19 DEF Ask, loopVars, workerVars, roundVars
<1>20. CASE Resume
  BY <1>20 DEF Resume, StartRound, loopVars, workerVars, roundVars
<1>21. CASE Backfill
  BY <1>21 DEF Backfill, StartRound, loopVars, workerVars, roundVars
<1>22. CASE BackfillTimeout
  BY <1>22 DEF BackfillTimeout, Retain, EndRound, loopVars, workerVars, roundVars
<1>23. CASE Crash
  BY <1>23 DEF Crash, Reset, loopVars, workerVars, roundVars
<1>24. CASE Boot
  BY <1>24 DEF Boot, Drain, loopVars, workerVars, roundVars
<1>25. CASE Serve
  BY <1>25 DEF Serve, loopVars, workerVars, roundVars
<1>26. CASE UNCHANGED roundsVars
  BY <1>26 DEF roundsVars, loopVars, workerVars, roundVars
<1>. QED
  BY <1>1, <1>2, <1>3, <1>4, <1>5, <1>6, <1>7, <1>8, <1>9, <1>10, <1>11, <1>12, <1>13, <1>14, <1>15, <1>16, <1>17, <1>18, <1>19, <1>20, <1>21, <1>22, <1>23, <1>24, <1>25, <1>26 DEF RoundsNext, Round, Thread

\* No mark of a feed or a retry is lost before a round is dispatched for it.
THEOREM MarksAreKept == RoundsSpec => []NothingForgotten
<1>1. RoundsInit => OwedInv
  BY DEF RoundsInit, OwedInv, Held
<1>2. OwedInv => NothingForgotten
  BY DEF OwedInv, Held, NothingForgotten
<1>. QED
  BY <1>1, <1>2, OwedStep, RoundsTyped, PTL DEF RoundsSpec

-----------------------------------------------------------------------------
(* Wake-ups. *)

\* Marked ordinary work has a wake-up, or a wake-up or a retry.
Roused == dirty \cap Ordinary = {} \/ wake = TRUE
RousedLater == Roused \/ retry # {}

\* NoLostWakeup speaks of an idle binding; behind it: a worker that has seen a
\* pause still has one, an operation's round runs all ordinary phases, and once
\* its thread runs whatever is marked has come with a wake-up.
WakeInv ==
    /\ worker = "take" /\ seen = TRUE => Paused
    /\ lock \in {"resume", "backfill"} => work = Ordinary
    /\ lock = "free" /\ ~ Paused => RousedLater
    /\ lock = "backfill" => RousedLater
    /\ lock \in {"resume", "backfill"} /\ stage \in Dispatched \ {"failed"} => Roused

\* Every step keeps it: only a round that takes the marks or a worker that
\* looks at them clears the event (__main__.py:860-894).
LEMMA WakeStep == RoundsTypeOK /\ WakeInv /\ [RoundsNext]_roundsVars => WakeInv'
<1>. SUFFICES ASSUME Flags, Places, WakeInv, [RoundsNext]_roundsVars PROVE WakeInv'
  BY Parts
<1>. USE RoundsAssumption DEF Flags, Places, Phases, WakeInv, Roused, RousedLater, Dispatched, Stored, Paused
<1>1. ASSUME NEW S \in SUBSET Phases \ {{}}, Mark(S) PROVE WakeInv'
  BY <1>1 DEF Mark, loopVars, workerVars, roundVars
<1>2. CASE RetryFire
  BY <1>2 DEF RetryFire, loopVars, workerVars, roundVars
<1>3. CASE Ready
  BY <1>3 DEF Ready, loopVars, workerVars, roundVars
<1>4. CASE Acquire
  BY <1>4 DEF Acquire, loopVars, workerVars, roundVars
<1>5. CASE Take
  BY <1>5 DEF Take, Selected, loopVars, workerVars, roundVars
<1>6. CASE Check
  BY <1>6 DEF Check, Retain, EndRound, loopVars, workerVars, roundVars
<1>7. CASE Grant
  BY <1>7 DEF Grant, loopVars, workerVars, roundVars
<1>8. CASE GiveUp
  BY <1>8 DEF GiveUp, Retain, EndRound, loopVars, workerVars, roundVars
<1>9. CASE Dispatch
  BY <1>9 DEF Dispatch, Retain, EndRound, loopVars, workerVars, roundVars
<1>10. CASE Raise
  BY <1>10 DEF Raise, loopVars, workerVars, roundVars
<1>11. ASSUME NEW r \in Reports, Finish(r) PROVE WakeInv'
  BY <1>11 DEF Finish, NextStage, Reports, loopVars, workerVars, roundVars
<1>12. CASE Settle
  BY <1>12 DEF Settle, NextStage, loopVars, workerVars, roundVars
<1>13. CASE Look
  BY <1>13 DEF Look, loopVars, workerVars, roundVars
<1>14. CASE Plan
  BY <1>14 DEF Plan, EndRound, loopVars, workerVars, roundVars
<1>15. CASE Fail
  BY <1>15 DEF Fail, EndRound, loopVars, workerVars, roundVars
<1>16. CASE PauseBegin
  BY <1>16 DEF PauseBegin, loopVars, workerVars, roundVars
<1>17. CASE PauseComplete
  BY <1>17 DEF PauseComplete, Drain, loopVars, workerVars, roundVars
<1>18. CASE Readback
  BY <1>18 DEF Readback, Drain, loopVars, workerVars, roundVars
<1>19. ASSUME NEW op \in {"resume", "backfill"}, Ask(op) PROVE WakeInv'
  BY <1>19 DEF Ask, loopVars, workerVars, roundVars
<1>20. CASE Resume
  BY <1>20 DEF Resume, StartRound, loopVars, workerVars, roundVars
<1>21. CASE Backfill
  BY <1>21 DEF Backfill, StartRound, loopVars, workerVars, roundVars
<1>22. CASE BackfillTimeout
  BY <1>22 DEF BackfillTimeout, Retain, EndRound, loopVars, workerVars, roundVars
<1>23. CASE Crash
  BY <1>23 DEF Crash, Reset, loopVars, workerVars, roundVars
<1>24. CASE Boot
  BY <1>24 DEF Boot, Drain, loopVars, workerVars, roundVars
<1>25. CASE Serve
  BY <1>25 DEF Serve, loopVars, workerVars, roundVars
<1>26. CASE UNCHANGED roundsVars
  BY <1>26 DEF roundsVars, loopVars, workerVars, roundVars
<1>. QED
  BY <1>1, <1>2, <1>3, <1>4, <1>5, <1>6, <1>7, <1>8, <1>9, <1>10, <1>11, <1>12, <1>13, <1>14, <1>15, <1>16, <1>17, <1>18, <1>19, <1>20, <1>21, <1>22, <1>23, <1>24, <1>25, <1>26 DEF RoundsNext, Round, Thread

\* When nobody is at work and the binding is not paused, marked work has a
\* wake-up or a retry on the way, whatever was paused, cancelled or failed.
THEOREM WakeupsAreKept == RoundsSpec => []NoLostWakeup
<1>1. RoundsInit => WakeInv
  BY DEF RoundsInit, WakeInv, Roused, RousedLater, Dispatched
<1>2. RoundsTypeOK /\ WakeInv => NoLostWakeup
  BY DEF RoundsTypeOK, WakeInv, Roused, RousedLater, NoLostWakeup
<1>. QED
  BY <1>1, <1>2, WakeStep, RoundsTyped, PTL DEF RoundsSpec

\* Rounds run where they may, and never beside a pause (__main__.py).
THEOREM RoundsAreSafe == RoundsSpec => []RoundsSafe
  BY RoundsTyped, DrainedPausesAreQuiet, PTL DEF RoundsSafe
=============================================================================
