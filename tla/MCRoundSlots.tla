---------------------------- MODULE MCRoundSlots ----------------------------
(***************************************************************************)
(* RoundSlots twice, side by side: every behaviour takes one of the two    *)
(* (focus) and leaves the other as it began.  The wide one has four        *)
(* bindings and two workers, one of them reserved for live rounds; the     *)
(* narrow one three bindings and one worker.                               *)
(***************************************************************************)
EXTENDS RoundSlots

CONSTANTS b1, b2, b3, b4

VARIABLES
    focus,
    nWaiting, nActive, nLive, nLiveNames, nStreak, nTask, nOvertaken

narrowVars == <<nWaiting, nActive, nLive, nLiveNames, nStreak, nTask, nOvertaken>>
bothVars == <<focus, slotVars, narrowVars>>

Narrow == INSTANCE RoundSlots WITH
    Names <- {b1, b2, b3}, Capacity <- 1, LiveReserve <- 0, StreakLimit <- 1,
    waiting <- nWaiting, active <- nActive, live <- nLive, liveNames <- nLiveNames,
    streak <- nStreak, task <- nTask, overtaken <- nOvertaken

InWide(A)   == focus = "wide" /\ A /\ UNCHANGED <<focus, narrowVars>>
InNarrow(A) == focus = "narrow" /\ A /\ UNCHANGED <<focus, slotVars>>

Init == focus \in {"wide", "narrow"} /\ SlotsInit /\ Narrow!SlotsInit
Next == InWide(SlotsNext) \/ InNarrow(Narrow!SlotsNext)

\* The fairness of SlotsFairSpec, for the narrow instance.
Fairness ==
    \A n \in {b1, b2, b3} :
        WF_bothVars(InNarrow(Narrow!Resume(n) \/ Narrow!GiveUp(n) \/ Narrow!Finish(n)))

Spec == Init /\ [][Next]_bothVars /\ Fairness

\* Every queued round of the narrow instance is admitted or given up, even if
\* live events never stop arriving for the other bindings and pauses withdraw
\* their tickets (round_slots.py _dispatch).
QueuedIsAdmitted == Narrow!EventuallyAdmitted
=============================================================================
