----------------------------- MODULE MCBuzzHistory -----------------------------
(***************************************************************************)
(* The buzz phase with a root and one reply, or with one reply to a Feishu *)
(* message, and one read of the relay's history.  The two parts share no   *)
(* state, so they are checked side by side: every behaviour takes one of   *)
(* them (focus) and leaves the other as it began.                          *)
(***************************************************************************)
EXTENDS RelayHistory, BuzzPhase

VARIABLE focus

partVars == <<focus, historyVars, buzzVars>>

\* One event in the first second and more in the next than a page holds.
HistoryRows  == 1 .. 4
HistoryRowAt == <<0, 1, 1, 1>>

\* The reply comes a second after its root.
NoteTimes == [e \in Notes |-> IF e = "root" THEN 1 ELSE 2]
OneThread == [e \in Notes |-> IF "root" \in Notes THEN "root" ELSE e]

InHistory(A) == focus = "history" /\ A /\ UNCHANGED <<focus, buzzVars>>
InBuzz(A)    == focus = "buzz" /\ A /\ UNCHANGED <<focus, historyVars>>

\* A read of an empty history that is over.
NothingToRead ==
    /\ shown = {} /\ steady = {} /\ all = {} /\ full = {}
    /\ rd = "done" /\ single = FALSE /\ excused = FALSE
    /\ high = Until /\ pageLimit = PageSize /\ limit = PageSize /\ priorFull = 0

Init ==
    /\ focus \in {"history", "buzz"}
    /\ IF focus = "history" THEN HistoryInit ELSE NothingToRead
    /\ BuzzInit

Next == InHistory(HistoryNext) \/ InBuzz(BuzzNext)

\* The fairness of both parts.  A behaviour of one part never enables the
\* other's actions, so one formula serves for an action of each.
Fairness ==
    /\ WF_partVars(InBuzz(RoundStep) \/ InHistory(ReadStep))
    /\ WF_partVars(InBuzz(Tick))

Spec == Init /\ [][Next]_partVars /\ Fairness
=============================================================================
