----------------------------- MODULE MCConsolePool -----------------------------
(***************************************************************************)
(* Two requests to restart one agent, and three threads at the HTTP pool.  *)
(* The two parts share no state, so they are checked side by side: every   *)
(* behaviour takes one of them (focus) and leaves the other as it began.   *)
(***************************************************************************)
EXTENDS AgentRestart, HttpPool

CONSTANTS k1, k2, t1, t2, t3

VARIABLE focus

partVars == <<focus, restartVars, poolVars>>

InRestart(A) == focus = "restart" /\ A /\ UNCHANGED <<focus, poolVars>>
InPool(A)    == focus = "pool" /\ A /\ UNCHANGED <<focus, restartVars>>

Init == focus \in {"restart", "pool"} /\ RestartInit /\ PoolInit
Next == InRestart(RestartNext) \/ InPool(PoolNext)

\* The fairness of both parts.  A behaviour of one part never enables the
\* other's actions, and hostd is never up and down at once, so one formula
\* serves for several of these actions.
Fairness ==
    /\ WF_partVars(InRestart(Work(k1)) \/ InPool(CallerStep(t1)))
    /\ WF_partVars(InRestart(Work(k2)) \/ InPool(CallerStep(t2)))
    /\ WF_partVars(InRestart(Exit \/ Boot) \/ InPool(CallerStep(t3)))

Spec == Init /\ [][Next]_partVars /\ Fairness
=============================================================================
