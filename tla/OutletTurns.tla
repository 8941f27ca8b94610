------------------------------ MODULE OutletTurns ------------------------------
(***************************************************************************)
(* The outlet with a count of how often each due head was passed over for  *)
(* a younger one.  The count is history: nothing in the outlet reads it.   *)
(***************************************************************************)
EXTENDS OutletDelivery

VARIABLE passed     \* younger heads chosen since h became due or was served

turnVars == <<vars, passed>>

\* The steps that use up a turn.
Chooses == SettlePair \/ Start

\* The head g was chosen: the older ones that are due wait for one more.
PassedOver(g) ==
    [h \in Sources |-> IF h \in Heads \ {g} /\ Older(h, g) THEN passed[h] + 1 ELSE 0]

Counted ==
    IF Chooses THEN \E g \in Held : Chosen(g) /\ passed' = PassedOver(g)
    ELSE passed' = passed

TurnsInit == Init /\ passed = [e \in Sources |-> 0]
TurnsNext == Next /\ Counted
TurnsSpec == TurnsInit /\ [][TurnsNext]_turnVars
FairTurns == TurnsSpec /\ WF_vars(Slice) /\ WF_vars(Tick) /\ WF_vars(LandCurrent)

\* An old head has its turn: however many fresher topics arrive and whichever
\* lane is preferred, at most AgingTurns younger heads are attempted before it,
\* over refusals, leases and crashes (outlet_work.py:107-123).
OldHeadsTurn == \A h \in Sources : passed[h] <= AgingTurns
=============================================================================
