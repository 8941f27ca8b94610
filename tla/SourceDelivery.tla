---------------------------- MODULE SourceDelivery ----------------------------
(***************************************************************************)
(* What an outlet promises for the events that create something in the     *)
(* group, messages and reactions: an event is sent once, confirmed only    *)
(* after it was sent, and dropped only if it was never sent.               *)
(***************************************************************************)
CONSTANT Items

VARIABLE fate       \* "open", "sent", "confirmed" or "dropped"

Fates == {"open", "sent", "confirmed", "dropped"}

Move(i, from, to) ==
    /\ fate[i] = from /\ fate'[i] = to
    /\ \A j \in Items \ {i} : fate'[j] = fate[j]

Send(i)    == Move(i, "open", "sent")
Confirm(i) == Move(i, "sent", "confirmed")
Drop(i)    == Move(i, "open", "dropped")

PromiseInit == fate = [i \in Items |-> "open"]
PromiseNext == \E i \in Items : Send(i) \/ Confirm(i) \/ Drop(i)
Promise     == PromiseInit /\ [][PromiseNext]_fate
=============================================================================
