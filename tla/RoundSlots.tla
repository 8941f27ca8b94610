----------------------------- MODULE RoundSlots -----------------------------
(***************************************************************************)
(* Round admission of hostd (scripts/hostd/round_slots.py): a fixed number *)
(* of round slots, a cap on the slots background rounds may hold, and a    *)
(* bound on how long live rounds may overtake a background round.          *)
(*                                                                         *)
(* The object lives on one event loop: what happens between two awaits is  *)
(* one action.  A task waits on its ticket's future, so its cancellation,  *)
(* its withdrawal and its admission all happen some steps before the task  *)
(* itself runs again.  Each binding has at most one round at a time        *)
(* (__main__.py binding_locks), so a ticket is named by its binding.       *)
(***************************************************************************)
EXTENDS Integers, FiniteSets, Sequences, SequencesExt

CONSTANTS
    Names,          \* the bindings
    Capacity,       \* round workers
    LiveReserve,    \* slots that background rounds may not use
    StreakLimit     \* 8: live admissions before a background one is due

ASSUME SlotsAssumption ==
    /\ IsFiniteSet(Names)
    /\ Capacity \in Nat \ {0}
    /\ LiveReserve \in 0 .. (Capacity - 1)
    /\ StreakLimit \in Nat

BackgroundLimit == Capacity - LiveReserve

VARIABLES
    waiting,     \* the names of the queued tickets, oldest first
    active,      \* the names of the admitted tickets
    live,        \* the tickets with live = True
    liveNames,   \* names to treat as live when they next queue
    streak,      \* live admissions since the last background one
    task,        \* what each binding's round is doing
    overtaken    \* history: live admissions that passed an eligible
                 \* background ticket since the last background admission

slotVars == <<waiting, active, live, liveNames, streak, task, overtaken>>

Slots == [waiting |-> waiting, active |-> active, live |-> live,
          liveNames |-> liveNames, streak |-> streak, task |-> task,
          overtaken |-> overtaken]

\* idle: no ticket.  queued, granted, refused, cancelled: the future is
\* unresolved, True, False or cancelled, and the task has not run since.
\* dying: the task was cancelled after its future became True.
TaskStates == {"idle", "queued", "granted", "refused", "cancelled", "dying", "running"}

-----------------------------------------------------------------------------
(* _dispatch *)

BackgroundActive(s) == s.active \ s.live

\* pending: the places in the queue whose tickets are not cancelled.
Pending(s) == {i \in 1 .. Len(s.waiting) : s.task[s.waiting[i]] # "cancelled"}

Admit(s, n) == [s EXCEPT !.waiting = RemoveFirst(@, n),
                         !.active = @ \cup {n},
                         !.liveNames = @ \ {n},
                         !.task[n] = "granted"]

AdmitBackground(s, n) == [Admit(s, n) EXCEPT !.streak = 0, !.overtaken = 0]

\* Mutant of AdmitLive: live admissions are not counted.
AdmitLiveUncounted(s, n, passing) ==
    [Admit(s, n) EXCEPT !.overtaken = IF passing /\ @ <= StreakLimit THEN @ + 1 ELSE @]

\* streak saturates above the limit; passing: an eligible background waits.
AdmitLive(s, n, passing) ==
    [Admit(s, n) EXCEPT
        !.streak = IF @ > StreakLimit THEN @ ELSE @ + 1,
        !.overtaken = IF passing /\ @ <= StreakLimit THEN @ + 1 ELSE @]

\* One turn of the loop, or no change when nothing can be admitted.
DispatchOne(s) ==
    LET lives       == {i \in Pending(s) : s.waiting[i] \in s.live}
        backgrounds == Pending(s) \ lives
        eligible    == /\ backgrounds # {}
                       /\ Cardinality(BackgroundActive(s)) < BackgroundLimit
    IN  IF Cardinality(s.active) >= Capacity THEN s
        ELSE IF eligible /\ (lives = {} \/ s.streak >= StreakLimit)
        THEN AdmitBackground(s, s.waiting[Min(backgrounds)])
        ELSE IF lives # {} THEN AdmitLive(s, s.waiting[Min(lives)], eligible)
        ELSE s

\* Every turn fills a slot, so Capacity turns end the loop.
Dispatch(s) ==
    LET turn[k \in 0 .. Capacity] == IF k = 0 THEN s ELSE DispatchOne(turn[k - 1])
    IN  turn[Capacity]

\* The next state is t (bound, so that TLC evaluates it once).
Become(t) == \E s \in {t} :
    /\ waiting' = s.waiting
    /\ active' = s.active
    /\ live' = s.live
    /\ liveNames' = s.liveNames
    /\ streak' = s.streak
    /\ task' = s.task
    /\ overtaken' = s.overtaken

-----------------------------------------------------------------------------
(* The operations. *)

\* promote: a live event arrived for the binding, queued or not.
Promoted(s, n) ==
    Dispatch([s EXCEPT !.liveNames = @ \cup {n},
                       !.live = IF n \in ToSet(s.waiting) THEN @ \cup {n} ELSE @])

Promote(n) == Become(Promoted(Slots, n))

\* withdraw_waiting: a pause removes the queued ticket, never an admitted one.
Withdraw(n) ==
    /\ task[n] = "queued"
    /\ Become(Dispatch([Slots EXCEPT !.waiting = RemoveFirst(@, n),
                                     !.task[n] = "refused"]))

\* slot: the ticket is created and queued, and may be admitted at once.
Enter(n) ==
    /\ task[n] = "idle"
    /\ Become(Dispatch([Slots EXCEPT
           !.waiting = Append(@, n),
           !.live = IF n \in liveNames THEN @ \cup {n} ELSE @,
           !.task[n] = "queued"]))

\* The body of the slot starts only when the task runs with future True.
Resume(n) ==
    /\ task[n] = "granted"
    /\ Become([Slots EXCEPT !.task[n] = "running"])

\* Mutants of Left: a cancelled ticket stays queued; nobody is dispatched.
LeftQueued(s, n) ==
    Dispatch([s EXCEPT !.active = @ \ {n}, !.live = @ \ {n}, !.task[n] = "idle"])

LeftUndispatched(s, n) ==
    [s EXCEPT !.waiting = RemoveFirst(@, n),
              !.active = @ \ {n}, !.live = @ \ {n}, !.task[n] = "idle"]

\* The finally clause of slot.
Left(s, n) ==
    Dispatch([s EXCEPT !.waiting = RemoveFirst(@, n),
                       !.active = @ \ {n},
                       !.live = @ \ {n},
                       !.task[n] = "idle"])

\* A task whose ticket was refused or cancelled runs its finally clause.
GiveUp(n) ==
    /\ task[n] \in {"refused", "cancelled", "dying"}
    /\ Become(Left(Slots, n))

Finish(n) ==
    /\ task[n] = "running"
    /\ Become(Left(Slots, n))

\* A notice-only round that finds other work waiting marks itself live and
\* gives its slot back at once (__main__.py:558-563).
YieldLane(n) ==
    /\ task[n] = "running"
    /\ Become(Left(Promoted(Slots, n), n))

\* The task is cancelled.  A running round keeps its slot: its thread is
\* joined first (__main__.py:603-609).
Cancel(n) ==
    \/ /\ task[n] = "queued"
       /\ Become([Slots EXCEPT !.task[n] = "cancelled"])
    \/ /\ task[n] = "granted"
       /\ Become([Slots EXCEPT !.task[n] = "dying"])

-----------------------------------------------------------------------------
SlotsInit ==
    /\ waiting = <<>>
    /\ active = {}
    /\ live = {}
    /\ liveNames = {}
    /\ streak = 0
    /\ task = [n \in Names |-> "idle"]
    /\ overtaken = 0

SlotsNext ==
    \E n \in Names :
        \/ Promote(n) \/ Withdraw(n) \/ Enter(n) \/ Resume(n)
        \/ GiveUp(n) \/ Finish(n) \/ YieldLane(n) \/ Cancel(n)

SlotsSpec == SlotsInit /\ [][SlotsNext]_slotVars

\* The loop runs every ready task, and every round's thread ends: its calls
\* are bounded by timeouts.
SlotsFairSpec ==
    SlotsSpec /\ \A n \in Names : WF_slotVars(Resume(n) \/ GiveUp(n) \/ Finish(n))

-----------------------------------------------------------------------------
(* Properties. *)

SlotsTypeOK ==
    /\ waiting \in Seq(Names)
    /\ active \subseteq Names
    /\ live \subseteq Names
    /\ liveNames \subseteq Names
    /\ streak \in 0 .. (StreakLimit + 1)
    /\ task \in [Names -> TaskStates]
    /\ overtaken \in Nat

\* A slot is held by exactly the rounds that were admitted and have not left,
\* a place in the queue by exactly those whose future is unresolved or just
\* cancelled: no cancellation, withdrawal or early return leaks a slot or a
\* ticket (round_slots.py slot, withdraw_waiting).
SlotsAccounted ==
    /\ active = {n \in Names : task[n] \in {"granted", "running", "dying"}}
    /\ ToSet(waiting) = {n \in Names : task[n] \in {"queued", "cancelled"}}
    /\ IsInjective(waiting)

\* Never more rounds than workers, and a background backlog leaves the live
\* reserve free, although tickets change from background to live while they
\* wait (hostd-round-concurrency.md:24).
SlotCaps ==
    /\ Cardinality(active) <= Capacity
    /\ Cardinality(active \ live) <= BackgroundLimit

\* The slots and the queue hold whom they should, within the caps
\* (round_slots.py).
SlotsSafe == SlotsTypeOK /\ SlotsAccounted /\ SlotCaps

\* No slot stays free while a ticket that could take it waits: every way a
\* slot or a place can open up ends in a dispatch (round_slots.py:36,44,64,72).
NoIdleSlot ==
    Cardinality(active) < Capacity =>
        \A n \in Names : task[n] = "queued" =>
            n \notin live /\ Cardinality(active \ live) >= BackgroundLimit

\* Between two background admissions at most StreakLimit live rounds overtake
\* a background round that could have been admitted (round_slots.py:53).
BoundedOvertaking == overtaken <= StreakLimit

\* Every queued round is admitted or given up, even if live events never stop
\* arriving for the other bindings and pauses withdraw their tickets.
EventuallyAdmitted == \A n \in Names : task[n] = "queued" ~> task[n] # "queued"
=============================================================================
