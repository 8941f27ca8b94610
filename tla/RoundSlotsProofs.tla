--------------------------- MODULE RoundSlotsProofs ---------------------------
(***************************************************************************)
(* What the round slots promise, for every number of bindings, of workers, *)
(* of reserved slots and every streak limit.  The operations hand a record *)
(* of the slots to the dispatch loop, so the invariant is stated of such a *)
(* record: it holds of what an operation hands over, a turn of the loop    *)
(* keeps it, and the loop ends where no turn can admit another ticket.     *)
(***************************************************************************)
EXTENDS RoundSlots, DataLemmas

SlotRecord ==
    [waiting : Seq(Names), active : SUBSET Names, live : SUBSET Names,
     liveNames : SUBSET Names, streak : 0 .. (StreakLimit + 1),
     task : [Names -> TaskStates], overtaken : Nat]

Holding == {"granted", "running", "dying"}
InQueue == {"queued", "cancelled"}

Accounted(s) ==
    /\ s.active = {n \in Names : s.task[n] \in Holding}
    /\ ToSet(s.waiting) = {n \in Names : s.task[n] \in InQueue}
    /\ IsInjective(s.waiting)

WithinCaps(s) ==
    /\ Cardinality(s.active) <= Capacity
    /\ Cardinality(s.active \ s.live) <= BackgroundLimit

\* Overtaking counts towards the streak, which ends in a background admission.
BoundedStreak(s) == s.overtaken <= s.streak /\ s.overtaken <= StreakLimit

Good(s) == s \in SlotRecord /\ Accounted(s) /\ WithinCaps(s) /\ BoundedStreak(s)

NoIdle(s) ==
    Cardinality(s.active) < Capacity =>
        \A n \in Names : s.task[n] = "queued" =>
            n \notin s.live /\ Cardinality(s.active \ s.live) >= BackgroundLimit

SlotsInv == Good(Slots) /\ NoIdle(Slots)

-----------------------------------------------------------------------------
(* One turn of the dispatch loop. *)

\* The numbers of a record.
LEMMA SlotCounts ==
    ASSUME NEW s \in SlotRecord
    PROVE  /\ IsFiniteSet(s.active) /\ Cardinality(s.active) \in Nat
           /\ IsFiniteSet(s.active \ s.live) /\ Cardinality(s.active \ s.live) \in Nat
           /\ s.streak \in Nat /\ StreakLimit \in Nat /\ s.overtaken \in Nat
           /\ Capacity \in Nat /\ BackgroundLimit \in Nat
  <1>1. s.active \subseteq Names /\ s.active \ s.live \subseteq Names
    BY DEF SlotRecord
  <1>2. IsFiniteSet(s.active) /\ IsFiniteSet(s.active \ s.live)
    BY <1>1, SlotsAssumption, FS_Subset
  <1>3. Cardinality(s.active) \in Nat /\ Cardinality(s.active \ s.live) \in Nat
    BY <1>2, FS_CardinalityType
  <1>4. StreakLimit \in Nat /\ Capacity \in Nat /\ BackgroundLimit \in Nat
    BY SlotsAssumption DEF BackgroundLimit
  <1>5. s.streak \in Nat /\ s.overtaken \in Nat
    BY <1>4 DEF SlotRecord
  <1> QED
    BY <1>2, <1>3, <1>4, <1>5

\* The place of a waiting ticket.
LEMMA PendingPlace ==
    ASSUME NEW s \in SlotRecord, Accounted(s), NEW P, P \subseteq Pending(s), P # {}
    PROVE  /\ Min(P) \in P
           /\ s.waiting[Min(P)] \in Names
           /\ s.task[s.waiting[Min(P)]] = "queued"
  <1>1. s.waiting \in Seq(Names) /\ s.task \in [Names -> TaskStates]
    BY DEF SlotRecord
  <1>2. Len(s.waiting) \in Nat /\ DOMAIN s.waiting = 1 .. Len(s.waiting)
    BY <1>1
  <1>3. P \subseteq 1 .. Len(s.waiting) /\ P \subseteq Int /\ IsFiniteSet(P)
    <2>1. IsFiniteSet(1 .. Len(s.waiting))
      BY <1>2, FS_Interval
    <2>2. P \subseteq 1 .. Len(s.waiting)
      BY DEF Pending
    <2> QED
      BY <1>2, <2>1, <2>2, FS_Subset
  <1>4. Min(P) \in P
    BY <1>3, MinIsLeast
  <1>5. Min(P) \in Pending(s) /\ Min(P) \in DOMAIN s.waiting
    BY <1>2, <1>3, <1>4
  <1>6. s.waiting[Min(P)] \in ToSet(s.waiting)
    BY <1>5 DEF ToSet
  <1>7. s.task[s.waiting[Min(P)]] # "cancelled"
    BY <1>5 DEF Pending
  <1> QED
    BY <1>4, <1>6, <1>7 DEF Accounted, InQueue

\* A queued ticket has a place.
LEMMA QueuedPlace ==
    ASSUME NEW s \in SlotRecord, Accounted(s), NEW n \in Names, s.task[n] = "queued"
    PROVE  \E i \in Pending(s) : s.waiting[i] = n
  <1>1. n \in ToSet(s.waiting)
    BY DEF Accounted, InQueue
  <1>2. DOMAIN s.waiting = 1 .. Len(s.waiting)
    BY DEF SlotRecord
  <1> QED
    BY <1>1, <1>2 DEF ToSet, Pending

\* What Admit does to each field.
LEMMA AdmitFields ==
    ASSUME NEW s \in SlotRecord, NEW n \in Names
    PROVE  /\ Admit(s, n).waiting = RemoveFirst(s.waiting, n)
           /\ Admit(s, n).active = s.active \cup {n}
           /\ Admit(s, n).live = s.live
           /\ Admit(s, n).liveNames = s.liveNames \ {n}
           /\ Admit(s, n).streak = s.streak
           /\ Admit(s, n).task = [s.task EXCEPT ![n] = "granted"]
           /\ Admit(s, n).overtaken = s.overtaken
           /\ DOMAIN Admit(s, n) = DOMAIN s
  BY DEF Admit, SlotRecord

\* Admitting a queued ticket leaves an accounted record and one slot less.
LEMMA AdmitAccounted ==
    ASSUME NEW s \in SlotRecord, Accounted(s),
           NEW n \in Names, s.task[n] = "queued",
           NEW t \in SlotRecord,
           t.waiting = RemoveFirst(s.waiting, n),
           t.active = s.active \cup {n},
           t.live = s.live,
           t.task = [s.task EXCEPT ![n] = "granted"]
    PROVE  /\ Accounted(t)
           /\ n \notin s.active
           /\ Cardinality(t.active) = Cardinality(s.active) + 1
           /\ Cardinality(t.active \ t.live) =
                IF n \in s.live THEN Cardinality(s.active \ s.live)
                ELSE Cardinality(s.active \ s.live) + 1
  <1>1. /\ s.waiting \in Seq(Names) /\ IsInjective(s.waiting)
        /\ s.active = {m \in Names : s.task[m] \in Holding}
        /\ ToSet(s.waiting) = {m \in Names : s.task[m] \in InQueue}
        /\ s.task \in [Names -> TaskStates]
    BY DEF Accounted, SlotRecord
  <1>2. n \notin s.active
    BY <1>1 DEF Holding
  <1>3. ToSet(t.waiting) = ToSet(s.waiting) \ {n} /\ IsInjective(t.waiting)
    BY <1>1, RemovedFromQueue
  <1>4. \A m \in Names : t.task[m] = IF m = n THEN "granted" ELSE s.task[m]
    BY <1>1
  <1>5. t.active = {m \in Names : t.task[m] \in Holding}
    BY <1>1, <1>4 DEF Holding
  <1>6. ToSet(t.waiting) = {m \in Names : t.task[m] \in InQueue}
    BY <1>1, <1>3, <1>4 DEF InQueue
  <1>7. Cardinality(s.active \cup {n}) = Cardinality(s.active) + 1
    BY <1>2, SlotCounts, FS_AddElement
  <1>8. CASE n \in s.live
    <2>1. t.active \ t.live = s.active \ s.live
      BY <1>8
    <2> QED
      BY <1>2, <1>3, <1>5, <1>6, <1>7, <1>8, <2>1 DEF Accounted
  <1>9. CASE n \notin s.live
    <2>1. t.active \ t.live = (s.active \ s.live) \cup {n} /\ n \notin s.active \ s.live
      BY <1>2, <1>9
    <2>2. Cardinality((s.active \ s.live) \cup {n}) = Cardinality(s.active \ s.live) + 1
      BY <2>1, SlotCounts, FS_AddElement
    <2> QED
      BY <1>2, <1>3, <1>5, <1>6, <1>7, <1>9, <2>1, <2>2 DEF Accounted
  <1> QED
    BY <1>8, <1>9

\* The admitted record is one of the slots' records, whatever it counts.
LEMMA AdmitTyped ==
    ASSUME NEW s \in SlotRecord, Accounted(s), NEW n \in Names,
           NEW a \in 0 .. (StreakLimit + 1), NEW b \in Nat
    PROVE  [Admit(s, n) EXCEPT !.streak = a, !.overtaken = b] \in SlotRecord
  <1>1. RemoveFirst(s.waiting, n) \in Seq(Names)
    BY RemovedFromQueue DEF SlotRecord, Accounted
  <1>2. /\ s.active \cup {n} \in SUBSET Names /\ s.liveNames \ {n} \in SUBSET Names
        /\ s.live \in SUBSET Names
    BY DEF SlotRecord
  <1>3. [s.task EXCEPT ![n] = "granted"] \in [Names -> TaskStates]
    BY DEF SlotRecord, TaskStates
  <1> QED
    BY <1>1, <1>2, <1>3 DEF SlotRecord, Admit, TaskStates

\* What an admission counts.
LEMMA AdmitBackgroundFields ==
    ASSUME NEW s \in SlotRecord, Accounted(s), NEW n \in Names
    PROVE  /\ AdmitBackground(s, n) \in SlotRecord
           /\ AdmitBackground(s, n).waiting = RemoveFirst(s.waiting, n)
           /\ AdmitBackground(s, n).active = s.active \cup {n}
           /\ AdmitBackground(s, n).live = s.live
           /\ AdmitBackground(s, n).task = [s.task EXCEPT ![n] = "granted"]
           /\ AdmitBackground(s, n).streak = 0
           /\ AdmitBackground(s, n).overtaken = 0
  <1>1. 0 \in 0 .. (StreakLimit + 1) /\ 0 \in Nat
    BY SlotsAssumption
  <1>2. AdmitBackground(s, n) \in SlotRecord
    BY <1>1, AdmitTyped DEF AdmitBackground
  <1> QED
    BY <1>2 DEF AdmitBackground, Admit, SlotRecord

\* What an admission of a live task changes.
LEMMA AdmitLiveFields ==
    ASSUME NEW s \in SlotRecord, Accounted(s), NEW n \in Names, NEW passing \in BOOLEAN
    PROVE  /\ AdmitLive(s, n, passing) \in SlotRecord
           /\ AdmitLive(s, n, passing).waiting = RemoveFirst(s.waiting, n)
           /\ AdmitLive(s, n, passing).active = s.active \cup {n}
           /\ AdmitLive(s, n, passing).live = s.live
           /\ AdmitLive(s, n, passing).task = [s.task EXCEPT ![n] = "granted"]
           /\ AdmitLive(s, n, passing).streak =
                 IF s.streak > StreakLimit THEN s.streak ELSE s.streak + 1
           /\ AdmitLive(s, n, passing).overtaken =
                 IF passing /\ s.overtaken <= StreakLimit THEN s.overtaken + 1 ELSE s.overtaken
  <1> DEFINE a == IF s.streak > StreakLimit THEN s.streak ELSE s.streak + 1
             b == IF passing /\ s.overtaken <= StreakLimit THEN s.overtaken + 1 ELSE s.overtaken
             r == Admit(s, n)
  <1>1. a \in 0 .. (StreakLimit + 1) /\ b \in Nat
    BY SlotsAssumption DEF SlotRecord
  <1>2. r.streak = s.streak /\ r.overtaken = s.overtaken
    BY DEF Admit, SlotRecord
  <1>3. AdmitLive(s, n, passing) = [r EXCEPT !.streak = a, !.overtaken = b]
    BY <1>2, Zenon DEF AdmitLive
  <1> HIDE DEF a, b
  <1>4. AdmitLive(s, n, passing) \in SlotRecord
    <2>1. [Admit(s, n) EXCEPT !.streak = a, !.overtaken = b] \in SlotRecord
      BY <1>1, AdmitTyped
    <2> QED
      BY <1>3, <2>1
  <1>5. /\ [r EXCEPT !.streak = a, !.overtaken = b].streak = a
        /\ [r EXCEPT !.streak = a, !.overtaken = b].overtaken = b
        /\ [r EXCEPT !.streak = a, !.overtaken = b].waiting = r.waiting
        /\ [r EXCEPT !.streak = a, !.overtaken = b].active = r.active
        /\ [r EXCEPT !.streak = a, !.overtaken = b].live = r.live
        /\ [r EXCEPT !.streak = a, !.overtaken = b].task = r.task
    BY DEF Admit, SlotRecord
  <1>6. /\ r.waiting = RemoveFirst(s.waiting, n) /\ r.active = s.active \cup {n}
        /\ r.live = s.live /\ r.task = [s.task EXCEPT ![n] = "granted"]
    BY AdmitFields
  <1> HIDE DEF r
  <1> QED
    BY <1>3, <1>4, <1>5, <1>6 DEF a, b

\* A turn keeps the record good, and either changes nothing or fills a slot.
LEMMA TurnIsGood ==
    ASSUME NEW s, Good(s)
    PROVE  /\ Good(DispatchOne(s))
           /\ \/ DispatchOne(s) = s
              \/ Cardinality(DispatchOne(s).active) = Cardinality(s.active) + 1
           /\ DispatchOne(s) = s => NoIdle(s)
  <1> DEFINE lives       == {i \in Pending(s) : s.waiting[i] \in s.live}
             backgrounds == Pending(s) \ lives
             eligible    == /\ backgrounds # {}
                            /\ Cardinality(s.active \ s.live) < BackgroundLimit
             first(P)    == s.waiting[Min(P)]
  <1>1. s \in SlotRecord /\ Accounted(s) /\ WithinCaps(s) /\ BoundedStreak(s)
    BY DEF Good
  <1>2. DispatchOne(s) =
            IF Cardinality(s.active) >= Capacity THEN s
            ELSE IF eligible /\ (lives = {} \/ s.streak >= StreakLimit)
            THEN AdmitBackground(s, first(backgrounds))
            ELSE IF lives # {} THEN AdmitLive(s, first(lives), eligible)
            ELSE s
    BY DEF DispatchOne, BackgroundActive
  <1>3. /\ lives # {} => /\ first(lives) \in Names /\ first(lives) \in s.live
                         /\ s.task[first(lives)] = "queued"
        /\ backgrounds # {} => /\ first(backgrounds) \in Names
                               /\ first(backgrounds) \notin s.live
                               /\ s.task[first(backgrounds)] = "queued"
    <2>1. lives \subseteq Pending(s) /\ backgrounds \subseteq Pending(s)
      OBVIOUS
    <2>2. ASSUME lives # {}
          PROVE  Min(lives) \in lives /\ first(lives) \in Names
                 /\ s.task[first(lives)] = "queued"
      BY <1>1, <2>1, <2>2, PendingPlace
    <2>3. ASSUME backgrounds # {}
          PROVE  Min(backgrounds) \in backgrounds /\ first(backgrounds) \in Names
                 /\ s.task[first(backgrounds)] = "queued"
      BY <1>1, <2>1, <2>3, PendingPlace
    <2> QED
      BY <2>2, <2>3
  <1>4. ASSUME NEW n \in Names, s.task[n] = "queued"
        PROVE  IF n \in s.live THEN lives # {} ELSE backgrounds # {}
    BY <1>1, <1>4, QueuedPlace
  <1> HIDE DEF lives, backgrounds, first
  <1>5. /\ Cardinality(s.active) \in Nat /\ Cardinality(s.active \ s.live) \in Nat
        /\ s.streak \in Nat /\ StreakLimit \in Nat /\ s.overtaken \in Nat
        /\ Capacity \in Nat /\ BackgroundLimit \in Nat
    BY <1>1, SlotCounts
  <1>9. Cardinality(s.active) >= Capacity <=> ~ (Cardinality(s.active) < Capacity)
    BY <1>5
  <1>6. CASE /\ Cardinality(s.active) < Capacity
             /\ eligible /\ (lives = {} \/ s.streak >= StreakLimit)
    <2> DEFINE n == first(backgrounds)
               t == AdmitBackground(s, n)
    <2>1. t = DispatchOne(s)
      BY <1>2, <1>9, <1>6, Zenon
    <2>2. n \in Names /\ n \notin s.live /\ s.task[n] = "queued"
      BY <1>3, <1>6
    <2>3. /\ t \in SlotRecord
          /\ t.waiting = RemoveFirst(s.waiting, n)
          /\ t.active = s.active \cup {n} /\ t.live = s.live
          /\ t.task = [s.task EXCEPT ![n] = "granted"]
          /\ t.streak = 0 /\ t.overtaken = 0
      BY <1>1, <2>2, AdmitBackgroundFields
    <2> HIDE DEF n, t
    <2>4. /\ Accounted(t)
          /\ Cardinality(t.active) = Cardinality(s.active) + 1
          /\ Cardinality(t.active \ t.live) = Cardinality(s.active \ s.live) + 1
      BY <1>1, <2>2, <2>3, AdmitAccounted
    <2>5. WithinCaps(t)
      BY <1>5, <1>6, <2>4 DEF WithinCaps
    <2>6. BoundedStreak(t)
      BY <1>5, <2>3 DEF BoundedStreak
    <2>7. t # s
      BY <1>5, <2>4
    <2> QED
      BY <2>1, <2>3, <2>4, <2>5, <2>6, <2>7 DEF Good
  <1>7. CASE /\ Cardinality(s.active) < Capacity
             /\ ~ (eligible /\ (lives = {} \/ s.streak >= StreakLimit))
             /\ lives # {}
    <2> DEFINE n == first(lives)
               t == AdmitLive(s, n, eligible)
    <2>1. t = DispatchOne(s)
      BY <1>2, <1>9, <1>7, Zenon
    <2>2. n \in Names /\ n \in s.live /\ s.task[n] = "queued"
      BY <1>3, <1>7
    <2>3. /\ t \in SlotRecord
          /\ t.waiting = RemoveFirst(s.waiting, n)
          /\ t.active = s.active \cup {n} /\ t.live = s.live
          /\ t.task = [s.task EXCEPT ![n] = "granted"]
          /\ t.streak = IF s.streak > StreakLimit THEN s.streak ELSE s.streak + 1
          /\ t.overtaken = IF eligible /\ s.overtaken <= StreakLimit
                            THEN s.overtaken + 1 ELSE s.overtaken
      <3> HIDE DEF n, eligible
      <3>1. eligible \in BOOLEAN
        BY DEF eligible
      <3> QED
        BY <1>1, <2>2, <3>1, AdmitLiveFields
    <2> HIDE DEF n, t
    <2>4. /\ Accounted(t)
          /\ Cardinality(t.active) = Cardinality(s.active) + 1
          /\ Cardinality(t.active \ t.live) = Cardinality(s.active \ s.live)
      BY <1>1, <2>2, <2>3, AdmitAccounted
    <2>5. WithinCaps(t)
      BY <1>1, <1>5, <1>7, <2>4 DEF WithinCaps
    <2>6. BoundedStreak(t)
      <3>1. eligible => s.streak < StreakLimit
        BY <1>5, <1>7
      <3> HIDE DEF eligible
      <3> QED
        BY <1>1, <1>5, <2>3, <3>1 DEF BoundedStreak
    <2>7. t # s
      BY <1>5, <2>4
    <2> QED
      BY <2>1, <2>3, <2>4, <2>5, <2>6, <2>7 DEF Good
  <1>8. CASE \/ ~ (Cardinality(s.active) < Capacity)
             \/ ~ eligible /\ lives = {}
    <2>1. DispatchOne(s) = s
      BY <1>2, <1>9, <1>8, Zenon
    <2>2. NoIdle(s)
      <3>1. SUFFICES ASSUME Cardinality(s.active) < Capacity,
                            NEW n \in Names, s.task[n] = "queued"
                     PROVE  n \notin s.live /\ Cardinality(s.active \ s.live) >= BackgroundLimit
        BY DEF NoIdle
      <3>2. ~ eligible /\ lives = {}
        BY <1>8, <3>1
      <3>3. n \notin s.live /\ backgrounds # {}
        BY <1>4, <3>1, <3>2
      <3> QED
        BY <1>5, <3>2, <3>3
    <2> QED
      BY <2>1, <2>2
  <1> QED
    BY <1>5, <1>6, <1>7, <1>8

-----------------------------------------------------------------------------
(* The loop. *)

\* There is a sequence of turns of every length, and so the recursive function
\* of Dispatch.
LEMMA TurnsExist ==
    ASSUME NEW s, NEW m \in Nat
    PROVE  \E f : f = [k \in 0 .. m |-> IF k = 0 THEN s ELSE DispatchOne(f[k - 1])]
  <1> DEFINE Turns(f, j) == f = [k \in 0 .. j |-> IF k = 0 THEN s ELSE DispatchOne(f[k - 1])]
             Bad == {j \in Nat : ~ \E f : Turns(f, j)}
  <1>1. SUFFICES ASSUME Bad # {} PROVE FALSE
    OBVIOUS
  <1>2. PICK j \in Bad : \A i \in Bad : j <= i
    BY <1>1, LeastNatural
  <1>3. j \in Nat /\ ~ \E f : Turns(f, j)
    BY <1>2
  <1>4. CASE j = 0
    <2> DEFINE f == [k \in 0 .. 0 |-> s]
    <2>1. f = [k \in 0 .. 0 |-> IF k = 0 THEN s ELSE DispatchOne(f[k - 1])]
      OBVIOUS
    <2> QED
      BY <1>3, <1>4, <2>1
  <1>5. CASE j # 0
    <2>1. j - 1 \in Nat /\ j - 1 \notin Bad
      BY <1>2, <1>3, <1>5
    <2>2. PICK g : Turns(g, j - 1)
      BY <2>1
    <2> DEFINE f == [k \in 0 .. j |-> IF k = j THEN DispatchOne(g[j - 1]) ELSE g[k]]
    <2>3. ASSUME NEW k \in 0 .. j
          PROVE  f[k] = IF k = 0 THEN s ELSE DispatchOne(f[k - 1])
      <3>1. CASE k = 0
        <4>1. 0 \in 0 .. j /\ 0 \in 0 .. j - 1 /\ 0 # j
          BY <1>3, <1>5
        <4>2. f[0] = g[0] /\ g[0] = s
          BY <2>2, <4>1
        <4> QED
          BY <3>1, <4>2
      <3>2. CASE k = j
        <4>1. j \in 0 .. j /\ j - 1 \in 0 .. j /\ j - 1 # j
          BY <1>3, <2>1
        <4>2. f[j] = DispatchOne(g[j - 1]) /\ f[j - 1] = g[j - 1]
          BY <4>1
        <4> QED
          BY <1>5, <3>2, <4>2
      <3>3. CASE k # 0 /\ k # j
        <4>1. k \in 0 .. j - 1 /\ k - 1 \in 0 .. j /\ k - 1 # j
          BY <1>3, <3>3
        <4>2. f[k] = g[k] /\ f[k - 1] = g[k - 1]
          BY <3>3, <4>1
        <4>3. g[k] = DispatchOne(g[k - 1])
          BY <2>2, <3>3, <4>1
        <4> QED
          BY <3>3, <4>2, <4>3
      <3> QED
        BY <3>1, <3>2, <3>3
    <2>4. f = [k \in 0 .. j |-> f[k]]
      OBVIOUS
    <2> HIDE DEF f
    <2>5. Turns(f, j)
      BY <2>3, <2>4
    <2> QED
      BY <1>3, <2>5
  <1> QED
    BY <1>4, <1>5

\* The loop keeps the record good, and ends where no ticket can be admitted: a
\* turn that changes something fills a slot, and there are Capacity of both.
LEMMA DispatchIsGood ==
    ASSUME NEW s, Good(s)
    PROVE  Good(Dispatch(s)) /\ NoIdle(Dispatch(s))
  <1> DEFINE turn == CHOOSE f : f = [k \in 0 .. Capacity |->
                                        IF k = 0 THEN s ELSE DispatchOne(f[k - 1])]
             Holds(k) == /\ Good(turn[k])
                         /\ DispatchOne(turn[k]) = turn[k] \/ Cardinality(turn[k].active) >= k
             Bad == {k \in 0 .. Capacity : ~ Holds(k)}
  <1>1. Capacity \in Nat
    BY SlotsAssumption
  <1>2. turn = [k \in 0 .. Capacity |-> IF k = 0 THEN s ELSE DispatchOne(turn[k - 1])]
    BY <1>1, TurnsExist
  <1>3. Dispatch(s) = turn[Capacity]
    BY DEF Dispatch
  <1> HIDE DEF turn
  <1>4. /\ turn[0] = s
        /\ \A k \in 0 .. Capacity : k # 0 => turn[k] = DispatchOne(turn[k - 1])
    BY <1>1, <1>2
  <1>5. \A r : Good(r) => /\ Cardinality(r.active) \in Nat
                         /\ Cardinality(r.active) <= Capacity
    BY SlotCounts DEF Good, WithinCaps
  <1>6. Holds(Capacity)
    <2>1. SUFFICES Bad = {}
      BY <1>1
    <2>2. SUFFICES ASSUME Bad # {} PROVE FALSE
      OBVIOUS
    <2>3. PICK k \in Bad : \A i \in Bad : k <= i
      <3>1. Bad \subseteq Nat
        BY <1>1
      <3> QED
        BY <2>2, <3>1, LeastNatural
    <2>4. k \in Nat /\ k <= Capacity /\ ~ Holds(k)
      BY <1>1, <2>3
    <2>5. k # 0
      <3>1. Cardinality(s.active) >= 0
        BY <1>5
      <3> QED
        BY <1>4, <2>4, <3>1
    <2>6. k - 1 \in 0 .. Capacity /\ k \in 0 .. Capacity /\ k - 1 \notin Bad
      BY <1>1, <2>3, <2>4, <2>5
    <2> DEFINE r == turn[k - 1]
    <2>7. /\ Good(r) /\ turn[k] = DispatchOne(r)
          /\ DispatchOne(r) = r \/ Cardinality(r.active) >= k - 1
      BY <1>4, <2>5, <2>6
    <2> HIDE DEF r
    <2>8. /\ Good(turn[k])
          /\ turn[k] = r \/ Cardinality(turn[k].active) = Cardinality(r.active) + 1
      BY <2>7, TurnIsGood
    <2>9. CASE DispatchOne(r) = r
      <3>1. DispatchOne(turn[k]) = turn[k]
        BY <2>7, <2>9
      <3> QED
        BY <2>4, <2>8, <3>1
    <2>10. CASE DispatchOne(r) # r
      <3>1. Cardinality(r.active) \in Nat
        BY <1>5, <2>7
      <3>2. Cardinality(turn[k].active) >= k
        BY <2>4, <2>7, <2>8, <2>10, <3>1
      <3> QED
        BY <2>4, <2>8, <3>2
    <2> QED
      BY <2>9, <2>10
  <1>7. ASSUME Cardinality(turn[Capacity].active) >= Capacity PROVE NoIdle(turn[Capacity])
    BY <1>1, <1>5, <1>6, <1>7 DEF NoIdle
  <1>8. ASSUME DispatchOne(turn[Capacity]) = turn[Capacity] PROVE NoIdle(turn[Capacity])
    BY <1>6, <1>8, TurnIsGood
  <1> QED
    BY <1>3, <1>6, <1>7, <1>8

-----------------------------------------------------------------------------
(* The operations. *)

\* A step ends in the record it names.
LEMMA Becoming ==
    ASSUME NEW t, Become(t), Good(t), NoIdle(t)
    PROVE  SlotsInv'
  <1>1. /\ waiting' = t.waiting /\ active' = t.active /\ live' = t.live
        /\ liveNames' = t.liveNames /\ streak' = t.streak /\ task' = t.task
        /\ overtaken' = t.overtaken
    BY DEF Become
  <1>2. /\ t.waiting \in Seq(Names) /\ t.active \in SUBSET Names /\ t.live \in SUBSET Names
        /\ t.liveNames \in SUBSET Names /\ t.streak \in 0 .. (StreakLimit + 1)
        /\ t.task \in [Names -> TaskStates] /\ t.overtaken \in Nat
    BY DEF Good, SlotRecord
  <1>3. (Slots \in SlotRecord)'
    BY <1>1, <1>2 DEF Slots, SlotRecord
  <1>4. /\ Slots'.waiting = t.waiting /\ Slots'.active = t.active /\ Slots'.live = t.live
        /\ Slots'.liveNames = t.liveNames /\ Slots'.streak = t.streak /\ Slots'.task = t.task
        /\ Slots'.overtaken = t.overtaken
    BY <1>1 DEF Slots
  <1>5. Accounted(t) /\ WithinCaps(t) /\ BoundedStreak(t)
    BY DEF Good
  <1>6. Accounted(Slots)' /\ WithinCaps(Slots)' /\ BoundedStreak(Slots)' /\ NoIdle(Slots)'
    BY <1>4, <1>5 DEF Accounted, WithinCaps, BoundedStreak, NoIdle
  <1> QED
    BY <1>3, <1>6 DEF SlotsInv, Good

\* promote hands a good record over.
LEMMA PromotedIsGood ==
    ASSUME NEW s, Good(s), NEW n \in Names
    PROVE  Good(Promoted(s, n)) /\ NoIdle(Promoted(s, n))
  <1> DEFINE r == [s EXCEPT !.liveNames = @ \cup {n},
                            !.live = IF n \in ToSet(s.waiting) THEN @ \cup {n} ELSE @]
  <1>1. s \in SlotRecord /\ Accounted(s) /\ WithinCaps(s) /\ BoundedStreak(s)
    BY DEF Good
  <1>2. /\ r \in SlotRecord
        /\ r.waiting = s.waiting /\ r.active = s.active /\ r.task = s.task
        /\ r.live = IF n \in ToSet(s.waiting) THEN s.live \cup {n} ELSE s.live
        /\ r.streak = s.streak /\ r.overtaken = s.overtaken
    BY <1>1 DEF SlotRecord
  <1>3. Promoted(s, n) = Dispatch(r)
    BY DEF Promoted
  <1> HIDE DEF r
  <1>4. Accounted(r) /\ BoundedStreak(r)
    BY <1>1, <1>2 DEF Accounted, BoundedStreak
  <1>5. WithinCaps(r)
    <2>1. n \in ToSet(s.waiting) => n \notin s.active
      BY <1>1 DEF Accounted, Holding, InQueue
    <2>2. r.active \ r.live = s.active \ s.live
      BY <1>2, <2>1
    <2> QED
      BY <1>1, <1>2, <2>2 DEF WithinCaps
  <1> QED
    BY <1>2, <1>3, <1>4, <1>5, DispatchIsGood DEF Good

\* So does the finally clause of slot, whatever the ticket's state.
LEMMA LeftIsGood ==
    ASSUME NEW s, Good(s), NEW n \in Names
    PROVE  Good(Left(s, n)) /\ NoIdle(Left(s, n))
  <1> DEFINE r == [s EXCEPT !.waiting = RemoveFirst(@, n), !.active = @ \ {n},
                            !.live = @ \ {n}, !.task[n] = "idle"]
  <1>1. s \in SlotRecord /\ Accounted(s) /\ WithinCaps(s) /\ BoundedStreak(s)
    BY DEF Good
  <1>2. /\ RemoveFirst(s.waiting, n) \in Seq(Names) /\ IsInjective(RemoveFirst(s.waiting, n))
        /\ ToSet(RemoveFirst(s.waiting, n)) = ToSet(s.waiting) \ {n}
    BY <1>1, RemovedFromQueue DEF SlotRecord, Accounted
  <1>3. /\ r \in SlotRecord
        /\ r.waiting = RemoveFirst(s.waiting, n) /\ r.active = s.active \ {n}
        /\ r.live = s.live \ {n} /\ r.task = [s.task EXCEPT ![n] = "idle"]
        /\ r.streak = s.streak /\ r.overtaken = s.overtaken
    BY <1>1, <1>2 DEF SlotRecord, TaskStates
  <1>4. Left(s, n) = Dispatch(r)
    BY DEF Left
  <1> HIDE DEF r
  <1>5. Accounted(r)
    <2>1. \A m \in Names : r.task[m] = IF m = n THEN "idle" ELSE s.task[m]
      BY <1>1, <1>3 DEF SlotRecord
    <2>2. r.active = {m \in Names : r.task[m] \in Holding}
      BY <1>1, <1>3, <2>1 DEF Accounted, Holding
    <2>3. ToSet(r.waiting) = {m \in Names : r.task[m] \in InQueue}
      BY <1>1, <1>2, <1>3, <2>1 DEF Accounted, InQueue
    <2> QED
      BY <1>2, <1>3, <2>2, <2>3 DEF Accounted
  <1>6. WithinCaps(r)
    <2>1. r.active \ r.live = (s.active \ s.live) \ {n}
      BY <1>3
    <2>2. /\ Cardinality(r.active) <= Cardinality(s.active)
          /\ Cardinality(r.active \ r.live) <= Cardinality(s.active \ s.live)
      <3>1. /\ IsFiniteSet(s.active) /\ s.active \ {n} \subseteq s.active
            /\ IsFiniteSet(s.active \ s.live)
            /\ (s.active \ s.live) \ {n} \subseteq s.active \ s.live
        BY <1>1, SlotCounts
      <3>2. /\ Cardinality(s.active \ {n}) <= Cardinality(s.active)
            /\ Cardinality((s.active \ s.live) \ {n}) <= Cardinality(s.active \ s.live)
        BY <3>1, FS_Subset
      <3> QED
        BY <1>3, <2>1, <3>2
    <2>3. /\ Cardinality(r.active) \in Nat /\ Cardinality(r.active \ r.live) \in Nat
          /\ Cardinality(s.active) \in Nat /\ Cardinality(s.active \ s.live) \in Nat
          /\ Capacity \in Nat /\ BackgroundLimit \in Nat
      BY <1>1, <1>3, SlotCounts
    <2> QED
      BY <1>1, <2>2, <2>3 DEF WithinCaps
  <1>7. BoundedStreak(r)
    BY <1>1, <1>3 DEF BoundedStreak
  <1> QED
    BY <1>3, <1>4, <1>5, <1>6, <1>7, DispatchIsGood DEF Good

\* A change of one task within its group, the queue or the slots, that queues
\* nobody anew (Resume, Cancel).
LEMMA MovedIsGood ==
    ASSUME NEW s, Good(s), NoIdle(s), NEW n \in Names, NEW x \in TaskStates,
           x # "queued",
           \/ s.task[n] \in Holding /\ x \in Holding
           \/ s.task[n] \in InQueue /\ x \in InQueue
    PROVE  /\ Good([s EXCEPT !.task[n] = x])
           /\ NoIdle([s EXCEPT !.task[n] = x])
  <1> DEFINE r == [s EXCEPT !.task[n] = x]
  <1>1. s \in SlotRecord /\ Accounted(s) /\ WithinCaps(s) /\ BoundedStreak(s)
    BY DEF Good
  <1>2. /\ r \in SlotRecord
        /\ r.waiting = s.waiting /\ r.active = s.active /\ r.live = s.live
        /\ r.task = [s.task EXCEPT ![n] = x]
        /\ r.streak = s.streak /\ r.overtaken = s.overtaken
    BY <1>1 DEF SlotRecord
  <1> HIDE DEF r
  <1>3. \A m \in Names : r.task[m] = IF m = n THEN x ELSE s.task[m]
    BY <1>1, <1>2 DEF SlotRecord
  <1>4. Accounted(r)
    BY <1>1, <1>2, <1>3 DEF Accounted, Holding, InQueue
  <1>5. WithinCaps(r) /\ BoundedStreak(r)
    BY <1>1, <1>2 DEF WithinCaps, BoundedStreak
  <1>6. NoIdle(r)
    BY <1>2, <1>3 DEF NoIdle
  <1> QED
    BY <1>2, <1>4, <1>5, <1>6 DEF Good, r

\* A pause takes a ticket out of the queue.
LEMMA WithdrawnIsGood ==
    ASSUME NEW s, Good(s), NEW n \in Names, s.task[n] = "queued"
    PROVE  Good([s EXCEPT !.waiting = RemoveFirst(@, n), !.task[n] = "refused"])
  <1> DEFINE r == [s EXCEPT !.waiting = RemoveFirst(@, n), !.task[n] = "refused"]
  <1>1. s \in SlotRecord /\ Accounted(s) /\ WithinCaps(s) /\ BoundedStreak(s)
    BY DEF Good
  <1>2. /\ RemoveFirst(s.waiting, n) \in Seq(Names) /\ IsInjective(RemoveFirst(s.waiting, n))
        /\ ToSet(RemoveFirst(s.waiting, n)) = ToSet(s.waiting) \ {n}
    BY <1>1, RemovedFromQueue DEF SlotRecord, Accounted
  <1>3. /\ r \in SlotRecord
        /\ r.waiting = RemoveFirst(s.waiting, n) /\ r.active = s.active /\ r.live = s.live
        /\ r.task = [s.task EXCEPT ![n] = "refused"]
        /\ r.streak = s.streak /\ r.overtaken = s.overtaken
    BY <1>1, <1>2 DEF SlotRecord, TaskStates
  <1> HIDE DEF r
  <1>4. \A m \in Names : r.task[m] = IF m = n THEN "refused" ELSE s.task[m]
    BY <1>1, <1>3 DEF SlotRecord
  <1>5. r.active = {m \in Names : r.task[m] \in Holding}
    BY <1>1, <1>3, <1>4 DEF Accounted, Holding
  <1>6. ToSet(r.waiting) = {m \in Names : r.task[m] \in InQueue}
    BY <1>1, <1>2, <1>3, <1>4 DEF Accounted, InQueue
  <1>7. WithinCaps(r) /\ BoundedStreak(r)
    BY <1>1, <1>3 DEF WithinCaps, BoundedStreak
  <1> QED
    BY <1>2, <1>3, <1>5, <1>6, <1>7 DEF Good, Accounted, r

\* A new ticket is queued, live when its name is.
LEMMA EnteredIsGood ==
    ASSUME NEW s, Good(s), NEW n \in Names, s.task[n] = "idle", NEW N
    PROVE  Good([s EXCEPT !.waiting = Append(@, n),
                          !.live = IF n \in N THEN @ \cup {n} ELSE @,
                          !.task[n] = "queued"])
  <1> DEFINE r == [s EXCEPT !.waiting = Append(@, n),
                            !.live = IF n \in N THEN @ \cup {n} ELSE @,
                            !.task[n] = "queued"]
  <1>1. s \in SlotRecord /\ Accounted(s) /\ WithinCaps(s) /\ BoundedStreak(s)
    BY DEF Good
  <1>2. n \notin s.active /\ n \notin ToSet(s.waiting)
    BY <1>1 DEF Accounted, Holding, InQueue
  <1>3. /\ Append(s.waiting, n) \in Seq(Names) /\ IsInjective(Append(s.waiting, n))
        /\ ToSet(Append(s.waiting, n)) = ToSet(s.waiting) \cup {n}
    BY <1>1, <1>2, AppendedToQueue DEF SlotRecord, Accounted
  <1>4. /\ r \in SlotRecord
        /\ r.waiting = Append(s.waiting, n) /\ r.active = s.active
        /\ r.live = IF n \in N THEN s.live \cup {n} ELSE s.live
        /\ r.task = [s.task EXCEPT ![n] = "queued"]
        /\ r.streak = s.streak /\ r.overtaken = s.overtaken
    BY <1>1, <1>3 DEF SlotRecord, TaskStates
  <1> HIDE DEF r
  <1>5. \A m \in Names : r.task[m] = IF m = n THEN "queued" ELSE s.task[m]
    BY <1>1, <1>4 DEF SlotRecord
  <1>6. r.active = {m \in Names : r.task[m] \in Holding}
    BY <1>1, <1>4, <1>5 DEF Accounted, Holding
  <1>7. ToSet(r.waiting) = {m \in Names : r.task[m] \in InQueue}
    BY <1>1, <1>3, <1>4, <1>5 DEF Accounted, InQueue
  <1>8. WithinCaps(r)
    <2>1. r.active \ r.live = s.active \ s.live
      BY <1>2, <1>4
    <2> QED
      BY <1>1, <1>4, <2>1 DEF WithinCaps
  <1>9. BoundedStreak(r)
    BY <1>1, <1>4 DEF BoundedStreak
  <1> QED
    BY <1>3, <1>4, <1>6, <1>7, <1>8, <1>9 DEF Good, Accounted, r

-----------------------------------------------------------------------------
(* The specification. *)

\* An empty round has nothing to account for.
LEMMA SlotsStart == SlotsInit => SlotsInv
  <1> SUFFICES ASSUME SlotsInit PROVE SlotsInv
    OBVIOUS
  <1>1. /\ StreakLimit \in Nat /\ Capacity \in Nat /\ BackgroundLimit \in Nat
    BY SlotsAssumption DEF BackgroundLimit
  <1>2. Slots \in SlotRecord
    <2>1. <<>> \in Seq(Names) /\ 0 \in 0 .. (StreakLimit + 1)
      BY <1>1
    <2> QED
      BY <2>1 DEF Slots, SlotRecord, SlotsInit, TaskStates
  <1>3. /\ Slots.waiting = <<>> /\ Slots.active = {} /\ Slots.live = {} /\ Slots.streak = 0
        /\ Slots.task = [n \in Names |-> "idle"] /\ Slots.overtaken = 0
    BY DEF Slots, SlotsInit
  <1>4. ToSet(<<>>) = {} /\ IsInjective(<<>>)
    BY DEF ToSet, IsInjective
  <1>5. Accounted(Slots) /\ NoIdle(Slots)
    BY <1>3, <1>4 DEF Accounted, Holding, InQueue, NoIdle
  <1>6. WithinCaps(Slots)
    <2>1. Slots.active \ Slots.live = {}
      BY <1>3
    <2> QED
      BY <1>1, <1>3, <2>1, FS_EmptySet DEF WithinCaps
  <1>7. BoundedStreak(Slots)
    BY <1>1, <1>3 DEF BoundedStreak
  <1> QED
    BY <1>2, <1>5, <1>6, <1>7 DEF SlotsInv, Good

\* Every admission, end and wakeup keeps the invariant.
LEMMA SlotsStep == SlotsInv /\ [SlotsNext]_slotVars => SlotsInv'
  <1> SUFFICES ASSUME SlotsInv, [SlotsNext]_slotVars PROVE SlotsInv'
    OBVIOUS
  <1>1. Good(Slots) /\ NoIdle(Slots)
    BY DEF SlotsInv
  <1>2. Slots.task = task /\ Slots.liveNames = liveNames
    BY DEF Slots
  <1>3. ASSUME NEW n \in Names, Promote(n) PROVE SlotsInv'
    BY <1>1, <1>3, PromotedIsGood, Becoming DEF Promote
  <1>4. ASSUME NEW n \in Names, Withdraw(n) PROVE SlotsInv'
    BY <1>1, <1>2, <1>4, WithdrawnIsGood, DispatchIsGood, Becoming DEF Withdraw
  <1>5. ASSUME NEW n \in Names, Enter(n) PROVE SlotsInv'
    <2> DEFINE r == [Slots EXCEPT !.waiting = Append(@, n),
                                  !.live = IF n \in liveNames THEN @ \cup {n} ELSE @,
                                  !.task[n] = "queued"]
    <2>1. task[n] = "idle" /\ Become(Dispatch(r))
      BY <1>5 DEF Enter
    <2>2. Good(r)
      BY <1>1, <1>2, <2>1, EnteredIsGood
    <2> HIDE DEF r
    <2> QED
      BY <2>1, <2>2, DispatchIsGood, Becoming
  <1>6. ASSUME NEW n \in Names, Resume(n) PROVE SlotsInv'
    <2>1. /\ Good([Slots EXCEPT !.task[n] = "running"])
          /\ NoIdle([Slots EXCEPT !.task[n] = "running"])
      <3>1. "running" \in TaskStates /\ "running" \in Holding /\ Slots.task[n] \in Holding /\ "running" # "queued"
        BY <1>2, <1>6 DEF Resume, Holding, TaskStates
      <3> QED
        BY <1>1, <3>1, MovedIsGood
    <2> QED
      BY <1>6, <2>1, Becoming DEF Resume
  <1>7. ASSUME NEW n \in Names, GiveUp(n) PROVE SlotsInv'
    BY <1>1, <1>7, LeftIsGood, Becoming DEF GiveUp
  <1>8. ASSUME NEW n \in Names, Finish(n) PROVE SlotsInv'
    BY <1>1, <1>8, LeftIsGood, Becoming DEF Finish
  <1>9. ASSUME NEW n \in Names, YieldLane(n) PROVE SlotsInv'
    BY <1>1, <1>9, PromotedIsGood, LeftIsGood, Becoming DEF YieldLane
  <1>10. ASSUME NEW n \in Names, Cancel(n) PROVE SlotsInv'
    <2>1. CASE task[n] = "queued" /\ Become([Slots EXCEPT !.task[n] = "cancelled"])
      <3>1. /\ Good([Slots EXCEPT !.task[n] = "cancelled"])
            /\ NoIdle([Slots EXCEPT !.task[n] = "cancelled"])
        <4>1. "cancelled" \in TaskStates /\ "cancelled" \in InQueue /\ Slots.task[n] \in InQueue
          BY <1>2, <2>1 DEF InQueue, TaskStates
        <4> QED
          BY <1>1, <4>1, MovedIsGood
      <3> QED
        BY <2>1, <3>1, Becoming
    <2>2. CASE task[n] = "granted" /\ Become([Slots EXCEPT !.task[n] = "dying"])
      <3>1. /\ Good([Slots EXCEPT !.task[n] = "dying"])
            /\ NoIdle([Slots EXCEPT !.task[n] = "dying"])
        <4>1. "dying" \in TaskStates /\ "dying" \in Holding /\ Slots.task[n] \in Holding /\ "dying" # "queued"
          BY <1>2, <2>2 DEF Holding, TaskStates
        <4> QED
          BY <1>1, <4>1, MovedIsGood
      <3> QED
        BY <2>2, <3>1, Becoming
    <2> QED
      BY <1>10, <2>1, <2>2 DEF Cancel
  <1>11. CASE UNCHANGED slotVars
    <2>1. Slots' = Slots
      BY <1>11 DEF slotVars, Slots
    <2> QED
      BY <1>1, <2>1 DEF SlotsInv
  <1> QED
    BY <1>3, <1>4, <1>5, <1>6, <1>7, <1>8, <1>9, <1>10, <1>11 DEF SlotsNext

\* The invariant holds throughout.
LEMMA SlotsAreInvariant == SlotsSpec => []SlotsInv
  BY SlotsStart, SlotsStep, PTL DEF SlotsSpec

\* No path leaks a slot or a place in the queue, and the caps hold
\* (round_slots.py slot, withdraw_waiting, _dispatch).
THEOREM SlotsAreSafe == SlotsSpec => []SlotsSafe
  <1>1. SlotsInv => SlotsSafe
    <2> SUFFICES ASSUME SlotsInv PROVE SlotsSafe
      OBVIOUS
    <2>1. Slots \in SlotRecord /\ Accounted(Slots) /\ WithinCaps(Slots)
      BY DEF SlotsInv, Good
    <2>2. SlotsTypeOK
      BY <2>1 DEF SlotRecord, Slots, SlotsTypeOK
    <2>3. SlotsAccounted
      BY <2>1 DEF Accounted, Holding, InQueue, Slots, SlotsAccounted
    <2>4. SlotCaps
      BY <2>1 DEF WithinCaps, Slots, SlotCaps
    <2> QED
      BY <2>2, <2>3, <2>4 DEF SlotsSafe
  <1> QED
    BY <1>1, SlotsAreInvariant, PTL

\* The dispatch loop never stops while a waiting ticket could be admitted, and
\* every operation after which one could be ends in that loop
\* (round_slots.py:36,44,64,72).
THEOREM NoSlotIsIdle == SlotsSpec => []NoIdleSlot
  <1>1. SlotsInv => NoIdleSlot
    BY DEF SlotsInv, NoIdle, Slots, NoIdleSlot
  <1> QED
    BY <1>1, SlotsAreInvariant, PTL

\* For every streak limit, at most that many live rounds overtake an eligible
\* background round between two background admissions (round_slots.py:53).
THEOREM OvertakingIsBounded == SlotsSpec => []BoundedOvertaking
  <1>1. SlotsInv => BoundedOvertaking
    BY DEF SlotsInv, Good, BoundedStreak, Slots, BoundedOvertaking
  <1> QED
    BY <1>1, SlotsAreInvariant, PTL
=============================================================================
