---------------------------- MODULE OutletDelivery ----------------------------
(***************************************************************************)
(* One agent's outlet (scripts/hostd/outlet.py): it reads the agent's own  *)
(* signed events from the Buzz relay and performs them in the Feishu group *)
(* with the agent's own bot, one attempt per slice, through the durable    *)
(* delivery ledger (DeliveryLedger) and the durable work queue             *)
(* (outlet_work.py).  The relay, Feishu and the network between are the    *)
(* environment: requests may be refused, their answers may be lost, and a  *)
(* request whose answer was lost may still take effect later.  The process *)
(* may crash between any two ledger transactions.                          *)
(***************************************************************************)
EXTENDS DeliveryLedger, FiniteSets, Sequences

CONSTANTS
    Kind,          \* "text" (kind 9), "edit" (40003), "react" (7), "withdraw" (5)
    At,            \* created_at of each event
    Ref,           \* the event it replies to, edits, reacts to or withdraws
    None,          \* Ref of a text that starts a topic
    Emoji,         \* what a reaction shows on its message
    Transient,     \* reactions that only show progress (GLANCE, Typing)
    InitialSince,  \* the binding's baseline: older events are not delivered
    Lateness,      \* bound: the relay shows an event at most this late
    RetryWindow,   \* FEISHU_RETRY_WINDOW_SECONDS
    DedupWindow,   \* how long Feishu deduplicates an idempotency key
    Margin,        \* bound: from an attempt's clock read to its last effect
    LeaseUnit,     \* 30 s: the first retry lease
    LeaseCap,      \* 300 s: the longest retry lease
    AgingTurns,    \* 7: preferred choices before one choice by age
    Own, Paired,   \* content commitments: the event itself, a no-effect pair
    LateLanding,   \* whether a request whose answer was lost may land later
    MaxFaults,     \* bound: crashes, refusals, lost answers and failed reads
    FaultsUntil    \* bound: the last time at which a fault happens

Text     == {e \in Sources : Kind[e] = "text"}
Edit     == {e \in Sources : Kind[e] = "edit"}
React    == {e \in Sources : Kind[e] = "react"}
Withdraw == {e \in Sources : Kind[e] = "withdraw"}

AttemptCap == 5     \* the lease stops growing at four attempts
MaxCopies  == 2     \* enough to see a duplicate
MaxDepth   == 8     \* dependency levels of one attempt

ASSUME OutletAssumption ==
    /\ Sources \subseteq Nat \ {None}
    /\ \A e \in Sources : /\ Kind[e] \in {"text", "edit", "react", "withdraw"}
                          /\ At[e] \in Times
                          /\ Ref[e] \in Sources \cup {None}
                          /\ Ref[e] = None => e \in Text
                          /\ e \in Text \cup Edit \cup React => Ref[e] \in Text \cup {None}
                          /\ e \in Withdraw => Ref[e] \in React
                          /\ Ref[e] # None => At[Ref[e]] <= At[e]
    /\ \A q, r \in React : Ref[q] = Ref[r] /\ Emoji[q] = Emoji[r] => q = r
    /\ Transient \subseteq React
    /\ Outlet = Sources /\ Targets = 1 .. MaxCopies
    /\ Contents = {Own, Paired} /\ Own # Paired
    /\ {InitialSince, Lateness, RetryWindow, DedupWindow, Margin} \subseteq Nat
    /\ {LeaseUnit, LeaseCap, AgingTurns, MaxFaults, FaultsUntil} \subseteq Nat
    /\ LateLanding \in BOOLEAN
    /\ RetryWindow + Margin <= DedupWindow
    /\ Lateness <= Overlap

VARIABLES
    now,      \* the clock
    relay,    \* the events the relay shows
    work,     \* outlet_work: the durable queue of captured events
    turns,    \* outlet_work_turn.fresh_turns
    pc,       \* where the outlet is in catch_up
    snap,     \* the relay interval this slice has read
    stack,    \* the _deliver calls of the attempt, innermost last
    sighted,  \* texts that every history read since the last write shows
    wire,     \* requests sent to Feishu that have not taken effect
    copies,   \* how many native effects each event has created in Feishu
    firstAt,  \* when a text's idempotency key was first used
    card,     \* the edit each text's card shows (None: the text itself)
    faults    \* environment faults so far

queueVars   == <<work, turns>>
feishuVars  == <<copies, firstAt, card>>
controlVars == <<pc, snap, stack, sighted>>
vars == <<ledgerVars, queueVars, controlVars, feishuVars, now, relay, wire, faults>>

NotHeld == [held |-> FALSE, attempts |-> 0, retryAt |-> 0]
Held    == {e \in Sources : work[e].held}

Top     == stack[Len(stack)]
Busy    == {"enter", "resolve", "reserve", "mark", "call", "wait", "readback", "ack", "return"}

-----------------------------------------------------------------------------
(* What the ledger says of an event. *)

\* reaction_supersession.superseded: a progress reaction and its withdrawal
\* that were settled as a pair before either was attempted.
Superseded(e) ==
    LET r == IF e \in React THEN e ELSE Ref[e]
    IN  /\ e \in React \cup Withdraw
        /\ row[r].content = Paired
        /\ row[e].status = "absent" \/ row[e].content = Paired

\* _acked_text_replay, _acked_reaction_replay: nothing is left to do.
Finished(e) ==
    \/ e \in Text /\ row[e].status = "acked"
    \/ e \in Edit /\ row[e].status \in {"acked", "skipped"}
    \/ e \in React /\ row[e].status \in {"acked", "removed"}
    \/ e \in Withdraw /\ row[e].status = "acked" /\ row[Ref[e]].status = "removed"
    \/ Superseded(e)

Newer(f, e) == At[f] > At[e] \/ (At[f] = At[e] /\ f > e)

\* Mutant of LatestEdit: every edit counts as the latest.
AnyEdit(e) == TRUE

\* _latest_edit reads the relay afresh.
LatestEdit(e) == \A f \in Edit \cap relay : Ref[f] = Ref[e] => ~ Newer(f, e)

\* Mutant of SinceCovers: the queue does not widen the read.
SinceCursor(t) == IF HasReplayState THEN Replays(t) ELSE InitialSince <= t

\* _since: what the next history read covers.
SinceCovers(t) ==
    \/ IF HasReplayState THEN Replays(t) ELSE InitialSince <= t
    \/ \E e \in Held : At[e] <= t

\* The native state of a reaction.
Visible(r) == copies[r] > 0 /\ \A w \in Withdraw : Ref[w] = r => copies[w] = 0

-----------------------------------------------------------------------------
(* outlet_work.choose: which captured event the slice attempts. *)

Lane(e) == IF e \in Text \cup Edit THEN "text" ELSE "reaction"

\* The topic of an event: follow references inside its lane as far as known.
TopicRoot(e) ==
    LET known == snap \cup Held
        up[n \in 0 .. Cardinality(Sources), x \in Sources] ==
            IF n > 0 /\ x \in known /\ Lane(x) = Lane(e) /\ Ref[x] # None
            THEN up[n - 1, Ref[x]] ELSE x
    IN  up[Cardinality(Sources), e]

Topic(e) == {h \in Held : Lane(h) = Lane(e) /\ TopicRoot(h) = TopicRoot(e)}

\* causal_order: by time and id, a reaction before its withdrawal.
Precedes(a, b) ==
    LET early(e) == {e} \cup {w \in snap \cap Withdraw : Ref[w] = e}
        first(e) == CHOOSE x \in early(e) : \A y \in early(e) : x = y \/ Newer(y, x)
    IN  IF first(a) = first(b) THEN b \in Withdraw /\ Ref[b] = a
        ELSE Newer(first(b), first(a))

\* The due head of every topic whose captured events are all in the interval.
Heads == {h \in Held : /\ Topic(h) \subseteq snap
                       /\ work[h].retryAt <= now
                       /\ \A g \in Topic(h) \ {h} : Precedes(h, g)}

\* The keys a head is chosen by: its retry time, its age, its topic's news.
Sooner(h, g) ==
    IF work[h].retryAt # work[g].retryAt THEN work[h].retryAt < work[g].retryAt
    ELSE Newer(g, h)

Since(h) == IF work[h].attempts > 0 THEN work[h].retryAt ELSE At[h]
Older(h, g) == IF Since(h) # Since(g) THEN Since(h) < Since(g) ELSE Newer(g, h)

Outdates(h, g) == \E a \in Topic(h) : \A b \in Topic(g) : At[a] > At[b]
Fresher(h, g) == Outdates(h, g) \/ (~ Outdates(g, h) /\ h > g)

\* Untried texts first, then texts, untried reactions and the rest.
Rank(h) == (IF Lane(h) = "text" THEN 0 ELSE 2) + (IF work[h].attempts = 0 THEN 1 ELSE 2)

Preferred(h, g) ==
    IF Rank(h) # Rank(g) THEN Rank(h) < Rank(g)
    ELSE IF work[h].attempts = 0 THEN Fresher(h, g) ELSE Sooner(h, g)

Aging == turns >= AgingTurns

\* The head the slice attempts: after AgingTurns preferred ones, the oldest.
Chosen(h) ==
    /\ h \in Heads
    /\ \A g \in Heads \ {h} : IF Aging THEN Older(h, g) ELSE Preferred(h, g)

\* Mutant of TurnAfter: only the choice of an untried event is counted.
TurnAfterUntried(h) == IF Aging \/ work[h].attempts > 0 THEN 0 ELSE turns + 1

\* A choice by age starts the count again; a retry by preference is counted.
TurnAfter(h) == IF Aging \/ Rank(h) = 4 THEN 0 ELSE turns + 1

Lease(attempts) ==
    LET doubled == <<1, 2, 4, 8, 16>>
        k       == IF attempts < 4 THEN attempts ELSE 4
        delay   == LeaseUnit * doubled[k + 1]
    IN  IF delay < LeaseCap THEN delay ELSE LeaseCap

-----------------------------------------------------------------------------
(* The environment. *)

Publish(e) ==
    /\ e \notin relay
    /\ At[e] <= now
    /\ now <= At[e] + Lateness
    /\ relay' = relay \cup {e}
    /\ UNCHANGED <<ledgerVars, queueVars, controlVars, feishuVars, now, wire, faults>>

\* Time passes, but no attempt outlives Margin; late requests expire with it.
Tick ==
    /\ now < MaxTime
    /\ \A i \in 1 .. Len(stack) : now < stack[i].t0 + Margin
    /\ now' = now + 1
    /\ wire' = {q \in wire : q.by > now}
    /\ UNCHANGED <<ledgerVars, queueVars, controlVars, feishuVars, relay, faults>>

\* A request takes effect. Feishu deduplicates texts by their key.
Land(q) ==
    /\ wire' = wire \ {q}
    /\ LET e == q.src
           fresh == IF e \in Text
                    THEN copies[e] = 0 \/ now - firstAt[e] > DedupWindow
                    ELSE e \in React \/ copies[e] = 0
       IN  /\ copies' = [copies EXCEPT ![e] = IF fresh /\ @ < MaxCopies THEN @ + 1 ELSE @]
           /\ firstAt' = [firstAt EXCEPT ![e] = IF e \in Text /\ copies[e] = 0 THEN now ELSE @]
           /\ card' = IF e \in Edit THEN [card EXCEPT ![Ref[e]] = e] ELSE card
    /\ UNCHANGED <<ledgerVars, queueVars, controlVars, now, relay, faults>>

Fault == now <= FaultsUntil /\ faults < MaxFaults /\ faults' = faults + 1

\* What the wire keeps of a call the process no longer waits for.
Abandoned == IF LateLanding THEN {[q EXCEPT !.current = FALSE] : q \in wire}
             ELSE {q \in wire : ~ q.current}

Posted == {e \in Text : copies[e] > 0}

-----------------------------------------------------------------------------
(* The slice: AgentOutlet.catch_up(max_events=1). *)

\* signed_history: every event of the interval, or no slice at all. The round
\* that owns the slice starts with an empty Feishu history cache.
ReadHistory ==
    /\ pc = "idle"
    /\ snap' = {e \in relay : At[e] <= now /\ SinceCovers(At[e])}
    /\ pc' = "capture"
    /\ sighted' = Posted
    /\ UNCHANGED <<ledgerVars, queueVars, feishuVars, stack, now, relay, wire, faults>>

\* An event the capture loop passes over: below the baseline and unknown, or
\* a withdrawal of something that is not a reaction of this agent.
Ignored(e) ==
    /\ ~ work[e].held
    /\ \/ At[e] < InitialSince /\ row[e].status = "absent"
       \/ e \in Withdraw /\ row[Ref[e]].status = "absent" /\ Ref[e] \notin snap

\* Finished events leave the queue; every other candidate enters it, in one
\* transaction, before any acknowledgement can move the cursor.
Capture ==
    /\ pc = "capture"
    /\ work' = [e \in Sources |->
                  IF e \in snap /\ Finished(e) THEN NotHeld
                  ELSE IF e \in snap /\ ~ Ignored(e) /\ ~ work[e].held
                       THEN [held |-> TRUE, attempts |-> 0, retryAt |-> 0]
                       ELSE work[e]]
    /\ pc' = "choose"
    /\ UNCHANGED <<ledgerVars, turns, feishuVars, snap, stack, sighted, now, relay, wire, faults>>

\* Mutant of Untried: a pair is settled although one of it was attempted.
MaybeTried(e) == TRUE

Untried(e) == row[e].status = "absent" /\ work[e].attempts = 0

\* reaction_supersession.eligible, for the first withdrawal of the interval.
Pair(h, w) ==
    /\ h \in Transient
    /\ w \in Withdraw \cap snap \cap Held
    /\ Ref[w] = h
    /\ Untried(h) /\ Untried(w)
    /\ Ref[h] \in relay

PairRow(r, e) == SettledRow(ReservedRow(r, e, Paired, At[e], now), e, "skipped")

\* The pair is settled without an effect; the unit still advances the aging.
SettlePair ==
    /\ pc = "choose"
    /\ \E h \in Held, w \in Withdraw :
          /\ Chosen(h) /\ Pair(h, w)
          /\ \A v \in Withdraw : Pair(h, v) => v = w \/ Precedes(w, v)
          /\ row' = PairRow(PairRow(row, h), w)
          /\ work' = [work EXCEPT ![h] = NotHeld, ![w] = NotHeld]
          /\ turns' = TurnAfter(h)
    /\ pc' = "idle"
    /\ snap' = {}
    /\ UNCHANGED <<receipt, cursor, feishuVars, stack, sighted, now, relay, wire, faults>>

\* outlet_work.start: the retry lease is durable before any read or effect.
Start ==
    /\ pc = "choose"
    /\ \E h \in Held :
          /\ Chosen(h)
          /\ ~ \E w \in Withdraw : Pair(h, w)
          /\ work' = [work EXCEPT
                ![h].attempts = IF @ < AttemptCap THEN @ + 1 ELSE @,
                ![h].retryAt  = now + Lease(work[h].attempts)]
          /\ stack' = <<[src |-> h, t0 |-> now, seen |-> FALSE]>>
          /\ turns' = TurnAfter(h)
    /\ pc' = "enter"
    /\ UNCHANGED <<ledgerVars, feishuVars, snap, sighted, now, relay, wire, faults>>

NothingDue ==
    /\ pc = "choose"
    /\ Heads = {}
    /\ pc' = "idle"
    /\ snap' = {}
    /\ UNCHANGED <<ledgerVars, queueVars, feishuVars, stack, sighted, now, relay, wire, faults>>

EndSlice == pc' = "idle" /\ stack' = <<>> /\ snap' = {}

-----------------------------------------------------------------------------
(* One attempt: AgentOutlet._deliver and _reaction for the innermost call. *)

\* verify() and the reads that locate the event's scope.
Enter ==
    /\ pc = "enter"
    /\ LET e == Top.src
       IN  /\ e \in Edit \cup React => Ref[e] \in relay
           /\ e \in Withdraw => receipt[Ref[e]] # NoTarget
    /\ stack' = [stack EXCEPT ![Len(stack)].t0 = now]
    /\ pc' = "resolve"
    /\ UNCHANGED <<ledgerVars, queueVars, feishuVars, snap, sighted, now, relay, wire, faults>>

\* The scope of the event cannot be located yet: no effect, try again later.
OutOfScope ==
    /\ pc = "enter"
    /\ LET e == Top.src
       IN  \/ e \in Edit \cup React /\ Ref[e] \notin relay
           \/ e \in Withdraw /\ receipt[Ref[e]] = NoTarget
    /\ EndSlice
    /\ UNCHANGED <<ledgerVars, queueVars, feishuVars, sighted, now, relay, wire, faults>>

\* Any failed read: authority, membership, history, readback.
ReadFails ==
    /\ pc \in {"enter", "resolve", "readback"}
    /\ Fault
    /\ EndSlice
    /\ UNCHANGED <<ledgerVars, queueVars, feishuVars, sighted, now, relay, wire>>

\* _target: a known mapping or a complete history read. The history may be a
\* snapshot cached before a late request landed; a duplicate is an error.
Sees(e, seen) ==
    /\ seen => copies[e] = 1
    /\ (row[e].status = "acked" \/ e \in sighted) => seen

\* Mutants of Depend: the dependency is not required; it is never delivered
\* on the way.
DependIgnored(e, frame) ==
    /\ pc' = "reserve"
    /\ stack' = [stack EXCEPT ![Len(stack)] = frame]

DependWaits(e, frame) ==
    /\ Sees(Ref[e], TRUE)
    /\ pc' = "reserve"
    /\ stack' = [stack EXCEPT ![Len(stack)] = frame]

\* The message the event depends on is found, or is delivered first.
Depend(e, frame) ==
    \/ /\ Sees(Ref[e], TRUE)
       /\ pc' = "reserve"
       /\ stack' = [stack EXCEPT ![Len(stack)] = frame]
    \/ /\ Sees(Ref[e], FALSE)
       /\ Ref[e] \in relay
       /\ Len(stack) < MaxDepth
       /\ pc' = "enter"
       /\ stack' = Append([stack EXCEPT ![Len(stack)] = frame],
                          [src |-> Ref[e], t0 |-> now, seen |-> FALSE])

Resolve ==
    /\ pc = "resolve"
    /\ LET e == Top.src
       IN  \/ \E seen \in BOOLEAN :
                /\ e \in Text
                /\ Sees(e, seen)
                /\ IF Ref[e] = None
                   THEN pc' = "reserve" /\ stack' = [stack EXCEPT ![Len(stack)].seen = seen]
                   ELSE Depend(e, [Top EXCEPT !.seen = seen])
           \/ /\ e \in Edit
              /\ LatestEdit(e) \/ Sees(Ref[e], TRUE)
              /\ Depend(e, Top)
           \/ /\ e \in Edit                \* superseded before its root exists
              /\ ~ LatestEdit(e) /\ Sees(Ref[e], FALSE)
              /\ pc' = "return" /\ UNCHANGED stack
           \/ /\ e \in React
              /\ Depend(e, Top)
           \/ /\ e \in Withdraw
              /\ pc' = "reserve" /\ UNCHANGED stack
    /\ UNCHANGED <<ledgerVars, queueVars, feishuVars, snap, sighted, now, relay, wire, faults>>

\* A reply whose parent, or an event whose target, cannot be found yet.
Unresolved ==
    /\ pc = "resolve"
    /\ LET e == Top.src
       IN  \/ e \in Text /\ copies[e] > 1
           \/ Ref[e] # None /\ e \notin Withdraw
              /\ (copies[Ref[e]] > 1 \/ (Ref[e] \notin relay /\ Sees(Ref[e], FALSE)))
    /\ EndSlice
    /\ UNCHANGED <<ledgerVars, queueVars, feishuVars, sighted, now, relay, wire, faults>>

\* The reserved row of the innermost event.
Mine == ReservedRow(row, Top.src, Own, At[Top.src], Top.t0)

\* Mutant of Expired: the retry window is not checked.
NeverExpired(e) == FALSE

\* Past the window Feishu may have forgotten the key: never send again.
Expired(e) == Top.t0 - Mine[e].created > RetryWindow

ReserveMessage ==
    /\ pc = "reserve"
    /\ Top.src \in Text \cup Edit
    /\ CanReserve(row, Top.src, Own)
    /\ LET e        == Top.src
           status   == Mine[e].status
           stale    == e \in Edit /\ ~ LatestEdit(e)
           adopted  == e \in Text /\ Top.seen
           sendable == ~ stale /\ status \in {"pending", "failed"} /\ (adopted \/ ~ Expired(e))
       IN  \/ /\ status = "acked" \/ (e \in Edit /\ status = "skipped")
              /\ row' = Mine /\ pc' = "return" /\ UNCHANGED <<stack, snap>>
           \/ /\ stale /\ status \notin {"acked", "skipped"}
              /\ row' = SettledRow(Mine, e, "skipped")
              /\ pc' = "return" /\ UNCHANGED <<stack, snap>>
           \/ /\ sendable
              /\ row' = RetriedRow(Mine, e)
              /\ pc' = IF adopted THEN "ack" ELSE "call"
              /\ UNCHANGED <<stack, snap>>
           \/ /\ status # "acked" /\ ~ stale /\ ~ sendable
              /\ ~ (e \in Edit /\ status = "skipped")
              /\ row' = Mine /\ EndSlice
    /\ UNCHANGED <<receipt, cursor, queueVars, feishuVars, sighted, now, relay, wire, faults>>

\* A reservation found open may have been sent before a crash: it becomes
\* unknown, and only a readback of the actual reactions can settle it.
ReserveReaction ==
    /\ pc = "reserve"
    /\ Top.src \in React \cup Withdraw
    /\ CanReserve(row, Top.src, Own)
    /\ LET e      == Top.src
           before == row[e].status
       IN  \/ /\ before = "acked"
              /\ row' = Mine /\ pc' = "return" /\ UNCHANGED <<stack, snap>>
           \/ /\ before \in {"pending", "unknown"}
              /\ row' = FailedRow(Mine, e, TRUE)
              /\ pc' = "readback" /\ UNCHANGED <<stack, snap>>
           \/ /\ before \in {"absent", "failed"}
              /\ row' = RetriedRow(Mine, e)
              /\ pc' = "mark" /\ UNCHANGED <<stack, snap>>
           \/ /\ before \in {"skipped", "removed", "abandoned"}
              /\ row' = Mine /\ EndSlice
    /\ UNCHANGED <<receipt, cursor, queueVars, feishuVars, sighted, now, relay, wire, faults>>

\* The outcome is recorded as unknown before the write is sent.
MarkUnknown ==
    /\ pc = "mark"
    /\ row' = FailedRow(row, Top.src, TRUE)
    /\ pc' = IF Top.src \in Withdraw /\ row[Ref[Top.src]].status = "removed"
             THEN "ack" ELSE "call"
    /\ UNCHANGED <<receipt, cursor, queueVars, feishuVars, snap, stack, sighted, now, relay, wire, faults>>

\* Mutant of OwnRecords: every reaction of the agent to the message.
AllRecords(r) == {q \in React : Ref[q] = Ref[r] /\ Visible(q)}

\* own_reactions: the agent's reactions to one message with one emoji.
OwnRecords(r) == {q \in React : Ref[q] = Ref[r] /\ Emoji[q] = Emoji[r] /\ Visible(q)}

\* Complete own_reactions of the target: one record settles a reaction, none
\* settles a withdrawal, anything else leaves the outcome unknown.
Readback ==
    /\ pc = "readback"
    /\ LET e     == Top.src
           known == IF e \in React THEN \E q \in React : OwnRecords(e) = {q} /\ copies[q] = 1
                    ELSE OwnRecords(Ref[e]) = {}
       IN  IF known THEN pc' = "ack" /\ UNCHANGED <<stack, snap>> ELSE EndSlice
    /\ UNCHANGED <<ledgerVars, queueVars, feishuVars, sighted, now, relay, wire, faults>>

Call ==
    /\ pc = "call"
    /\ wire' = wire \cup {[src |-> Top.src, by |-> Top.t0 + Margin, current |-> TRUE]}
    /\ pc' = "wait"
    /\ UNCHANGED <<ledgerVars, queueVars, feishuVars, snap, stack, sighted, now, relay, faults>>

\* Every end of a call drops the cached history.
Reply ==
    /\ pc = "wait"
    /\ ~ \E q \in wire : q.current
    /\ pc' = "ack"
    /\ sighted' = Posted
    /\ UNCHANGED <<ledgerVars, queueVars, feishuVars, snap, stack, now, relay, wire, faults>>

\* A definite refusal: the request had no effect and may be retried.
Refuse ==
    /\ pc = "wait"
    /\ \E q \in wire : q.current
    /\ Fault
    /\ wire' = {q \in wire : ~ q.current}
    /\ row' = FailedRow(row, Top.src, FALSE)
    /\ EndSlice
    /\ sighted' = Posted
    /\ UNCHANGED <<receipt, cursor, queueVars, feishuVars, now, relay>>

\* No answer: the ledger keeps what it said before the call.
LoseAnswer ==
    /\ pc = "wait"
    /\ Fault
    /\ wire' = Abandoned
    /\ EndSlice
    /\ sighted' = Posted
    /\ UNCHANGED <<ledgerVars, queueVars, feishuVars, now, relay>>

\* The receipt, the row and the cursor change in one transaction; a
\* dependency leaves the cursor alone, a withdrawal also closes its reaction.
Acknowledge ==
    /\ pc = "ack"
    /\ LET e == Top.src
           g == IF e \in Text \cup React THEN copies[e] ELSE 1
       IN  IF e \in Withdraw
           THEN /\ CanAck(row, e, g)
                /\ receipt[e] \in {NoTarget, g}
                /\ receipt' = [receipt EXCEPT ![e] = g]
                /\ AdvanceOnAck(AckedRow(row, e, g))
                /\ row' = SettledRow(AckedRow(row, e, g), Ref[e], "removed")
           ELSE AckOutlet(e, g, Len(stack) = 1)
    /\ pc' = "return"
    /\ UNCHANGED <<queueVars, feishuVars, snap, stack, sighted, now, relay, wire, faults>>

\* A dependency returns to its caller; the attempted event leaves the queue.
Return ==
    /\ pc = "return"
    /\ IF Len(stack) > 1
       THEN /\ stack' = SubSeq(stack, 1, Len(stack) - 1)
            /\ pc' = "reserve"
            /\ UNCHANGED <<snap, work>>
       ELSE /\ EndSlice
            /\ work' = [work EXCEPT ![Top.src] = NotHeld]
    /\ UNCHANGED <<ledgerVars, turns, feishuVars, sighted, now, relay, wire, faults>>

Crash ==
    /\ pc # "idle"
    /\ Fault
    /\ EndSlice
    /\ wire' = Abandoned
    /\ UNCHANGED <<ledgerVars, queueVars, feishuVars, sighted, now, relay>>

-----------------------------------------------------------------------------
Init ==
    /\ LedgerInit
    /\ now = 0
    /\ relay = {}
    /\ work = [e \in Sources |-> NotHeld]
    /\ turns = 0
    /\ pc = "idle"
    /\ snap = {}
    /\ stack = <<>>
    /\ sighted = {}
    /\ wire = {}
    /\ copies = [e \in Sources |-> 0]
    /\ firstAt = [e \in Sources |-> 0]
    /\ card = [e \in Text |-> None]
    /\ faults = 0

Attempt ==
    \/ Enter \/ OutOfScope \/ Resolve \/ Unresolved
    \/ ReserveMessage \/ ReserveReaction \/ MarkUnknown \/ Readback
    \/ Call \/ Reply \/ Acknowledge \/ Return

Slice == ReadHistory \/ Capture \/ SettlePair \/ Start \/ NothingDue \/ Attempt

Failure == ReadFails \/ Refuse \/ LoseAnswer \/ Crash

Next ==
    \/ \E e \in Sources : Publish(e)
    \/ Tick
    \/ \E q \in wire : Land(q)
    \/ Slice
    \/ Failure

Spec == Init /\ [][Next]_vars

\* The worker keeps starting slices, time passes, and a call that is waited
\* for is eventually answered; faults are bounded by MaxFaults.
LandCurrent == \E q \in wire : q.current /\ Land(q)
FairSpec == Spec /\ WF_vars(Slice) /\ WF_vars(Tick) /\ WF_vars(LandCurrent)

-----------------------------------------------------------------------------
(* Properties. *)

TypeOK ==
    /\ LedgerTypeOK
    /\ now \in Times
    /\ relay \subseteq Sources
    /\ work \in [Sources -> [held : BOOLEAN, attempts : 0 .. AttemptCap, retryAt : Nat]]
    /\ turns \in 0 .. AgingTurns
    /\ pc \in Busy \cup {"idle", "capture", "choose"}
    /\ snap \subseteq relay
    /\ stack \in Seq([src : Sources, t0 : Times, seen : BOOLEAN])
    /\ (pc \in Busy) <=> (stack # <<>>)
    /\ sighted \subseteq Text
    /\ wire \subseteq [src : Sources, by : Nat, current : BOOLEAN]
    /\ copies \in [Sources -> 0 .. MaxCopies]
    /\ firstAt \in [Sources -> Times]
    /\ card \in [Text -> Edit \cup {None}]
    /\ faults \in 0 .. MaxFaults

\* No event is ever performed twice in the group, whatever is lost, repeated
\* or late and wherever the process crashes: one message per text event within
\* the retry window, and never a second write of an unknown reaction
\* (outlet.py:357-363, 450-477).
AtMostOnce == \A e \in Text \cup React : copies[e] <= 1

\* With every variable in its range, once is once (outlet.py).
OutletSafe == TypeOK /\ AtMostOnce

\* The ledger never says delivered of something the group does not show, and
\* never says removed of a reaction that is still there: an acknowledgement is
\* never fabricated (outlet.py:388, 457-494).
AckedIsReal ==
    \A e \in Sources :
        /\ row[e].status = "acked" => copies[e] > 0 \/ (e \in Withdraw /\ ~ Visible(Ref[e]))
        /\ e \in React /\ row[e].status = "removed" => ~ Visible(e)

\* A withdrawal whose reaction the outlet never performs, or an edit that a
\* newer edit replaced, asks for nothing.
Moot(e) ==
    \/ e \in Edit /\ ~ LatestEdit(e)
    \/ e \in Withdraw /\ (Ref[e] \notin relay \/ At[Ref[e]] < InitialSince)

\* Every eligible event the relay shows is either finished or covered by the
\* next history read, although the newest topics are delivered first and the
\* cursor follows the newest acknowledgement: no event is lost between the
\* queue, the cursor and a crash (outlet.py:619-622, 704-710).
NothingLost ==
    \A e \in relay : At[e] >= InitialSince /\ ~ Finished(e) /\ ~ Moot(e) => SinceCovers(At[e])

\* A reply is never posted before the message it replies to
\* (outlet.py:277-283, 319-328).
ReplyAfterParent ==
    \A e \in Text : copies[e] > 0 /\ Ref[e] # None => copies[Ref[e]] > 0

\* A message never goes back to an older edit (outlet.py:350-356).
NoEditRegression ==
    [][\A m \in Text : card[m] # None /\ card'[m] # card[m] => Newer(card'[m], card[m])]_vars

\* The relay shows e and everything it refers to.
Grounded(e) == \E S \in SUBSET relay : e \in S /\ \A x \in S : Ref[x] \in S \cup {None}

\* Every eligible text event that the relay shows with its parents is
\* eventually delivered, although a refusal costs it a lease, fresher topics are
\* attempted before it and it delivers its parents first
\* (outlet.py:624-686, outlet_work.py:79-137).
EventuallyDelivered ==
    \A e \in Text : At[e] >= InitialSince => (Grounded(e) ~> row[e].status = "acked")

\* Every message the relay shows eventually shows its newest edit, however the
\* edits were ordered, retried or overtaken (outlet.py:350-388).
EventuallyLatestEdit ==
    \A e \in Edit : [](Grounded(e) => <>(card[Ref[e]] = e \/ ~ LatestEdit(e)))

\* The outlet keeps the promise of SourceDelivery for messages and reactions.
Fate(e) ==
    IF row[e].status \in {"acked", "removed"} THEN "confirmed"
    ELSE IF row[e].status = "skipped" THEN "dropped"
    ELSE IF copies[e] > 0 THEN "sent" ELSE "open"

SD == INSTANCE SourceDelivery WITH
        Items <- Text \cup React, fate <- [e \in Text \cup React |-> Fate(e)]

PromiseKept == SD!Promise
=============================================================================
