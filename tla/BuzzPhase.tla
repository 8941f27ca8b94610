------------------------------ MODULE BuzzPhase ------------------------------
(***************************************************************************)
(* The buzz phase of a binding's round: people's messages are read from    *)
(* the relay and posted to Feishu (buzz_to_feishu in                       *)
(* buzz_feishu_group_sync.py with the overrides of                         *)
(* hostd/delivery_mapping.py), by a worker that saves its state at every   *)
(* step but commits the read cursor only after the whole phase             *)
(* (hostd/binding_worker.py, hostd/state_store.py, store._advance_cursor). *)
(*                                                                         *)
(* A round works on a copy of the state (memo) of what is saved (disk).    *)
(* Feishu drops a message whose key it has seen within KeyWindow; its      *)
(* history lists top-level messages, never a reply in a thread.  The relay *)
(* accepts an event whose created_at is within Overlap of its clock.       *)
(***************************************************************************)
EXTENDS Integers, FiniteSets, FiniteSetsExt

CONSTANTS
    Notes,          \* buzz events
    NoteAt,         \* created_at of each; the order within a second is left open
    RootOf,         \* root of a reply; a note that is no reply is its own root
    OfFeishu,       \* replies to messages that came from Feishu, roots of their own here
    Overlap,        \* BUZZ_OVERLAP_SECONDS
    RetryWindow,    \* FEISHU_RETRY_WINDOW_SECONDS
    KeyWindow,      \* how long Feishu remembers an idempotency key
    MaxDelay,       \* how late a post without an answer may reach Feishu
    MaxRound,       \* how long a round lasts
    Discovery,      \* THREAD_DISCOVERY_SECONDS
    MaxTries,       \* MAX_SEND_ATTEMPTS
    Floor,          \* state.floor
    MaxClock,       \* bound: the clock
    MaxFaults,      \* bound: refused, lost or late posts and failed reads
    MaxCrashes      \* bound: crashes of hostd

Nobody == "nobody"

ASSUME BuzzAssumption ==
    /\ IsFiniteSet(Notes)
    /\ {Overlap, RetryWindow, KeyWindow, MaxDelay, MaxRound, Discovery, MaxTries, Floor, MaxClock, MaxFaults, MaxCrashes} \subseteq Nat
    /\ NoteAt \in [Notes -> Nat] /\ RootOf \in [Notes -> Notes]
    /\ OfFeishu \subseteq {e \in Notes : RootOf[e] = e}
    /\ RetryWindow + MaxRound + MaxDelay <= KeyWindow
    /\ MaxTries >= 1 /\ Floor <= MaxClock
    /\ Nobody \notin Notes

Clock == 0 .. MaxClock
Kinds == {"none", "pending", "retry", "sent", "unknown", "failed"}
RowStates == {"absent", "pending", "failed", "unknown", "acked", "abandoned"}

VARIABLES
    disk,      \* what is saved: marks, f2b, unresolved, attempts, buzz_since, ledger rows
    memo,      \* the round's copy of it
    stage,     \* where the round is: idle, read, loop, post, answered, broken
    now,       \* run.now_ts: the clock when the round began
    clock,
    todo,      \* events read and not yet handled
    item,      \* the event being sent
    reply,     \* Feishu's answer to its post
    listed,    \* the round's reading of Feishu history around each event
    skipped,   \* replies of the round whose parent could not be read
    passed,    \* those of them, of any round, that the cursor left behind
    arrived,   \* events the relay holds
    copies,    \* messages in Feishu: of which event, under which key, since when
    inAir,     \* posts that may still reach Feishu
    saved,     \* the ledger has accepted every save
    faults, crashes

roundVars == <<memo, stage, now, todo, item, reply, listed, skipped>>
feishuVars == <<copies, inAir>>
buzzVars == <<disk, roundVars, clock, arrived, feishuVars, saved, passed, faults, crashes>>

NoMark == [kind |-> "none", first |-> 0]
Empty == [mark |-> [e \in Notes |-> NoMark], f2b |-> {}, unresolved |-> {}, tries |-> [e \in Notes |-> 0],
          since |-> Floor, row |-> [e \in Notes |-> "absent"]]

BuzzInit ==
    /\ disk = Empty /\ memo = Empty
    /\ stage = "idle" /\ now = Floor /\ clock = Floor
    /\ todo = {} /\ item = Nobody /\ reply = "none"
    /\ listed = [e \in Notes |-> "unread"]
    /\ arrived = {} /\ copies = {} /\ inAir = {}
    /\ skipped = {} /\ passed = {}
    /\ saved = TRUE /\ faults = 0 /\ crashes = 0

-----------------------------------------------------------------------------
(* Saving: StateAdapter._save. *)

\* _deliveries: the ledger row that the mark of an event leaves.
RowFor(kind, r) ==
    CASE kind = "none" -> r
      [] kind = "pending" -> "pending"
      [] kind = "sent" -> "acked"
      [] kind = "retry" -> IF r = "acked" THEN r ELSE "failed"
      [] kind = "unknown" -> IF r = "acked" THEN r ELSE "unknown"
      [] kind = "failed" -> "abandoned"

\* A pending mark on a row whose outcome is known, or is not to be known, is an
\* error, and so is a given-up mark on a delivered row.
Refused(m, r) ==
    \E e \in Notes : \/ m.mark[e].kind = "pending" /\ r[e] \in {"acked", "unknown"}
                     \/ m.mark[e].kind = "failed" /\ r[e] = "acked"

\* The open rows hold the cursor.
Blocking(r) == {e \in Notes : r[e] \in {"pending", "failed", "unknown"}}

\* _advance_cursor: up to the candidate or to just before the oldest open row,
\* and never back.
Advanced(old, candidate, r) ==
    LET held == {candidate} \cup {Max({0, NoteAt[e] - 1}) : e \in Blocking(r)}
    IN  Max({old, Min(held)})

\* persist inside a phase: the cursor saved is the checkpoint's.
Saved(m, candidate) ==
    LET r == [e \in Notes |-> RowFor(m.mark[e].kind, disk.row[e])]
    IN  [m EXCEPT !.row = r, !.since = Advanced(disk.since, candidate, r)]

Persist(m, candidate) ==
    IF Refused(m, disk.row)
    THEN saved' = FALSE /\ UNCHANGED disk
    ELSE saved' = saved /\ disk' = Saved(m, candidate)

-----------------------------------------------------------------------------
(* The round. *)

\* Mutant of Closed: the event leaves the retries with its mark as it was.
ClosedOpen(mark) == mark

\* _close
Closed(mark) == [mark EXCEPT !.kind = IF @ = "pending" THEN "unknown" ELSE "failed"]

\* _give_up_stale, as hostd overrides it: a reply that was never sent stays.
GivenUp(m) ==
    LET stale == {e \in m.unresolved : m.mark[e].kind # "none" /\ clock - NoteAt[e] > Discovery}
    IN  [m EXCEPT !.mark = [e \in Notes |-> IF e \in stale THEN Closed(@[e]) ELSE @[e]],
                  !.unresolved = @ \ stale]

\* A round of the binding begins on what is saved.
StartRound ==
    /\ stage = "idle"
    /\ memo' = GivenUp(disk)
    /\ now' = clock /\ stage' = "read"
    /\ listed' = [e \in Notes |-> "unread"]
    /\ UNCHANGED <<disk, clock, todo, item, reply, skipped, arrived, feishuVars, saved, passed, faults, crashes>>

\* Where the next read begins.
ReadSince(m) ==
    Max({Floor, 0, Min({m.since - Overlap} \cup {NoteAt[e] : e \in m.unresolved})})

ReadRelay ==
    /\ stage = "read"
    /\ todo' = {e \in arrived : NoteAt[e] >= ReadSince(memo)}
    /\ stage' = "loop"
    /\ UNCHANGED <<disk, memo, now, clock, item, reply, listed, skipped, arrived, feishuVars, saved, passed, faults, crashes>>

\* A read of the relay or of Feishu's history fails: the phase ends there.  The
\* reads of a reply's parent are Visit's.
PhaseFails ==
    /\ stage \in {"read", "loop"} /\ faults < MaxFaults
    /\ faults' = faults + 1
    /\ stage' = "broken" /\ todo' = {}
    /\ UNCHANGED <<disk, memo, now, clock, item, reply, listed, skipped, arrived, feishuVars, saved, passed, crashes>>

\* A reply is posted into a thread, and the history lists no thread's messages.
InFeishu(e) == \E c \in copies : c.of = e
InThread(e) == RootOf[e] # e \/ e \in OfFeishu

\* resolve_buzz: the history around an event is listed once in a round.
Listing(e) ==
    IF listed[e] # "unread" THEN listed[e]
    ELSE IF InFeishu(e) /\ ~ InThread(e) THEN "found" ELSE "absent"

\* The event is delivered: b2f names its copy.
Sent(m, e) ==
    [m EXCEPT !.mark[e] = [kind |-> "sent", first |-> 0], !.unresolved = @ \ {e}]

\* _adopt: a copy found in the history settles the event, and f2b names it too.
Adopted(m, e) == [Sent(m, e) EXCEPT !.f2b = @ \cup {e}]

Terminal(mark) == mark.kind \in {"sent", "failed", "unknown"}
OpenAttempt(mark) == mark.kind \in {"pending", "retry"}

Oldest(e) == e \in todo /\ \A f \in todo : NoteAt[e] <= NoteAt[f]

\* The event needs nothing, is closed, waits or is skipped: the round goes on.
Handled(e, m) ==
    /\ memo' = m /\ todo' = todo \ {e}
    /\ UNCHANGED <<stage, item, reply>>

\* The first attempt of an event marks the time; a retry keeps it.
PendingMark(mark) ==
    [kind |-> "pending", first |-> IF OpenAttempt(mark) THEN mark.first ELSE now]

\* The parent of a reply is its root's copy: known, or found in the history.
FindsRoot(m, e) ==
    LET root == RootOf[e]
    IN  /\ root # e /\ m.mark[e].kind = "none"
        /\ m.mark[root].kind # "sent" /\ Listing(root) = "found"
RootReady(m, e) ==
    \/ RootOf[e] = e \/ OpenAttempt(m.mark[e])
    \/ m.mark[RootOf[e]].kind = "sent" \/ FindsRoot(m, e)
WithRoot(m, e) == IF FindsRoot(m, e) THEN Adopted(m, RootOf[e]) ELSE m

\* _reply_parent: before the first attempt a parent that f2b names is read.
ReadsParent(m, e) ==
    /\ m.mark[e].kind = "none"
    /\ e \in OfFeishu \/ (RootOf[e] # e /\ RootOf[e] \in m.f2b)

\* _thread_root_parent: the reply waits, and stays in the next reads.
Waiting(m, e) == [m EXCEPT !.unresolved = @ \cup {e}]

\* One event of the queue, up to the save before its post.  When the parent
\* cannot be read, or is gone, the event is only counted as an error.
Visit(e) ==
    /\ stage = "loop" /\ Oldest(e)
    /\ LET found == memo.mark[e].kind # "sent" /\ Listing(e) = "found"
           m == IF found THEN Adopted(memo, e) ELSE memo
           mark == m.mark[e]
           root == RootOf[e]
           ready == WithRoot(m, e)
           sending == [ready EXCEPT !.mark[e] = PendingMark(mark), !.unresolved = @ \cup {e}]
       IN
       /\ listed' = [f \in Notes |->
             IF f = e /\ memo.mark[e].kind # "sent" THEN Listing(e)
             ELSE IF /\ f = root /\ root # e /\ mark.kind = "none"
                     /\ m.mark[root].kind # "sent"
                  THEN Listing(root)
             ELSE listed[f]]
       /\ \/ /\ Terminal(mark)
             /\ IF found THEN Persist(m, memo.since) ELSE UNCHANGED <<disk, saved>>
             /\ Handled(e, [m EXCEPT !.unresolved = @ \ {e}])
             /\ UNCHANGED <<skipped, passed, faults>>
          \/ /\ ~ Terminal(mark) /\ OpenAttempt(mark) /\ now - mark.first > RetryWindow
             /\ Handled(e, [m EXCEPT !.mark[e] = Closed(@), !.unresolved = @ \ {e}])
             /\ UNCHANGED <<disk, saved, skipped, passed, faults>>
          \/ /\ ~ Terminal(mark) /\ ~ RootReady(m, e)
             /\ Persist(Waiting(m, e), memo.since)
             /\ Handled(e, Waiting(m, e))
             /\ passed' = passed \ {e} /\ UNCHANGED <<skipped, faults>>
          \/ /\ ReadsParent(ready, e) /\ faults < MaxFaults
             /\ faults' = faults + 1
             /\ IF FindsRoot(m, e) THEN Persist(ready, memo.since) ELSE UNCHANGED <<disk, saved>>
             /\ Handled(e, ready)
             /\ skipped' = skipped \cup {e} /\ UNCHANGED passed
          \/ /\ ~ Terminal(mark) /\ (OpenAttempt(mark) => now - mark.first <= RetryWindow)
             /\ RootReady(m, e)
             /\ Persist(sending, memo.since)
             /\ memo' = sending /\ item' = e /\ todo' = todo \ {e}
             /\ stage' = IF saved' THEN "post" ELSE "broken"
             /\ passed' = passed \ {e} /\ UNCHANGED <<reply, skipped, faults>>
    /\ UNCHANGED <<now, clock, arrived, feishuVars, crashes>>

\* Mutant of Key: a key of its own for every round.
KeyOfRound(e) == now

\* The key of a post is made of the event alone.
Key(e) == 0

\* A post reaches Feishu, which drops a key it remembers.
Reaches(e, k) ==
    copies' = IF \E c \in copies : c.of = e /\ c.key = k /\ clock - c.at <= KeyWindow
              THEN copies ELSE copies \cup {[of |-> e, key |-> k, at |-> clock]}

\* _post: answered, refused for certain, or no answer.  A post without one has
\* reached Feishu or is in the air.
Post ==
    /\ stage = "post"
    /\ stage' = "answered"
    /\ \/ Reaches(item, Key(item)) /\ reply' = "ok" /\ UNCHANGED <<inAir, faults>>
       \/ /\ faults < MaxFaults /\ faults' = faults + 1
          /\ \/ reply' = "refused" /\ UNCHANGED feishuVars
             \/ Reaches(item, Key(item)) /\ reply' = "lost" /\ UNCHANGED inAir
             \/ /\ reply' = "lost" /\ UNCHANGED copies
                /\ inAir' = inAir \cup {[of |-> item, key |-> Key(item), at |-> clock]}
    /\ UNCHANGED <<disk, memo, now, clock, todo, item, listed, skipped, arrived, saved, passed, crashes>>

\* A post in the air reaches Feishu, though nobody waits for it any more.
Late(f) ==
    /\ f \in inAir /\ inAir' = inAir \ {f}
    /\ Reaches(f.of, f.key)
    /\ UNCHANGED <<disk, roundVars, clock, arrived, saved, passed, faults, crashes>>

\* _refused: the event is retried, MaxTries times in all. Nothing is saved here.
AfterRefusal(m, e) ==
    IF m.tries[e] + 1 >= MaxTries
    THEN [m EXCEPT !.tries[e] = @ + 1, !.mark[e].kind = "failed", !.unresolved = @ \ {e}]
    ELSE [m EXCEPT !.tries[e] = @ + 1, !.mark[e].kind = "retry"]

\* The answer. A delivery is saved at once (_delivery_settled).
PostAnswered ==
    /\ stage = "answered"
    /\ stage' = "loop" /\ item' = Nobody /\ reply' = "none"
    /\ \/ /\ reply = "ok"
          /\ LET m == [Sent(memo, item) EXCEPT !.tries[item] = 0]
             IN  memo' = m /\ Persist(m, memo.since)
       \/ reply = "refused" /\ memo' = AfterRefusal(memo, item) /\ UNCHANGED <<disk, saved>>
       \/ reply = "lost" /\ UNCHANGED <<memo, disk, saved>>
    /\ UNCHANGED <<now, clock, todo, listed, skipped, arrived, feishuVars, passed, faults, crashes>>

\* Mutant of EndCursor: a phase that failed or was held back commits too.
EndCursorAlways(partial) == now

\* The cursor after a phase: its checkpoint, or if complete the round's time.
EndCursor(partial) == IF partial THEN memo.since ELSE now

\* The round is over: nothing of it stays in memory.
Forgotten ==
    /\ memo' = Empty /\ stage' = "idle" /\ now' = Floor
    /\ todo' = {} /\ item' = Nobody /\ reply' = "none"
    /\ listed' = [e \in Notes |-> "unread"] /\ skipped' = {}

\* Skipped events that are older than the overlap when the phase commits.
LeftBehind(partial) ==
    {e \in skipped \ memo.unresolved : ~ partial /\ NoteAt[e] + Overlap < now}

\* The end of the phase. A failed or held back one restores its checkpoint;
\* marks and attempts are saved in any case.
EndPhase ==
    /\ stage = "broken" \/ (stage = "loop" /\ todo = {})
    /\ \E partial \in BOOLEAN :
          /\ stage = "broken" => partial
          /\ Persist(memo, EndCursor(partial))
          /\ passed' = passed \cup LeftBehind(partial)
    /\ Forgotten
    /\ UNCHANGED <<clock, arrived, feishuVars, faults, crashes>>

\* hostd is killed, and started again by its unit.
CrashRound ==
    /\ stage # "idle" /\ crashes < MaxCrashes
    /\ crashes' = crashes + 1
    /\ Forgotten
    /\ UNCHANGED <<disk, clock, arrived, feishuVars, saved, passed, faults>>

Arrive(e) ==
    /\ e \notin arrived /\ NoteAt[e] >= Floor
    /\ NoteAt[e] - Overlap <= clock /\ clock <= NoteAt[e] + Overlap
    /\ arrived' = arrived \cup {e}
    /\ UNCHANGED <<disk, roundVars, clock, feishuVars, saved, passed, faults, crashes>>

\* The retry window leaves the key a margin for a long round, no more; a post
\* that is longer than MaxDelay in the air is lost.
Tick ==
    /\ clock < MaxClock
    /\ stage # "idle" => clock - now < MaxRound
    /\ clock' = clock + 1
    /\ inAir' = {f \in inAir : clock < f.at + MaxDelay}
    /\ UNCHANGED <<disk, roundVars, arrived, copies, saved, passed, faults, crashes>>

RoundStep ==
    \/ StartRound \/ ReadRelay \/ PhaseFails \/ \E e \in Notes : Visit(e)
    \/ Post \/ PostAnswered \/ EndPhase

BuzzNext ==
    \/ RoundStep \/ CrashRound \/ Tick
    \/ \E e \in Notes : Arrive(e)
    \/ \E f \in inAir : Late(f)

BuzzSpec == BuzzInit /\ [][BuzzNext]_buzzVars /\ WF_buzzVars(RoundStep) /\ WF_buzzVars(Tick)

-----------------------------------------------------------------------------
StateOK(s) ==
    /\ s.mark \in [Notes -> [kind : Kinds, first : Clock]]
    /\ s.f2b \subseteq {e \in Notes : s.mark[e].kind = "sent"}
    /\ s.unresolved \subseteq {e \in Notes : ~ Terminal(s.mark[e])}
    /\ s.tries \in [Notes -> 0 .. MaxTries]
    /\ s.since \in Clock
    /\ s.row \in [Notes -> RowStates]

BuzzTypeOK ==
    /\ StateOK(disk) /\ StateOK(memo)
    /\ stage \in {"idle", "read", "loop", "post", "answered", "broken"}
    /\ item \in Notes \cup {Nobody} /\ (stage \in {"post", "answered"}) = (item # Nobody)
    /\ todo \subseteq arrived
    /\ skipped \subseteq arrived /\ passed \subseteq arrived

\* Nobody's message is in Feishu twice, over refusals, lost and late answers,
\* failed phases and crashes; a reply, which no listing shows, included.
OneCopy == \A e \in Notes : Cardinality({c \in copies : c.of = e}) <= 1

\* A reply is never in Feishu before the root of its thread.
RootBeforeReply == \A e \in Notes : InFeishu(e) => InFeishu(RootOf[e])

\* What is saved never loses an event: whatever the relay holds, or may still
\* accept, and is not settled on disk, is inside the next read, though the
\* phase failed half way, held replies back or crashed.  The one exception is a
\* reply that was skipped for its parent when older than the overlap.
NothingMissed ==
    \A e \in Notes \ passed :
        /\ NoteAt[e] >= Floor
        /\ e \in arrived \/ clock <= NoteAt[e] + Overlap
        /\ ~ Terminal(disk.mark[e])
        => NoteAt[e] >= ReadSince(disk)

\* A reply whose parent could not be read is resolved again next round
\* (buzz_feishu_group_sync.py:5384): when its round is over it is settled or
\* inside the next read.
SkippedIsReread ==
    [][stage' = "idle" =>
          \A e \in skipped : Terminal(disk'.mark[e]) \/ NoteAt[e] >= ReadSince(disk')]_buzzVars

\* The ledger never refuses a save (state_store.py, _deliveries), and says of
\* a message in Feishu at least that its outcome is open.
SaveAccepted ==
    /\ saved
    /\ \A e \in Notes : InFeishu(e) => disk.row[e] # "absent"
    /\ \A e \in Notes : disk.mark[e].kind = "sent" => InFeishu(e)

\* What Feishu holds and what is recorded of it agree, and each copy is one, in
\* its order (buzz_feishu_group_sync.py, delivery_mapping.py, state_store.py).
BuzzSafe == BuzzTypeOK /\ OneCopy /\ RootBeforeReply /\ SaveAccepted

\* Every message the relay took is settled: delivered, or closed as failed or
\* unknown; a reply also waits while its root was closed without a copy, and is
\* given up when the cursor left it behind over a parent that was not read.
MessageSettled ==
    \A e \in Notes : e \in arrived ~>
        \/ Terminal(disk.mark[e])
        \/ Terminal(disk.mark[RootOf[e]]) /\ disk.mark[RootOf[e]].kind # "sent"
        \/ RootOf[e] \notin arrived
        \/ e \in passed
=============================================================================
