----------------------------- MODULE FeishuIngest -----------------------------
(***************************************************************************)
(* How a binding reads its group's history (hostd/feishu_ingest.py) and    *)
(* mirrors what it read to Buzz (mirror in feishu_to_buzz,                 *)
(* buzz_feishu_group_sync.py, with hostd/delivery_mapping.py).             *)
(*                                                                         *)
(* A scan is a frozen interval of the history, read one page in a round;   *)
(* the ids of a page and the continuation are kept together.  Kept ids     *)
(* are then taken in order, a few in a round, each under a lease.          *)
(*                                                                         *)
(* Messages are numbered in the order of the history; a message shows up   *)
(* in it within its Lag.  A continuation is the number of the last message *)
(* read.  A retry lease is some finite time.                               *)
(***************************************************************************)
EXTENDS Integers, FiniteSets, FiniteSetsExt, SequencesExt

CONSTANTS
    Messages,       \* the messages of the group, 1 .. n
    SentAt,         \* create_time of each, never falling
    ThreadOf,       \* root of an inline reply; a message that is none is its own
    Strangers,      \* messages of senders the directory does not know at first
    Calls,          \* messages that mention an agent
    Lag,            \* how late each may show up in the history
    ScanOverlap,    \* _feishu_overlap
    ContextWindow,  \* FEISHU_OVERLAP_SECONDS in mirror
    GiveUpAfter,    \* THREAD_DISCOVERY_SECONDS
    PageRows,       \* messages in a page
    Drain,          \* DRAIN_LIMIT
    Capacity,       \* CAPACITY: pending ids of a binding
    Attempts,       \* MAX_SEND_ATTEMPTS
    ScanFloor,      \* max(state.floor, state.feishu_floor)
    LastTime,       \* bound: the clock
    MaxNames,       \* bound: changes of the directory
    MaxTrouble      \* bound: failed reads, refused or unanswered publishes, crashes
                    \* and changes of the query's scope, together

ASSUME IngestAssumption ==
    /\ Messages \subseteq Nat \ {0} /\ IsFiniteSet(Messages)
    /\ SentAt \in [Messages -> Nat] /\ ThreadOf \in [Messages -> Messages]
    /\ \A m, n \in Messages : m < n => SentAt[m] <= SentAt[n]
    /\ Strangers \cup Calls \subseteq Messages
    /\ {ScanOverlap, ContextWindow, GiveUpAfter, ScanFloor, LastTime, MaxNames, MaxTrouble} \subseteq Nat
    /\ {PageRows, Drain, Capacity, Attempts} \subseteq Nat \ {0}
    /\ Lag \in [Messages -> 0 .. ScanOverlap] /\ ContextWindow <= ScanOverlap /\ ScanFloor <= LastTime

Times == 0 .. LastTime

VARIABLES
    visible,    \* messages the history shows
    time,
    names,      \* version of the directory: mentions, names, known senders
    query,      \* version of the query's scope
    scan,       \* feishu_scan: scope, start, end, token, complete
    row,        \* feishu_ingest: absent, new, leased, due (to be retried) or done
    waits,      \* feishu_ingest.waiting_context
    leases,     \* the leased ids, in the order their leases began
    due,        \* the due ids, in the order their leases ended
    mark,       \* state.f2b, with the time of the first attempt
    tries,      \* state.attempts
    since,      \* state.feishu_since
    sealed,     \* the event id a delivery was sealed with
    relay,      \* events the relay holds
    coming,     \* events without an answer that may still reach the relay
    phase,      \* where the round is
    at,         \* run.now_ts
    batch,      \* _feishu_ingest_selected, in order
    context,    \* the round's waiting dict
    sending,    \* the event being published
    trouble

marks == <<mark, tries, sealed>>
queue == <<row, waits, leases, due>>
round == <<phase, at, batch, context, sending>>
group == <<visible, time, names, query>>
ingestVars == <<group, scan, queue, marks, since, relay, coming, round, trouble>>

NoEvent == [of |-> 0, first |-> 0, text |-> 0]
NoScan == [scope |-> 0, start |-> ScanFloor, end |-> ScanFloor, token |-> 0, complete |-> TRUE]

IngestInit ==
    /\ visible = {} /\ time = ScanFloor /\ names = 0 /\ query = 0
    /\ scan = NoScan
    /\ row = [m \in Messages |-> "absent"] /\ waits = {} /\ leases = <<>> /\ due = <<>>
    /\ mark = [m \in Messages |-> [kind |-> "none", first |-> 0]]
    /\ tries = [m \in Messages |-> 0] /\ sealed = [m \in Messages |-> NoEvent]
    /\ since = ScanFloor /\ relay = {} /\ coming = {}
    /\ phase = "idle" /\ at = ScanFloor /\ batch = <<>> /\ context = {} /\ sending = NoEvent
    /\ trouble = 0

-----------------------------------------------------------------------------
Open(s) == s \in {"new", "leased", "due"}
Pending == {m \in Messages : Open(row[m])}
OpenMark(m) == mark[m].kind \in {"pending", "retry"}
ClosedMark(m) == mark[m].kind \in {"sent", "unknown", "failed"}
Unresolved == {m \in Messages : OpenMark(m)}

(* The scan. *)

\* feishu_to_buzz: where it would begin to read, from its own cursor.
ReadFrom ==
    Max({ScanFloor, Min({Max({since - ScanOverlap, ScanFloor})} \cup {SentAt[m] : m \in Unresolved})})

\* The next scan of the same scope.
AfterComplete(s) == Max({ScanFloor, s.end - ScanOverlap})

\* Another scope: what was not read to the end is read again.
Rescoped(s) == IF s.complete THEN ReadFrom ELSE Min({ReadFrom, s.start})

\* begin: the open scan goes on; else a new one, up to now.
ScanBegun(now) ==
    IF scan.scope = query /\ ~ scan.complete THEN scan
    ELSE [scope |-> query, start |-> IF scan.scope = query THEN AfterComplete(scan) ELSE Rescoped(scan),
          end |-> now, token |-> 0, complete |-> FALSE]

\* _give_up_stale
StaleClosed ==
    [m \in Messages |->
        IF OpenMark(m) /\ time - SentAt[m] > GiveUpAfter
        THEN [kind |-> IF mark[m].kind = "pending" THEN "unknown" ELSE "failed", first |-> 0]
        ELSE mark[m]]

\* Mutant of Remembered: only what this round defers is known to wait.
RememberedNot == {}

\* _feishu_waiting_context
Remembered == waits \cap Pending

\* A round of the feishu phase. Ids done long ago are forgotten.
StartScan ==
    /\ phase = "idle"
    /\ phase' = "page" /\ at' = time
    /\ mark' = StaleClosed /\ context' = Remembered
    /\ LET s == ScanBegun(time)
           old == {m \in Messages : row[m] = "done" /\ SentAt[m] < s.start}
       IN  /\ scan' = s
           /\ row' = IF s = scan THEN row ELSE [m \in Messages |-> IF m \in old THEN "absent" ELSE row[m]]
           /\ waits' = IF s = scan THEN waits ELSE waits \ old
    /\ UNCHANGED <<group, leases, due, tries, sealed, since, relay, coming, batch, sending, trouble>>

InScan(m, s) == s.start <= SentAt[m] /\ SentAt[m] <= s.end /\ m > s.token

\* S in the order of the history.
Ordered(S) == CHOOSE s \in [1 .. Cardinality(S) -> S] : \A i, j \in DOMAIN s : i < j => s[i] < s[j]

\* The next PageRows messages of the scan.
Page ==
    LET rest == {m \in visible : InScan(m, scan)}
    IN  {m \in rest : Cardinality({n \in rest : n < m}) < PageRows}

\* capture: the ids and the continuation, in one transaction.
Captured(page, more) ==
    /\ row' = [m \in Messages |-> IF m \in page /\ row[m] = "absent" THEN "new" ELSE row[m]]
    /\ scan' = [scan EXCEPT !.token = IF more THEN Max(page) ELSE 0, !.complete = ~ more]

\* discover: rows to be handled in this round, untried ones first.
Chosen(rows) ==
    LET all == Ordered({m \in Messages : rows[m] = "new"}) \o due
    IN  SubSeq(all, 1, Min({Drain, Len(all)}))

\* A page is read only when all its rows have room.
Blocked == Cardinality(Pending) > Capacity - PageRows

ReadPage ==
    /\ phase = "page" /\ ~ Blocked
    /\ Captured(Page, \E m \in visible \ Page : InScan(m, scan))
    /\ batch' = Chosen(row') /\ phase' = "first"
    /\ UNCHANGED <<group, waits, leases, due, marks, since, relay, coming, at, context, sending, trouble>>

\* Too much is pending: no page is read.
SkipPage ==
    /\ phase = "page" /\ Blocked
    /\ batch' = Chosen(row) /\ phase' = "first"
    /\ UNCHANGED <<group, scan, queue, marks, since, relay, coming, at, context, sending, trouble>>

\* Mutant of TokenLost: the rest of the interval is given up.
TokenLostEnds(s) == [s EXCEPT !.token = 0, !.complete = TRUE]

\* reset_token: the same interval again.
TokenLost(s) == [s EXCEPT !.token = 0]

\* The page cannot be read, or its continuation does not hold.
PageFails ==
    /\ phase = "page" /\ ~ Blocked /\ trouble < MaxTrouble
    /\ trouble' = trouble + 1
    /\ scan' = TokenLost(scan)
    /\ batch' = Chosen(row) /\ phase' = "first"
    /\ UNCHANGED <<group, queue, marks, since, relay, coming, at, context, sending>>

-----------------------------------------------------------------------------
(* One message of the batch. *)

Taken == Head(batch)
OnRelay(m) == {e \in relay : e.of = m}

\* It leaves the batch; its lease is saved before it is read.
Lease(m) == due' = RemoveFirst(due, m) /\ batch' = Tail(batch)

\* The id stays pending, under its lease.
Keep(m) == row' = [row EXCEPT ![m] = "leased"] /\ leases' = Append(leases, m)

\* Done, after the decision about it was saved.
Done(m) == row' = [row EXCEPT ![m] = "done"] /\ leases' = RemoveFirst(leases, m)

\* Its words go out as a stranger's.
Context(m) == m \in Strangers /\ names = 0

\* They may still go out as his own: the directory may know him by the next round.
Early(m) == Context(m) /\ at - SentAt[m] <= ContextWindow

\* A call after words that wait, or a reply under them.
Behind(m) ==
    \/ m \in Calls /\ \E n \in context \ {m} : SentAt[n] <= SentAt[m]
    \/ ThreadOf[m] # m /\ ThreadOf[m] \in context

\* The root of a reply has its event.
RootKnown(m) == ThreadOf[m] = m \/ mark[ThreadOf[m]].kind = "sent" \/ OnRelay(ThreadOf[m]) # {}

Found(m) == mark[m].kind # "sent" /\ OnRelay(m) # {}

\* Nothing to send: an event already there is adopted, a closed mark stays.
Settle ==
    /\ phase \in {"first", "drain"} /\ batch # <<>>
    /\ Found(Taken) \/ ClosedMark(Taken)
    /\ Lease(Taken) /\ phase' = "drain"
    /\ mark' = IF Found(Taken) THEN [mark EXCEPT ![Taken] = [kind |-> "sent", first |-> 0]] ELSE mark
    /\ Done(Taken)
    /\ UNCHANGED <<group, scan, waits, tries, sealed, since, relay, coming, at, context, sending, trouble>>

\* _HELD: a message held back stays pending.
Hold ==
    /\ phase \in {"first", "drain"} /\ batch # <<>>
    /\ ~ Found(Taken) /\ ~ ClosedMark(Taken)
    /\ Lease(Taken) /\ phase' = "drain"
    /\ Keep(Taken)
    /\ \/ /\ Early(Taken)
          /\ context' = context \cup {Taken} /\ waits' = waits \cup {Taken}
       \/ /\ ~ Context(Taken) /\ Behind(Taken)
          /\ UNCHANGED <<context, waits>>
    /\ UNCHANGED <<group, scan, marks, since, relay, coming, at, sending, trouble>>

\* The reading of the message or of its root fails, or the root has no event.
ReadFails ==
    /\ phase \in {"first", "drain"} /\ batch # <<>>
    /\ \/ trouble < MaxTrouble /\ trouble' = trouble + 1
       \/ /\ ~ Found(Taken) /\ ~ ClosedMark(Taken) /\ ~ RootKnown(Taken)
          /\ ~ Early(Taken) /\ (Context(Taken) \/ ~ Behind(Taken))
          /\ UNCHANGED trouble
    /\ Lease(Taken) /\ phase' = "drain"
    /\ Keep(Taken)
    /\ UNCHANGED <<group, scan, waits, marks, since, relay, coming, at, context, sending>>

\* The time of the first attempt, kept by the mark.
FirstTime(m) == IF OpenMark(m) THEN mark[m].first ELSE at

\* _mirror_publish: the event as it would be signed now.
EventOf(m) == [of |-> m, first |-> FirstTime(m), text |-> names]

\* Mutant of Conflicts: the content a delivery was sealed with is not compared.
ConflictsNever(m) == FALSE

\* The delivery was sealed with another content.
Conflicts(m) == sealed[m] \notin {NoEvent, EventOf(m)}

\* The pending mark is saved, then the content sealed.
Send ==
    /\ phase \in {"first", "drain"} /\ batch # <<>>
    /\ ~ Found(Taken) /\ ~ ClosedMark(Taken)
    /\ ~ Early(Taken) /\ (Context(Taken) \/ ~ Behind(Taken)) /\ RootKnown(Taken)
    /\ Lease(Taken)
    /\ IF Conflicts(Taken)
       THEN /\ mark' = [mark EXCEPT ![Taken] = [kind |-> "unknown", first |-> 0]]
            /\ phase' = "drain" /\ Done(Taken)
            /\ UNCHANGED <<sealed, sending>>
       ELSE /\ mark' = [mark EXCEPT ![Taken] = [kind |-> "pending", first |-> FirstTime(Taken)]]
            /\ sealed' = [sealed EXCEPT ![Taken] = EventOf(Taken)]
            /\ sending' = EventOf(Taken) /\ phase' = "publish"
            /\ Keep(Taken)
    /\ UNCHANGED <<group, scan, waits, tries, since, relay, coming, at, context, trouble>>

\* The relay takes the event and says so.
Published ==
    /\ phase = "publish"
    /\ relay' = relay \cup {sending}
    /\ phase' = "accepted"
    /\ UNCHANGED <<group, scan, queue, marks, since, coming, at, batch, context, sending, trouble>>

\* It refuses the event, or gives no answer: the event is there, late, or lost.
NotAnswered ==
    /\ phase = "publish" /\ trouble < MaxTrouble
    /\ trouble' = trouble + 1
    /\ \/ UNCHANGED <<relay, coming>>
       \/ relay' = relay \cup {sending} /\ UNCHANGED coming
       \/ coming' = coming \cup {sending} /\ UNCHANGED relay
    /\ phase' = "refused"
    /\ UNCHANGED <<group, scan, queue, marks, since, at, batch, context, sending>>

\* The decision is saved, and then the id is done.
Acknowledge ==
    /\ phase = "accepted"
    /\ mark' = [mark EXCEPT ![sending.of] = [kind |-> "sent", first |-> 0]]
    /\ tries' = [tries EXCEPT ![sending.of] = 0]
    /\ Done(sending.of) /\ sending' = NoEvent /\ phase' = "drain"
    /\ UNCHANGED <<group, scan, waits, due, sealed, since, relay, coming, at, batch, context, trouble>>

Exhausted(n) == n >= Attempts

\* _refused: the id stays pending unless the attempts are used up.
TryAgain ==
    /\ phase = "refused"
    /\ LET m == sending.of
           n == tries[m] + 1
       IN  /\ tries' = [tries EXCEPT ![m] = n]
           /\ mark' = [mark EXCEPT ![m] = IF Exhausted(n) THEN [kind |-> "failed", first |-> 0]
                                          ELSE [@ EXCEPT !.kind = "retry"]]
           /\ IF Exhausted(n) THEN Done(m) ELSE UNCHANGED <<row, leases>>
    /\ sending' = NoEvent /\ phase' = "drain"
    /\ UNCHANGED <<group, scan, waits, due, sealed, since, relay, coming, at, batch, context, trouble>>

\* The time of the batch is up; its first message is handled in any case.
TimeUp ==
    /\ phase = "drain" /\ batch # <<>>
    /\ batch' = <<>>
    /\ UNCHANGED <<group, scan, queue, marks, since, relay, coming, phase, at, context, sending, trouble>>

\* finish
ScanWatermark == IF scan.complete THEN Max({since, scan.end}) ELSE since

\* _advance_cursor: the open rows hold the cursor, which never goes back.
Held(candidate) ==
    Max({since, Min({candidate} \cup {Max({0, SentAt[m] - 1}) : m \in {n \in Messages : OpenMark(n) \/ mark[n].kind = "unknown"}})})

Quiet == phase' = "idle" /\ at' = ScanFloor /\ batch' = <<>> /\ context' = {} /\ sending' = NoEvent

\* The phase ends; when anything of it was incomplete the cursor stays.
EndScan ==
    /\ phase \in {"first", "drain"} /\ batch = <<>>
    /\ \/ since' = Held(ScanWatermark)
       \/ UNCHANGED since
    /\ Quiet
    /\ UNCHANGED <<group, scan, queue, marks, relay, coming, trouble>>

-----------------------------------------------------------------------------
(* What happens around the round. *)

\* Of the two saves after an answer the outcome is the first.
FirstSave(m) ==
    /\ mark' = [mark EXCEPT ![m] = [kind |-> "sent", first |-> 0]]
    /\ UNCHANGED <<row, leases>>

\* hostd is killed. Between two messages a kill is a batch cut short.
Kill ==
    /\ phase \in {"page", "publish", "accepted", "refused"} /\ trouble < MaxTrouble
    /\ trouble' = trouble + 1
    /\ \/ UNCHANGED <<mark, row, leases>>
       \/ phase = "accepted" /\ FirstSave(sending.of)
    /\ Quiet
    /\ UNCHANGED <<group, scan, waits, due, tries, sealed, since, relay, coming>>

LeaseEnds(m) ==
    /\ row[m] = "leased" /\ phase = "idle"
    /\ row' = [row EXCEPT ![m] = "due"]
    /\ due' = Append(due, m) /\ leases' = RemoveFirst(leases, m)
    /\ UNCHANGED <<group, scan, waits, marks, since, relay, coming, round, trouble>>

\* A message shows up in the history. A scan may be read over several rounds; in
\* one round time stands still.
Show(m) ==
    /\ phase = "idle"
    /\ m \notin visible /\ SentAt[m] <= time /\ time <= SentAt[m] + Lag[m]
    /\ visible' = visible \cup {m}
    /\ UNCHANGED <<time, names, query, scan, queue, marks, since, relay, coming, round, trouble>>

\* An event without an answer reaches the relay.
Arrives(e) ==
    /\ e \in coming
    /\ coming' = coming \ {e} /\ relay' = relay \cup {e}
    /\ UNCHANGED <<group, scan, queue, marks, since, round, trouble>>

\* The directory or the binding's configuration changes.
Reconfigure ==
    /\ phase = "idle"
    /\ \/ names < MaxNames /\ names' = names + 1 /\ UNCHANGED <<query, trouble>>
       \/ /\ trouble < MaxTrouble /\ trouble' = trouble + 1
          /\ query' = query + 1 /\ UNCHANGED names
    /\ UNCHANGED <<visible, time, scan, queue, marks, since, relay, coming, round>>

Later ==
    /\ time < LastTime /\ phase = "idle"
    /\ time' = time + 1
    /\ UNCHANGED <<visible, names, query, scan, queue, marks, since, relay, coming, round, trouble>>

ScanStep ==
    \/ StartScan \/ ReadPage \/ SkipPage \/ PageFails
    \/ Settle \/ Hold \/ ReadFails \/ Send \/ Published \/ NotAnswered \/ Acknowledge \/ TryAgain
    \/ TimeUp \/ EndScan

IngestNext ==
    \/ ScanStep \/ Kill \/ Reconfigure \/ Later
    \/ \E m \in Messages : LeaseEnds(m) \/ Show(m)
    \/ \E e \in coming : Arrives(e)

\* Between rounds time passes, to the end of the clock, and then leases end still.
TimePasses == Later \/ (time = LastTime /\ leases # <<>> /\ LeaseEnds(Head(leases)))

IngestSpec == IngestInit /\ [][IngestNext]_ingestVars /\ WF_ingestVars(ScanStep) /\ SF_ingestVars(TimePasses)

-----------------------------------------------------------------------------
(* What the ingestion promises. *)

IngestTypeOK ==
    /\ visible \subseteq Messages /\ waits \subseteq Messages
    /\ time \in Times /\ since \in Times
    /\ scan.start <= scan.end /\ scan.token \in Messages \cup {0}
    /\ row \in [Messages -> {"absent", "new", "leased", "due", "done"}]
    /\ tries \in [Messages -> 0 .. Attempts]
    /\ ToSet(due) = {m \in Messages : row[m] = "due"} /\ IsInjective(due)
    /\ ToSet(leases) = {m \in Messages : row[m] = "leased"} /\ IsInjective(leases)
    /\ (sending # NoEvent) = (phase \in {"publish", "accepted", "refused"})
    /\ Cardinality(Pending) <= Capacity

\* The messages that the next pages of the scans will show: the rest of an
\* open scan, and whatever the scan after it reads.
ToBeRead(m) ==
    LET s == IF scan.scope = query THEN scan
             ELSE [ScanBegun(time) EXCEPT !.complete = FALSE]
    IN  \/ ~ s.complete /\ InScan(m, s)
        \/ SentAt[m] >= AfterComplete(s)

\* No message is passed over: one that is in the history, or may yet show up in
\* it, is kept or decided, or a coming page shows it; through lost
\* continuations, changes of the query, failed phases, full queues and crashes.
NothingUnread ==
    \A m \in Messages :
        /\ SentAt[m] >= ScanFloor
        /\ m \in visible \/ time <= SentAt[m] + Lag[m]
        /\ row[m] = "absent" /\ ~ ClosedMark(m)
        => ToBeRead(m)

\* A message has one event in Buzz at most, though answers are lost, events
\* arrive late, and names and mentions change between its attempts.
OneEvent == \A m \in Messages : Cardinality(OnRelay(m)) <= 1

\* An id is forgotten only after its message was decided for good: no crash
\* between the two loses it (test_hostd_feishu_ingest.py).
DoneDecided == \A m \in Messages : row[m] = "done" => ClosedMark(m)

\* With names that stay the same, a retry is the event it retries: its outcome
\* is not lost to a conflict that its own time made.
SameEventAgain ==
    \A m \in Messages : mark[m].kind = "unknown" => names > 0 \/ time - SentAt[m] > GiveUpAfter

\* A message is one event, decided before its id is forgotten
\* (delivery_mapping.py, feishu_ingest.py).
IngestSafe == IngestTypeOK /\ OneEvent /\ DoneDecided /\ SameEventAgain

\* A call to an agent is not sent while a stranger's words before it wait, in
\* this round or since an earlier one, and a reply under them is not either
\* (hostd-feishu-ingest.md, "the next batch cannot send a dependent agent
\* mention early").
WordsBeforeCall ==
    [][\A m \in Messages :
          phase' = "publish" /\ phase # "publish" /\ sending'.of = m /\ m \notin Strangers =>
              \A n \in waits \ {m} :
                  n \in Pending =>
                      /\ m \in Calls => SentAt[n] > SentAt[m]
                      /\ ThreadOf[m] # n]_ingestVars

\* Every message of the history is decided, unless it is a reply whose root
\* has no event.
IngestSettled ==
    \A m \in Messages : m \in visible /\ SentAt[m] >= ScanFloor ~>
        \/ ClosedMark(m)
        \/ ClosedMark(ThreadOf[m]) /\ mark[ThreadOf[m]].kind # "sent"
        \/ ThreadOf[m] \notin visible
=============================================================================
