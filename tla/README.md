# Verification of the Buzz–Feishu host daemon

This directory holds TLA+ models of `buzz-agent-setup/scripts/hostd`, the daemon that keeps Buzz channels
and Feishu groups in step, with the TLC configurations that check them and TLAPS proofs about them. Paths
below are relative to that directory unless they start with `src/`.

The repository is a backup of agent skills. Most of them are prompts, one-shot scripts or vendored
libraries. `hostd` is where the repository has long-lived state, concurrency, retries and crash recovery,
so the work starts there.

Contents: [the system](#the-system) · [components](#components) · [modules](#modules) · [runs](#runs) ·
[fairness](#fairness) · [findings](#findings) · [proofs](#proofs) · [limits](#what-is-not-modelled) ·
[plan](#plan)

## The system

One process serves many *bindings*. A binding is one Buzz channel and one Feishu group with the agents in
both. All durable state is one SQLite database (`store.py`), every public operation of which is one
transaction. An asyncio loop owns all volatile state (`__main__.py`); rounds run in threads.

    relay feed, Feishu feed, timers            console (pause, resume, backfill)
          | mark phases dirty, set event           | fence in the ledger, binding lock
          v                                        v
    binding worker loop  ---- binding lock ---- console operation
          |
          v            RoundSlots: a slot per running round, live before background
    round in a thread (binding_worker.py: members, buzz, feishu, notice)
          |                      |
          |                      +-- one AgentOutlet per agent: the relay's signed events -> Feishu
          v                      |
    Store: delivery, outlet_receipt, cursor, outlet_work, binding, console_pause ...
                                 v
                        Scheduler: one request per app and chat, rate budgets
                                 v
                        HttpPool: few connections and one token per app -> Feishu

What makes it hard:

- **Effects without answers.** Feishu may have performed a request whose answer was lost, and may perform
  it later. Messages have an idempotency key that Feishu forgets after a while; reactions have none.
- **Order.** The newest topics go first, so replies can come before their parents, edits after newer edits,
  acknowledgements with older work still open.
- **Crashes** between an effect and its acknowledgement, between a pause's fence and its end.
- **Windows that are read again.** Histories are read by bounded pages over a moving interval while
  messages show up late; what is not settled must still be inside the next interval, after a phase that
  failed half way, a lost continuation or a crash.
- **State read before an await and used after it**: a pause arrives while a round waits for its lock, its
  outlets or its slot; a backfill times out while the handler of its failure is in the ledger; the deadline
  of a restart cancels the coroutine while its thread is about to order it.
- **Starvation**: live rounds over background rounds, normal calls over backfill, fresh topics over old ones.

## Components

For every part: the state it keeps, its operations, what it talks to, and what makes it correct. The status
of each, what of it is modelled and why the rest is not, is in PROJECT.json; the parts below with a module
are described under [modules](#modules).

| component | state | operations | interacts with | correct when |
|---|---|---|---|---|
| delivery ledger (`store.py`): DeliveryLedger | rows of `delivery`, `outlet_receipt`, `cursor` per lane | reserve, seal, ack, ack with receipt, fail, retry, settle, save cursor, replay_since | every sender; phases save their cursor with it | an acknowledgement is final, a receipt and a seal agree with their row, the cursor never passes open work |
| agent outlet (`outlet.py`, `outlet_work.py`, `reaction_supersession.py`): OutletDelivery | durable work queue with leases and an aging counter; per slice: snapshot, attempt, dependencies | `catch_up`: read, capture, choose, attempt one event, acknowledge | ledger, relay, Feishu through the scheduler | each event performed at most once, in causal order, none forgotten, no acknowledgement made up, the last edit wins |
| round admission (`round_slots.py`): RoundSlots | queue, active tickets, live marks, streak | slot, promote, withdraw_waiting, yield | round loop | no slot leaks or idles, background cap holds, overtaking is bounded |
| Feishu request scheduler (`scheduler.py`): Scheduler | queue, lanes, token buckets, rolling windows, streak | run, close | all threads that call Feishu | one request per lane, ceilings hold in every window, both priorities progress |
| hostd process (`__main__.py`, `console_pause.py`, `recovery.py`): HostdRounds | dirty phases, event, retry tasks, binding locks; ledger: status, pause fence | mark, worker loop, round, retry timer, pause, resume, backfill, restore | all of the above | a drained pause is quiet, marked work is kept and wakes somebody, retries happen |
| binding worker, state store (`binding_worker.py`, `bot_round.py`, `state_store.py`): BuzzPhase | checkpointed state of the phases | run phases, checkpoint, roll back, save with cursor | ledger, outlets, group rules | a failed phase leaves no half state that hides work, no message goes out twice |
| message mappings (`delivery_mapping.py`, `remote_mapping.py`): BuzzPhase, FeishuIngest | none of their own; seals in the ledger | reserve, seal, publish, locate | ledger, relay | one source never becomes two events |
| delivery notices (`delivery_notice.py`) | notice rows | candidate, send, edit on recovery | ledger, Feishu | one notice per failure, taken back when the message arrives |
| reaction inbox, pending hints (`reaction_inbox.py`, `outlet_pending.py`) | bounded retained reactions | retain, order, expire | outlet | hints only narrow a read, never replace it |
| feeds (`relay_feed.py`, `feishu_feed.py`, `feishu_ingest.py`, `relay_history.py`): RelayHistory, FeishuIngest | subscriptions, ingest queue, interval reads | reconnect, enqueue, drain, read by page | round loop, outlet | a complete read is complete, a source is claimed before it is acknowledged |
| HTTP pool (`http_pool.py`): HttpPool | connections, token and refresh flight per app | request, refresh, invalidate, close | all Feishu calls | one refresh per app, no connection leaks, no good token is dropped |
| console operations (`console.py`, `console_operations.py`, `agent_operations.py`): AgentRestart, HostdRounds | operation rows, restart rows | reserve, claim, dispatch, pin, acknowledge, settle, read back | round loop, service manager | ordered at most once, unknown is only read back, completed by its own effect |
| console transports (`console_web.py`, `console_ssh.py`, `console_browser.py`, `console_access.py`, ...) | sessions | serve, tunnel | console | plumbing |
| own-home admission (`own_admission*.py`, `own_home_current_sources.py`) | journal, protected file, process | admit, resume, refuse | registry, console | an unknown effect is never repeated |
| onboarding and join effects (`onboarding*.py`, `join_*.py`, `runtime_registration.py`) | cards, effects, registrations | decide, resume effects | Feishu, registry | a decision takes effect once |
| remote outlets (`remote_*.py`) | grants, generations | grant, revoke, dispatch | ledger, outlet | one grant holder, old generations send nothing |
| approvals and fallback producers (`approval_publisher.py`, `fallback_*.py`) | publication rows | publish, read back | relay | a decision is published at most once |
| registry, configuration, credentials (`registry.py`, `config.py`, `secrets_store.py`, ...) | files | load, validate | start | total, deterministic loaders |
| readers and presentation (`signed_reads.py`, `agent_media.py`, `report_markdown.py`, ...) | none | bounded reads, formatting | outlet, rounds | failures surface as failures |
| group rules (`src/buzz-agent-setup/scripts/buzz_feishu_group_sync.py`): BuzzPhase, FeishuIngest | the synchronous round's state | one pass | binding worker | see binding worker |
| recovery controller (`src/buzz-agent-setup/scripts/recovery_*.py`) | attempts per agent | tick, restart | timer, processes | bounded restarts |
| GitLab bridge (`src/buzz-agent-setup/scripts/gitlab_buzz_sync.py`) | cursors | one pass | timer | plumbing |
| harness failover (`src/harness-failover`) | environment files, notification and retry state, lock | switch, roll back, nudge, notify | timer, agents | all agents on one configuration or rolled back |
| other skills | none | scripts | – | – |

The hazards are listed one by one, with the line where each bites and the properties that would catch it,
under "hazards" in PROJECT.json. Those no property covers carry a note instead.

## Modules

    DeliveryLedger <--- OutletDelivery ---> SourceDelivery (INSTANCE, refinement)
          ^                ^       ^
    MCDeliveryLedger   MCOutlet  OutletTurns <-- MCOutletTurns
    RoundSlots  <-- MCRoundSlots        AgentRestart, HttpPool  <-- MCConsolePool
    Scheduler   <-- MCScheduler         RelayHistory, BuzzPhase <-- MCBuzzHistory
    HostdRounds <-- MCRounds            FeishuIngest            <-- MCFeishuIngest

    DataLemmas: SchedulerProofs, RoundSlotsProofs, ConsolePoolProofs, BindingProofs
    DeliveryLedgerProofs <- OutletDeliveryProofs          HostdRoundsProofs
    ConsolePoolProofs is about HttpPool and AgentRestart, BindingProofs about RelayHistory, BuzzPhase and
    FeishuIngest, OutletDeliveryProofs about OutletDelivery and OutletTurns, every other <M>Proofs about M

In every module one action is one uninterruptible piece of the code: one SQLite transaction, what the event
loop does between two awaits, what happens under a condition's lock. The "map" of PROJECT.json gives the
lines of each definition. Definitions commented "Mutant of X" are plausible bugs of X; no specification
uses them, they show that a property is able to fail.

**DeliveryLedger** (`store.py`). One lane: the rows of a binding, an agent and a stream, with the lane's
cursor. `row`, `receipt` and `cursor` are the three tables; `Reserve`, `Ack`, `AckOutlet`, `Fail`, `Retry`,
`Seal`, `Settle` and `SaveCursor` the store's methods. The conditions that raise `StoreError` are guards,
because the transaction rolls back. The functions from rows to rows (`ReservedRow`, `AckedRow`, ...) are
shared with OutletDelivery, so both modules mean the same tables. Ids, receipts and content commitments are
model values; what counts is whether they are equal. `Pinned` sources are those of direction f2b, whose
commitment is their target. `SaveCursor` and the rows of the same save are separate actions here.

**SourceDelivery**. What an outlet promises of a message or a reaction: open, then sent, then confirmed; or
dropped while it was open.

**OutletDelivery** (`outlet.py`, `outlet_work.py`, `reaction_supersession.py`). One agent's outlet on one
lane, with the relay, the network and Feishu as its environment. `pc` follows `catch_up(max_events=1)`,
the only way the code calls it (`binding_worker.py:467`): read the history (`ReadHistory`), capture all
candidates in one transaction (`Capture`), choose one (`Chosen`: topics' due heads, preference for fresh
ones, aging), lease it (`Start`), and deliver it; `stack` holds the nested `_deliver` calls for the parents
of a reply. An attempt resolves what the event depends on (`Resolve`), reserves its row, calls Feishu and
acknowledges. `wire` holds requests that may still take effect, `copies` and `card` what the group shows,
`sighted` what the cached history must show. Environment faults are refusals, lost answers, failed reads
and crashes between any two transactions. The readback of an unknown reaction sees what Feishu shows of the
agent on that message with that emoji (`OwnRecords`), not which event it came from. The outlet implements
SourceDelivery: `PromiseKept` is its specification under the mapping `Fate`.

**OutletTurns**. OutletDelivery with a history variable, `passed`: how many younger heads have been chosen
since a head became due or had its own turn. The outlet reads nothing of it.

**RoundSlots** (`round_slots.py`). `waiting`, `active`, `live`, `liveNames` and `streak` are the object's
fields, `task` is where the coroutine of each ticket is: a future is resolved some steps before its task
runs, and a cancellation or withdrawal can come in between (`Cancel`, `Withdraw`, `GiveUp`). A ticket is
named by its binding, since the binding lock admits one round at a time. Running rounds are not cancelled:
the round shields its thread until it ends (`__main__.py:603-609`). `overtaken` is a history variable.

**Scheduler** (`scheduler.py`). `Request`, `Start`, `Reject`, `Complete`, `Close` and `SetCancel` are the
pieces of `run` and `close` under the condition. Tokens are counted in fractions of a token, so they are
exact; `starts` keeps all admissions of a budget, of which the code's deque is the recent end.

**HostdRounds** (`__main__.py`, `console_pause.py`, `recovery.py`). One binding. `status` and `fence` are
in the ledger and survive `Crash`; the dirty phases, the event, the retry task, the lock and the round do
not. `worker` follows `binding_loop`, `stage` follows the round from its check of the fence through the
queue, the slot and the thread to the handling of its report. Pause, resume and backfill wait for the
binding lock (`asked`). RoundSlots is reduced to `Grant`. Taking the lock and reading the ledger's state
are one action, because the read commutes with acquiring; the event and the debounce are one action.
The notice lane is global: here another binding may always be holding it.

**AgentRestart** (`console_operations.py`, `agent_operations.py`, the tables console_operation and
restart_operation of `store.py`). All restarts of one agent that the console asks for. The ledger (`op`,
`link`, `row`, `new`, `foreign`) survives `Crash` and `Exit`; `job` is where each operation's coroutine is,
`thread` where the worker thread of its dispatch is. The thread calls back to the loop and goes on when the
coroutine is already cancelled, so the two are separate: `Timeout` and `Close` cancel the job, `Collect`
joins the thread before the job goes on. The uncertainty is written (`AdmitDispatch`) before the unit is
restarted (`Order`); systemd carries the order out later or never (`Land`); the new process is looked for
(`Observe`), pinned (`Pin`) and acknowledged (`Ack`). `Settle`, `Reconcile` and `Boot` turn what the ledger
knows into the operation's status. `Elsewhere` is everything others do: a new process, a turn, a change of
the agent's grants, the restart row of an own-home admission.

**HttpPool** (`http_pool.py`). One app's connections and token, shared by all threads; what happens under
the condition is one action. `at` is where a thread is in `request`: it uses the app's token, follows the
flight of another thread, or leads one (`Lead` ... `EndFlight`); every exchange needs a connection
(`Acquire`, `Opened` or `NotOpened`, `Exchange`). A token has the number of the flight that fetched it.
`ClosePool` may come at any time, `Deadline` ends a wait, `Expire` ages the token.

**RelayHistory** (`relay_history.py`, `read_history`). One read of an interval: a page, then its oldest
second on its own with growing limits, then on below it; a halved answer and a full page cut a second in
two. The relay may show and drop rows between two requests (`Appear`, `Vanish`). `Answer` says what a page
of at most l rows, newest first, can be; rows of one second come in any order.

**BuzzPhase** (`buzz_to_feishu` in `buzz_feishu_group_sync.py`, `delivery_mapping.py`, `binding_worker.py`,
`state_store.py`, the cursor of `store.py`). One binding's mirror of people's messages to Feishu. `disk` is
what was saved, `memo` the round's copy. A round reads the window from `ReadSince`, then visits each event
in order (`Visit`): it is settled, closed, held back behind its root, adopted because its copy is already in
Feishu, skipped because its parent could not be read, or posted with a key of its own (`Post`,
`PostAnswered`). The history that an adoption rests on lists root messages only (`bot_clients.py:647`), so
`Listing` never shows the copy of a reply: an unsettled reply is posted again under its key. A skipped reply
leaves nothing behind (lines 5380-5385 of the group rules); `skipped` are those of the running round, and the
history variable `passed` those that a committed cursor has left outside the next read. A post may be
refused, lose its answer or arrive late (`Late`), the phase may fail half way, the process may die; the
cursor is committed only by a whole phase (`EndPhase`), and the ledger holds it back for open rows.

**FeishuIngest** (`feishu_ingest.py`, `mirror` in `feishu_to_buzz`, `delivery_mapping.py`). One group's
history on its way to Buzz. A scan is an interval fixed when it begins, read one page a round; the ids of a
page are kept with the continuation in one transaction (`ReadPage`). Kept ids are leased, handled and done
(`Lease`, `Settle`, `Hold`, `Send` ... `Acknowledge`), in two saves that a `Kill` may separate. An event
carries the time of the first attempt, so a retry is the same event unless names have changed, and then the
sealed delivery refuses it (`Conflicts`). A stranger's words wait until the stranger is known or a time has
passed, and calls behind them wait with them (`Early`, `Behind`, `Remembered`).

## Runs

| run | module | what it shows | bounds | distinct states |
|---|---|---|---|---|
| ledger | MCDeliveryLedger | any order of store calls keeps receipts, seals, acknowledgements and the cursor in agreement | one outlet source, one pinned source, two targets, time 0..2 | 185,724 |
| outlet | MCOutlet | an old root, a reply, a later topic, or two reactions and a withdrawal: each performed once, parents first, acknowledged only when real, dropped only as a pair, none forgotten, with expiry of the retry window and late landings; the outlet implements SourceDelivery | time 0..4, 2 faults until 3 | 960,209 |
| outlet_turns | MCOutletTurns | a reaction older than two fresh topics has its turn in time; an old root, a reply, two edits of the reply in one second: no regression, and everything arrives in the end | aging after 2 turns, time 0..4, 1 fault until 1 | 129,044 |
| slots | MCRoundSlots | cancellation, withdrawal and promotion keep slots accounted, capped and busy; bounded overtaking; a queued round is admitted although live rounds never stop | wide: 4 bindings, 2 slots, 1 reserved, streak 2; narrow: 3 bindings, 1 slot, streak 1 | 501,068 |
| scheduler | MCScheduler | lanes, ceilings, priorities and order; every waiting call is answered | 3 threads, 2 lanes, 4 budgets, time 0..4 | 442,668 |
| rounds | MCRounds | pauses are quiet and end, marks and wake-ups are kept, nothing is stranded in pending, marked work is taken | 1 ordinary phase and notices, all operations, 1 crash | 211,219 |
| rounds_retry | MCRounds | finding 1, a counterexample | 3 ordinary phases, no operations | – |
| rounds_timeout | MCRounds | finding 2, a counterexample | 2 ordinary phases, backfill | – |
| console_pool | MCConsolePool | restarts are ordered once, one at a time, completed by their own process, answered over deadlines, stops and crashes; a pool leaks no connection, refreshes once, keeps good tokens and ends every request | 2 requests, 3 processes, 2 lives, 1 change; 3 threads, 2 connections, 1 request each | 228,555 |
| buzz_history | MCBuzzHistory | each message is in Feishu once and after its root, none leaves the window unsettled but a skipped reply, all others are settled; a read of the relay is whole or has failed for a cause, and ends | a root and its reply, clock 0..4, 2 faults, 1 crash; 4 rows in 2 seconds, pages of 2 to 3 | 290,652 |
| buzz_skipped | MCBuzzHistory | finding 3, a counterexample | one reply to a Feishu message, 1 fault, no crash | – |
| ingest | MCFeishuIngest | each message is read, becomes one event, is decided before its id is forgotten, and waits for the words before it | 3 messages, one of a stranger with a reply under it and a call behind it, time 0..2, 1 fault, 1 change of names | 265,931 |

Properties with *Safe* in their names are conjunctions: the module's type invariant with the state
predicates that say where everything belongs. RestartInOrder, RestartAnswered and FenceMovesOn join
properties of one subject in the same way. The parts keep their own names, comments and theorems.

| property | parts |
|---|---|
| LedgerSafe | LedgerTypeOK, ReceiptAgrees, SealedTarget |
| OutletSafe | TypeOK, AtMostOnce |
| SlotsSafe | SlotsTypeOK, SlotsAccounted, SlotCaps |
| SchedSafe | SchedTypeOK, LaneExclusive |
| RoundsSafe, FenceMovesOn | RoundsTypeOK, DrainedIsQuiet; PauseEnds, NeverStranded |
| RestartSafe | RestartTypeOK, OrderedOnce, CompletedByReplacement |
| RestartInOrder, RestartAnswered | NoOverlappingRestart, NothingAfterReport, StatusForward; OperationAnswered, AckReported |
| PoolSafe | PoolTypeOK, ConnectionsAccounted, OneRefresh, GoodTokenKept |
| HistorySafe | HistoryTypeOK, NothingSkipped, FailsForCause |
| BuzzSafe | BuzzTypeOK, OneCopy, RootBeforeReply, SaveAccepted |
| IngestSafe | IngestTypeOK, OneEvent, DoneDecided, SameEventAgain |

Three runs put two parts side by side that share no state (two modules, or one module with two sets of
constants). `focus` names the part a behaviour takes, the other stays as it began; so the reachable states
are those of the first part and those of the second, and a property of a part holds in the run exactly if
it holds of the part alone. The two outlet runs do the same with two graphs of events in one module: `graph`
names the one the relay shows in a behaviour.

Why the bounds are enough for the cases that matter:

- *Ledger*: the cursor takes the values "none", 0, 1 and 2, so a row can lie before, at and after it, and
  the hold-back by one second and the overlap both show. Two targets are needed to disagree.
- *Outlet*: each graph has the smallest set of events with the conflict it is about. In *replies* the
  baseline (`InitialSince`) lies after the root, so the root is delivered only as a dependency; the relay
  may show events late; the retry window, the deduplication window and two faults fit into the time, so a
  lost answer, the expiry and a late landing can follow each other. *reactions* has a reaction that shows
  progress, which may be dropped with its withdrawal, and one with another emoji on the same message, which a
  readback must not take for it. Two copies of a message are enough to see a duplicate.
- *Turns*: in *topics* a reaction, the message it is on and a fresher message are due together. Messages are
  preferred to reactions, fresh topics to old ones and to retries, so the reaction, the oldest of them, is
  passed over by both, and by a retry of one, until the count of turns, here 2, lets age decide. A refusal
  costs a lease of up to 2. *thread* has one topic, with the conflict between edits and dependencies. The
  retry windows are longer than the run, since an expired message is never delivered.
- *Slots*: the wide part has a slot that only live rounds may take, a background round that may be
  overtaken twice, and a binding left to cancel or promote; the narrow part has one slot, so everybody
  competes for it and the streak decides. No symmetry is used.
- *Scheduler*: two calls of one lane and priority show order and exclusion, a third on another lane of the
  same app competes for its budgets. The long budget allows less than the short one would, so both guards
  bind; a call can be started at time 3, exactly when the window of those at 0 ends.
- *Rounds*: the state is finite but for the crashes. One ordinary phase and notices tell taking and keeping
  apart, and the findings' runs have more phases. A second crash repeats the state the first one reaches.
- *Restarts*: two requests compete for the agent. Three processes let one be replaced by its restart and
  that one by somebody else's; one crash or stop may come at any point, and one change of grants.
- *Pool*: three threads for two connections, so one sleeps; a leader, a follower and a request with an old
  token are there at once. Each thread has one request, which may lead one refresh.
- *Buzz phase*: the reply comes one second after its root and the overlap is one, so either can fall out
  of the window first. The retry window, a late post and a round may each last 1 and Feishu remembers keys for
  3: the numbers meet the assumption `RetryWindow + MaxRound + MaxDelay <= KeyWindow` exactly. Two faults and
  a crash let a lost post, its retry and a failed phase, or a skipped reply and its passing, follow each
  other. buzz_history has no reply to a Feishu message (`OfFeishu`); there a parent is read once its root
  was adopted. buzz_skipped has one, whose parent is always read.
- *History*: the second holds as many rows as the largest page, so the read can be cut, halved, doubled
  and fail for density; smaller sets of rows are among the initial states.
- *Ingest*: one message shows up late by the whole overlap, pages have one row, two messages are drained a
  round, and the queue has room for two of three. `MaxTrouble` counts lost continuations, failed reads,
  refused or unanswered publications, kills and changes of scope together.

CHECK_DEADLOCK is off where time, requests or the lane's rows are bounded and the system may really come to
rest: all runs but slots and those of rounds.

## Fairness

- *Outlet* (`FairSpec`, `FairTurns`): the binding's worker keeps running slices, the clock runs, and a call that is
  waited for ends, because every HTTP call has a timeout. Publication is not fair: events may never come.
  Faults are bounded in number and in time, which stands for "eventually the network works".
- *RoundSlots*: the loop runs every ready task and rounds end, since their calls have timeouts. Nothing is
  assumed of promotion, entry or cancellation.
- *Scheduler*: the clock runs and a waiting thread wakes at least every 0.25 s. A request in flight may
  hang for ever: there is no fairness on `Complete`.
- *HostdRounds*: weak fairness of the loop's pieces, the thread and the timers, and of the service manager
  that restarts the process. Strong fairness of taking the binding lock, because `asyncio.Lock` hands it
  over first come, first served. Weak fairness of `Grant` is what `EventuallyAdmitted` of RoundSlots shows.
  Nothing is assumed of marks, operations, crashes or the backfill's timeout.
- *AgentRestart*: the loop and its threads go on (`Work`), hostd exits once it is closing, and the service
  manager starts it again (within the bound on lives; `LastStop` in the properties is the end of the
  bound). Nothing is assumed of systemd carrying out an order, of deadlines or of readbacks.
- *HttpPool*: every exchange ends, because sockets have timeouts, and threads go on. Deadlines are not
  fair: `RequestsEnd` says that followers and sleepers are woken without them.
- *RelayHistory*: the relay answers or the read fails. Nothing is assumed of what it shows.
- *BuzzPhase*: rounds go on and the clock runs (to its bound). Faults and crashes are bounded in number.
- *FeishuIngest*: rounds go on; strong fairness of time between rounds, because a round ends and the timer
  that starts the next one leaves room for the clock and for leases to run out. Within a round time stands
  still. Faults are bounded in number.

In the runs with two parts one weak-fairness formula stands for an action of each part: a behaviour takes
one part, the other's action is never enabled in it, so the formula means for each part what its own
specification (`RestartSpec`, `PoolSpec`, `BuzzSpec`, `HistorySpec`, `SlotsFairSpec`) says.

## Findings

1. **A retry is dropped by a round of another phase** (rounds_retry, `RetryKept`, `__main__.py:696`). The
   retry phases of a binding share one task. A round of ordinary phases that has nothing to retry cancels
   the task with all its phases, also those an earlier round of a different phase had left. A Feishu source
   waiting for its lease then waits until another event or tick marks the phase.
   `src/buzz-agent-setup/references/hostd-feishu-ingest.md:29` says that deferred sources use their leases.
2. **A timed-out backfill skips the retry it announces** (rounds_timeout, `FailedIsRequeued`,
   `__main__.py:723`). The handler of a failed round reports that it has been queued for retry, then awaits
   the ledger, then schedules the retry. If the backfill is cancelled during the await, the retry is never
   scheduled, and the phases the round had taken from the feeds are neither dirty nor waiting.
3. **A skipped reply is not resolved again** (buzz_skipped, `SkippedIsReread`,
   `buzz_feishu_group_sync.py:5384`). A reply whose parent cannot be read is skipped; the comment says
   "resolve again next round". The code keeps no mark and no entry in `unresolved` for it. When the parent has
   disappeared or its projection is inconsistent, the phase counts as complete and its cursor becomes the
   round's time, so a reply that is already older than the overlap (read after a pause or a row of failed
   phases, say) is outside every later read. `NothingMissed` and `MessageSettled` therefore leave out exactly
   the replies in `passed`.

Two more observations are hazards without a property, because the code and its documents promise nothing
there: a card update whose answer was lost may land after a newer edit, and a notice that stays dirty over
a pause is looked at again only when some phase is marked. A third is worth knowing for an operator: after a
round that ends in conflict while a pause waits for it, the fence stays "stopping" and neither pause nor
resume are accepted until the status changes, a restart or a readback. `PauseEnds` makes no claim for that
status.

## Proofs

TLAPS checks these for every value of the constants that meets the assumption named in the module
(`LedgerAssumption`, `OutletAssumption`, `SlotsAssumption`, `SchedulerAssumption`, `RoundsAssumption`,
`HistoryAssumption`, `BuzzAssumption`, `IngestAssumption`, `PoolAssumption`, `RestartAssumption`); TLC
evaluates the same assumptions on every run. Apart from types they say little. Four are worth reading. Three
say how windows fit together: the retry window and the longest duration of an attempt fit into the time for
which Feishu remembers keys (`RetryWindow + Margin <= DedupWindow`, `RetryWindow + MaxRound + MaxDelay <=
KeyWindow`), and the relay shows an event no later than the overlap of two reads (`Lateness <= Overlap`;
`Lag` in the ingest). The fourth is that the agent puts each emoji on a message once (`Emoji`), see the
limits.
The safety theorems are stated of the specifications the runs use, or of their safety part.

Every invariant a passing run checks, and every one of its action properties, is a theorem.

**DeliveryLedgerProofs.** `LedgerTyped` is inductive as it stands. `ReceiptAgrees` and `SealedTarget` are
not: a row that lost its target would let a second acknowledgement name another. `LedgerInv` adds, per
source, that a row that does not exist has no target and no receipt, and that sources without an outlet
never have a receipt (`Sound`). `ReceiptsAgree`, `SealsHold` and so `LedgersAreSafe` follow.
`CursorIsHeldBack` and `AcksAreFinal` are action properties; each operation is a case, and the lemmas on
`AdvanceTo` say what a cursor move is allowed to do.

**OutletDeliveryProofs.** `OutletInv` is the largest invariant of the project. Its parts are kept apart
because most actions touch few of them, and each has a lemma for its step:

- `EventOK`, of one event: its row, its receipt and its copies in Feishu agree. An acknowledged message or
  reaction is there; a copy of a message is not older than its row; a reply's copy has its parent's beside it.
- `WireOK`, of one request that may still take effect: it ends before Feishu forgets its key, its parent is
  there, and a reaction on its way is the only one of its source and has had no effect.
- `StackOK` and `StepOK`, of the nested calls: each frame is for what its caller refers to and has not
  outlived `Margin`; at each `pc` the innermost call has what it needs, so a request that leaves meets `WireOK`.
- `CoverOK`, of an event the outlet owes: it is in the work queue, or the cursor is at most `Overlap` past
  it. The second half has to be protected while a slice runs: whatever the slice has not taken is within
  `Overlap` of everything that is in its snapshot or acknowledged, so no acknowledgement moves the cursor past it.
- `CardOK`: without late landings an edit that is being sent is newer than what the card shows, because
  the latest edit is chosen when its row is reserved and all its rivals are finished or still to come.

- `TurnInv`, of OutletTurns: no head was passed over more often than the outlet's counter of turns says, and
  that stays within `AgingTurns`. The counter starts again only where the oldest head is chosen
  (`OldestChosen`), and then no head is passed over: `OldHeadsHaveTheirTurn`.

From these: `OutletIsSafe` (types, at most once), `AcksAreReal`, `RepliesFollowParents`, `NothingIsLost`
(finished events stay finished, `FinishedStays`). `EditsNeverRegress` assumes `LateLanding = FALSE`, as its
run does: with late landings it is false, which is the hazard at `outlet.py:372`. `PromiseIsKept` is the
refinement of SourceDelivery: the initial fates are open, and a step of the outlet moves the fate of at most
one event, along one of SourceDelivery's actions.

**RoundSlotsProofs.** The operations hand a record of the slots to the dispatch loop, so the invariant is
stated of such a record: `Good` (types, the active set and the queue are the tickets that hold and wait,
caps, the streak) and `NoIdle` (a waiting ticket cannot be admitted). `TurnIsGood` is one turn of the loop.
The loop is a recursive function of the number of turns; `DispatchIsGood` goes by the least turn after which
it would fail, and `Capacity` turns are enough because each fills a slot or changes nothing. What an
operation hands over is good although slots may be idle then; the loop ends where no turn can admit another
ticket, which is `NoIdle`. `SlotsAreSafe`, `NoSlotIsIdle` and `OvertakingIsBounded` follow.

**SchedulerProofs.** `LanesAreExclusive`: a lane's owner is a running call and a running call owns its lane
(`LaneInv`). `BackfillIsBounded`: the history `overtaken` equals the code's `normal_streak`, which a contested
normal start only raises below the limit (`BurstInv`). `CeilingsHold`: charging a start appends to an
ordered log whose `Limit`-th last entry is at least a window old, so every window of the longer log still
holds at most `Limit` (`ChargeKeepsCeiling`, `RateInv`). `SchedulersAreSafe` adds the types: the queue holds
each waiting call once (`QueueOK`), and tokens stay within a bucket through refills and charges
(`BudgetOK`). `LanesAreFifo`: what makes a call eligible makes all older ones of its lane and priority so.

**HostdRoundsProofs.** `RoundsTyped` carries the structure the others need: who holds the lock runs the
round, and a notice round is alone. `DrainedPausesAreQuiet` needs `QuietInv`: under a drained fence the
binding is paused and without a round, a worker about to take work has seen the pause, and a process that is
down runs nothing and asks nothing; `RoundsAreSafe` joins the two. `MarksAreKept` needs `OwedInv`: a mark
not yet dispatched is dirty, or held by the one round that has not started its thread. `WakeupsAreKept`
needs `WakeInv`: a worker that has seen a pause still has one, the round of an operation runs all ordinary
phases, and while one of them runs, or nobody holds the lock and nothing is paused, whatever is marked has
come with a wake-up or has a retry. Each invariant's step has one case per action.

**BindingProofs**, a binding's two histories and the phases that read them.

- *The relay's history.* `ReadsAreWhole` needs `CoverInv`: of the rows served throughout, those above `high`
  are read, and while a second is being read, those newer than it are on the full page that it was cut from.
  `FailuresHaveCauses` needs `CalmInv`: in a read that nothing has disturbed, the page whose oldest second is
  being read is still what the relay shows, and the next limit is larger than the last one at which that
  second was full; then only a second as large as the largest page makes it fail. `HistoriesAreSafe` joins both.
- *The buzz phase.* `BuzzInv`: what is saved is truthful (`DiskOK`: a sent event is in Feishu, the root of one
  that was tried is) and covers every event the relay may still show; the round's state is ahead of the disk,
  so a failed phase or a crash takes no outcome back (`Ahead`); the round visits or keeps every wanted event
  (`RoundOK`), but for those it skipped or the cursor has passed; and of the ages of copies and posts in the
  air (`CopiesOK`). No listing shows a reply, so its single copy rests on the windows: it is posted again only
  within `RetryWindow` of its first attempt, in a round of `MaxRound`, and lands within `MaxDelay`. With
  `RetryWindow + MaxRound + MaxDelay <= KeyWindow` its key is then still known, which is `OneCopy`;
  `BuzzIsSafe` and `NoEventIsMissed` follow. Events of one second may come in any order.
- *The Feishu phase.* `IngestInv`: the rows agree with the order of their leases and with the batch
  (`QueueOK`); words that wait have a row, and while it is pending the running round knows of them
  (`WaitOK`); every event ever sent is the one its delivery is sealed with, and the one on its way was
  decided under a lease (`SealOK`); a done row is decided, and mark and seal keep the first attempt's time
  (`MarkOK`); an unread message is in the rest of the scan or after the start of the next (`ReadOK`).
  `IngestIsSafe`, `NothingIsUnread` and the action property `WordsComeBeforeCalls` follow.

**ConsolePoolProofs**, the restarts and the pool of the run console_pool.

- *HTTP pool.* `RefreshesAreSingle`: a flight has a leader and only one (`FlightInv`).
  `ConnectionsAreAccounted`: the count of connections in use is the number of threads that hold one
  (`ConnInv`, over cardinalities of finite sets). `GoodTokensAreKept`: whatever a leader, a follower or a
  request has in hand is the app's token or was spent, and a refresh begins only over a spent token
  (`TokenInv`). `PoolIsSafe` adds the bounds (`BoundsInv`).
- *Restarts.* Four invariants on each other: `Shape` (types), `JobInv` (a thread works only for a job that
  waits for it, an operation is untouched until it is claimed, and a process that is down has no jobs),
  `OrderInv` (whoever may order has its row linked and unknown, and that row is the agent's only active one)
  and `PinInv` (what was seen, pinned and reported came after the claim). From them `OrdersAreSingle`,
  `CompletionsAreOwn`, `RestartsDoNotOverlap`, `ReportsAreLast` and `StatusesGoForward`; `RestartsAreSafe`
  adds the unique index over open operations, `RestartsGoInOrder` joins the steps.

**DataLemmas** holds what several of them need: the least number with a property, greatest and least
members of finite sets of numbers, and queues without repetition after an append or a removal.

Only model-checked: what holds under fairness (`EventuallyDelivered`, `EventuallyLatestEdit`,
`QueuedIsAdmitted`, `EventuallyAnswered`, `FenceMovesOn`, `EventuallyTaken`, `RestartAnswered`,
`RequestsEnd`, `ReadEnds`, `MessageSettled`, `IngestSettled`), and the three counterexamples. Liveness under
fairness and ENABLED are outside the prover's reach. So are the library's induction theorems, which take an
operator as a parameter; over the naturals a least counterexample serves instead, and over finite sets the
greatest member. The provers see nothing of an operator that the library defines by local recursion over an
operator (`SortSeq`, `SelectSeq`): the models use `RemoveFirst` and a choice of the increasing
enumeration (`Ordered` in FeishuIngest) where they are proved about.

## What is not modelled

- *Outlet*: images, rows of the older `outlet_pending` format, retained reaction hints, references to other
  authors' messages, formats of updates. The status `waiting_receipt` is set by no modelled operation.
  outlet_turns assumes that a card update that timed out does not land later (see the findings). A readback
  knows a reaction by message, emoji and app (`outlet.py:454-460`): two of the agent's with one emoji on one
  message may acknowledge each other. The assumption on `Emoji` leaves that case out.
- *Rounds*: supervision of components, graceful shutdown, failing ledger calls, selection of threads and
  hints, the rows of console operations (a pause is complete when its fence is drained, in one
  transaction), a second pause while one is stopping (refused without effect), a cancellation of a running
  round, which the shield absorbs.
- *Slots and scheduler*: the refusal of a nested `run` on one thread (no caller nests).
- *Restarts*: pause, resume and backfill of the same coordinator are in HostdRounds; the check of the
  agent's files is part of its scope, pid, start time and invocation are one incarnation, and the reasons
  recorded with an operation are left out. A restart row of an own-home admission is an input.
- *HTTP pool*: request validation, response parsing and sizes; they appear as outcomes of an exchange.
- *History*: the budgets of queries, bytes, events and seconds, transport errors and malformed answers are
  one action that aborts the read.
- *Buzz phase*: edits and reactions (the outlet has theirs), images, the fallback from cards to text,
  pruning of settled state, the skips of what is not routed, the members phase, and adoptions by the other
  phases, which may settle an event in between.
- *Ingest*: polling of threads, images, the skips of messages that are not a human's or not routed, hashes
  of the scope and validation of pages. A message that is given up after its last attempt needs more faults
  than the run has. A kill between two messages of a batch is a batch that was cut short; a lease is some
  finite time.
- Whole components: see the table above and the notes in PROJECT.json.

## Plan

Done: ledger, outlet with its abstract specification, admission, scheduler, rounds of a binding, restarts at
the console, the HTTP pool, interval reads, the buzz phase and the ingest.

Next, in this order:

1. `DeliveryNotices`: one notice per failure, edited on recovery, unknown outcomes.
2. `OwnAdmission`, and one module for the ledgers of the same pattern (approvals, fallback, join effects,
   remote grants): an unknown effect is only read back. It would take the place of AgentRestart's `foreign`.
3. `HarnessFailover`: the switch with rollback, nudges and notifications of `src/harness-failover`; the
   agent recovery controller.
4. The members phase and the outlets inside a round, as one composition of BuzzPhase and OutletDelivery.

With each new module come its theorems, and for the composition of 4 a proof that BuzzPhase's use of the
ledger implements DeliveryLedger's operations.
