---------------------------- MODULE DeliveryLedger ----------------------------
(***************************************************************************)
(* The delivery ledger of hostd (scripts/hostd/store.py, tables delivery,  *)
(* outlet_receipt and cursor): one lane, i.e. the rows of one binding, one *)
(* agent and one stream, with the lane's replay cursor.                    *)
(*                                                                         *)
(* Every public operation of the store runs in one SQLite transaction, so  *)
(* every operation is one action; a StoreError rolls the transaction back, *)
(* so the conditions that raise it are guards.                             *)
(***************************************************************************)
EXTENDS Integers

CONSTANTS
    Sources,     \* source ids of the lane
    Targets,     \* receipts: the message or event a delivery ended up as
    Contents,    \* content commitments of the directions that are not pinned
    Pinned,      \* the sources of direction f2b: their content IS their target
    Outlet,      \* the sources an agent outlet delivers, acked with a receipt
    Overlap,     \* OVERLAP, the replay margin in seconds (store.py:18)
    MaxTime,     \* bound: time stamps range over 0..MaxTime
    NoTarget,    \* target_id IS NULL, and "no outlet receipt"
    NoContent    \* content_hash = ''

Times    == 0 .. MaxTime
NoCursor == -1                  \* no cursor row for the lane yet
Unsettled == {"pending", "failed", "unknown"}
Settled   == {"acked", "skipped", "removed", "abandoned"}
Statuses  == Unsettled \cup Settled \cup {"absent"}

Row == [status  : Statuses,
        target  : Targets \cup {NoTarget},
        content : Contents \cup Targets \cup {NoContent},
        at      : Times,          \* source_at
        created : Times]          \* created_at

ASSUME LedgerAssumption ==
    /\ MaxTime \in Nat
    /\ Overlap \in Nat
    /\ Pinned \subseteq Sources
    /\ Outlet \subseteq Sources \ Pinned
    /\ NoTarget \notin Targets
    /\ NoContent \notin Contents \cup Targets

VARIABLES
    row,        \* the delivery row of each source
    receipt,    \* the outlet_receipt row of each source
    cursor      \* the lane's cursor position, or NoCursor

ledgerVars == <<row, receipt, cursor>>

NoRow == [status |-> "absent", target |-> NoTarget, content |-> NoContent,
          at |-> 0, created |-> 0]

-----------------------------------------------------------------------------
(* Reading the ledger. *)

Acked(r) == {s \in Sources : r[s].status = "acked"}
Open(r)  == {s \in Sources : r[s].status \in Unsettled}

Before(t) == IF t = 0 THEN 0 ELSE t - 1        \* max(0, t - 1)

\* p is the lane's max(source_at) over acked rows, or 0.
IsNewestAck(r, p) ==
    /\ \A s \in Acked(r) : r[s].at <= p
    /\ p = 0 \/ \E s \in Acked(r) : r[s].at = p

\* Mutant of IsHeldBack: the cursor follows the newest acknowledgement.
NotHeldBack(r, p, q) == q = p

\* q is p held back to just before the oldest unsettled row.
IsHeldBack(r, p, q) ==
    /\ q <= p
    /\ \A s \in Open(r) : q <= Before(r[s].at)
    /\ q = p \/ \E s \in Open(r) : q = Before(r[s].at)

\* _advance_cursor: the upsert keeps the larger of the old and new position.
AdvanceTo(r, p) ==
    \E q \in Times : /\ IsHeldBack(r, p, q)
                     /\ cursor' = IF q > cursor THEN q ELSE cursor

AdvanceOnAck(r) == \E p \in Times : IsNewestAck(r, p) /\ AdvanceTo(r, p)

\* t is at or after replay_since: the next read of the lane covers it.
Replays(t) ==
    \/ cursor = NoCursor
    \/ cursor - Overlap <= t
    \/ \E s \in Open(row) : row[s].at - Overlap <= t

HasReplayState == cursor # NoCursor \/ Open(row) # {}

-----------------------------------------------------------------------------
(* The operations. *)

\* INSERT OR IGNORE of a pending row, then the checks on the row found.
ReservedRow(r, s, c, t, n) ==
    IF r[s].status = "absent"
    THEN [r EXCEPT ![s] = [status |-> "pending", target |-> NoTarget,
                           content |-> c, at |-> t, created |-> n]]
    ELSE [r EXCEPT ![s].at = IF @ = 0 THEN t ELSE @]

CanReserve(r, s, c) ==
    r[s].status = "absent" \/ c = NoContent \/ r[s].content = c

Reserve(s, c, t, n) ==
    /\ CanReserve(row, s, c)
    /\ row' = ReservedRow(row, s, c, t, n)
    /\ UNCHANGED <<receipt, cursor>>

AckedRow(r, s, g) == [r EXCEPT ![s].status = "acked", ![s].target = g]

CanAck(r, s, g) ==
    /\ r[s].status # "absent"
    /\ r[s].status = "acked" => r[s].target = g
    /\ (s \in Pinned /\ r[s].content # NoContent) => r[s].content = g

Ack(s, g, advance) ==
    /\ CanAck(row, s, g)
    /\ row' = AckedRow(row, s, g)
    /\ IF advance THEN AdvanceOnAck(row') ELSE UNCHANGED cursor
    /\ UNCHANGED receipt

\* Mutant of AckOutlet: an existing receipt is kept but not compared.
AckOutletUnchecked(s, g, advance) ==
    /\ s \in Outlet
    /\ receipt' = [receipt EXCEPT ![s] = IF @ = NoTarget THEN g ELSE @]
    /\ CanAck(row, s, g)
    /\ row' = AckedRow(row, s, g)
    /\ IF advance THEN AdvanceOnAck(row') ELSE UNCHANGED cursor

\* ack_outlet_delivery: the receipt row is written once and must agree.
AckOutlet(s, g, advance) ==
    /\ s \in Outlet
    /\ receipt[s] \in {NoTarget, g}
    /\ receipt' = [receipt EXCEPT ![s] = g]
    /\ CanAck(row, s, g)
    /\ row' = AckedRow(row, s, g)
    /\ IF advance THEN AdvanceOnAck(row') ELSE UNCHANGED cursor

\* Mutants of FailedRow: an acknowledged row can fail; an unknown outcome is
\* recorded as a definite failure; a definite failure as unknown.
FailedAnyRow(r, s, unknown) ==
    IF r[s].status = "absent" THEN r
    ELSE [r EXCEPT ![s].status = IF unknown THEN "unknown" ELSE "failed"]

FailedForSure(r, s, unknown) ==
    IF r[s].status \in {"absent", "acked"} THEN r ELSE [r EXCEPT ![s].status = "failed"]

NeverFailedForSure(r, s, unknown) ==
    IF r[s].status \in {"absent", "acked"} THEN r ELSE [r EXCEPT ![s].status = "unknown"]

FailedRow(r, s, unknown) ==
    IF r[s].status \in {"absent", "acked"} THEN r
    ELSE [r EXCEPT ![s].status = IF unknown THEN "unknown" ELSE "failed"]

Fail(s, unknown) ==
    /\ row' = FailedRow(row, s, unknown)
    /\ UNCHANGED <<receipt, cursor>>

RetriedRow(r, s) ==
    IF r[s].status = "failed" THEN [r EXCEPT ![s].status = "pending"] ELSE r

Retry(s) ==
    /\ row' = RetriedRow(row, s)
    /\ UNCHANGED <<receipt, cursor>>

Seal(s, e) ==
    /\ s \in Pinned
    /\ row[s].status # "absent"
    /\ row[s].content \in {NoContent, e}
    /\ row[s].target \in {NoTarget, e}
    /\ row' = [row EXCEPT ![s].content = e]
    /\ UNCHANGED <<receipt, cursor>>

CanSettle(r, s, outcome) == outcome = "removed" \/ r[s].status # "acked"

SettledRow(r, s, outcome) ==
    IF r[s].status = "absent" THEN r ELSE [r EXCEPT ![s].status = outcome]

Settle(s, outcome) ==
    /\ CanSettle(row, s, outcome)
    /\ row' = SettledRow(row, s, outcome)
    /\ UNCHANGED <<receipt, cursor>>

\* StateAdapter._save commits a phase's cursor position as a candidate.
SaveCursor(p) ==
    /\ AdvanceTo(row, p)
    /\ UNCHANGED <<row, receipt>>

-----------------------------------------------------------------------------
LedgerInit ==
    /\ row = [s \in Sources |-> NoRow]
    /\ receipt = [s \in Sources |-> NoTarget]
    /\ cursor = NoCursor

\* The callers of the store in any order. Outlet rows are acknowledged with
\* their receipt only (outlet.py); pinned rows are reserved without a content
\* and sealed before they are published (delivery_mapping.py:784-788).
LedgerNext ==
    \E s \in Sources :
        \/ \E c \in Contents, t \in Times : s \notin Pinned /\ Reserve(s, c, t, t)
        \/ \E t \in Times : Reserve(s, NoContent, t, t)
        \/ \E g \in Targets, advance \in BOOLEAN : s \notin Outlet /\ Ack(s, g, advance)
        \/ \E g \in Targets, advance \in BOOLEAN : AckOutlet(s, g, advance)
        \/ \E unknown \in BOOLEAN : Fail(s, unknown)
        \/ Retry(s)
        \/ \E e \in Targets : Seal(s, e)
        \/ \E outcome \in {"skipped", "removed", "abandoned"} : Settle(s, outcome)
        \/ \E p \in Times : SaveCursor(p)

LedgerSpec == LedgerInit /\ [][LedgerNext]_ledgerVars

-----------------------------------------------------------------------------
(* Properties. *)

LedgerTypeOK ==
    /\ row \in [Sources -> Row]
    /\ receipt \in [Sources -> Targets \cup {NoTarget}]
    /\ cursor \in Times \cup {NoCursor}

\* A receipt names the target of its row for as long as the row lives,
\* through failures, removals and repeated acknowledgements: an outlet can
\* withdraw exactly what it delivered (store.py ack_outlet_delivery).
ReceiptAgrees ==
    \A s \in Sources : receipt[s] # NoTarget => row[s].target = receipt[s]

\* A sealed f2b row that names a target names the event it was sealed with:
\* an edited source can never turn into a second event
\* (store.py seal_delivery_content, ack_delivery).
SealedTarget ==
    \A s \in Pinned : row[s].content # NoContent /\ row[s].target # NoTarget
                          => row[s].target = row[s].content

\* Rows, receipts and seals name the same event (store.py).
LedgerSafe == LedgerTypeOK /\ ReceiptAgrees /\ SealedTarget

\* Whenever the cursor moves it stays strictly before every unsettled source
\* of the lane (or at 0): no acknowledgement and no committed phase moves the
\* replay boundary past work that is still open (store.py _advance_cursor).
CursorHeldBack ==
    [][cursor' # cursor =>
         /\ cursor' > cursor
         /\ \A s \in Open(row') : cursor' <= Before(row'[s].at)]_ledgerVars

\* An acknowledged delivery keeps its target and leaves the acknowledged state
\* only by removal (store.py ack_delivery, fail_delivery, settle_delivery).
AckIsFinal ==
    [][\A s \in Sources : row[s].status = "acked" =>
         /\ row'[s].status \in {"acked", "removed"}
         /\ row'[s].target = row[s].target]_ledgerVars
=============================================================================
