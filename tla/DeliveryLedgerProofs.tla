-------------------------- MODULE DeliveryLedgerProofs --------------------------
(***************************************************************************)
(* The delivery ledger, proved for every set of sources and targets: its   *)
(* types, the agreement of rows and receipts, the sealing of f2b rows, and *)
(* what no operation may do to the cursor and to an acknowledged row.      *)
(***************************************************************************)
EXTENDS DeliveryLedger, TLAPS

-----------------------------------------------------------------------------
(* Types. *)

\* Time stamps are natural numbers, with 0 among them.
LEMMA TimesAreNat == Times \subseteq Nat /\ 0 \in Times
  BY LedgerAssumption DEF LedgerAssumption, Times

\* The absent row is a row.
LEMMA NoRowType == NoRow \in Row
  BY TimesAreNat DEF NoRow, Row, Statuses

\* Each operation on rows yields rows.
LEMMA ReservedType ==
    ASSUME NEW r \in [Sources -> Row], NEW s \in Sources,
           NEW c \in Contents \cup {NoContent}, NEW t \in Times, NEW n \in Times
    PROVE  ReservedRow(r, s, c, t, n) \in [Sources -> Row]
  <1>1. CASE r[s].status = "absent"
    BY <1>1 DEF ReservedRow, Row, Statuses, Unsettled
  <1>2. CASE r[s].status # "absent"
    BY <1>2 DEF ReservedRow, Row
  <1> QED
    BY <1>1, <1>2

\* An acknowledged row is a row.
LEMMA AckedType ==
    ASSUME NEW r \in [Sources -> Row], NEW s \in Sources, NEW g \in Targets
    PROVE  AckedRow(r, s, g) \in [Sources -> Row]
  BY DEF AckedRow, Row, Statuses, Settled

\* A failed or unknown row is a row.
LEMMA FailedType ==
    ASSUME NEW r \in [Sources -> Row], NEW s \in Sources, NEW u \in BOOLEAN
    PROVE  FailedRow(r, s, u) \in [Sources -> Row]
  BY DEF FailedRow, Row, Statuses, Unsettled

\* A row put back to pending is a row.
LEMMA RetriedType ==
    ASSUME NEW r \in [Sources -> Row], NEW s \in Sources
    PROVE  RetriedRow(r, s) \in [Sources -> Row]
  BY DEF RetriedRow, Row, Statuses, Unsettled

\* A settled row is a row.
LEMMA SettledType ==
    ASSUME NEW r \in [Sources -> Row], NEW s \in Sources,
           NEW o \in {"skipped", "removed", "abandoned"}
    PROVE  SettledRow(r, s, o) \in [Sources -> Row]
  BY DEF SettledRow, Row, Statuses, Settled

\* The cursor keeps its type and, if it moves, ends before every open row.
LEMMA AdvanceKeeps ==
    ASSUME NEW r, NEW p, cursor \in Times \cup {NoCursor}, AdvanceTo(r, p)
    PROVE  /\ cursor' \in Times \cup {NoCursor}
           /\ cursor' # cursor =>
                /\ cursor' > cursor
                /\ \A s \in Open(r) : cursor' <= Before(r[s].at)
  <1>1. PICK q \in Times : /\ IsHeldBack(r, p, q)
                           /\ cursor' = IF q > cursor THEN q ELSE cursor
    BY DEF AdvanceTo
  <1> QED
    BY <1>1, TimesAreNat DEF IsHeldBack, NoCursor

\* The same of an acknowledgement, which advances to its newest row.
LEMMA AckAdvanceKeeps ==
    ASSUME NEW r, cursor \in Times \cup {NoCursor}, AdvanceOnAck(r)
    PROVE  /\ cursor' \in Times \cup {NoCursor}
           /\ cursor' # cursor =>
                /\ cursor' > cursor
                /\ \A s \in Open(r) : cursor' <= Before(r[s].at)
  <1>1. PICK p \in Times : AdvanceTo(r, p)
    BY DEF AdvanceOnAck
  <1> QED
    BY <1>1, AdvanceKeeps

\* Every operation of the store, with what it may be called with.
LEMMA StepCases ==
    ASSUME LedgerNext
    PROVE  \E s \in Sources :
             \/ \E c \in Contents \cup {NoContent}, t \in Times :
                  (s \in Pinned => c = NoContent) /\ Reserve(s, c, t, t)
             \/ \E g \in Targets, a \in BOOLEAN : s \notin Outlet /\ Ack(s, g, a)
             \/ \E g \in Targets, a \in BOOLEAN : AckOutlet(s, g, a)
             \/ \E u \in BOOLEAN : Fail(s, u)
             \/ Retry(s)
             \/ \E e \in Targets : Seal(s, e)
             \/ \E o \in {"skipped", "removed", "abandoned"} : Settle(s, o)
             \/ \E p \in Times : SaveCursor(p)
  BY Zenon DEF LedgerNext

\* Every operation of the store keeps the types (store.py:2722-2818).
LEMMA TypeStep == LedgerTypeOK /\ [LedgerNext]_ledgerVars => LedgerTypeOK'
  <1> SUFFICES ASSUME LedgerTypeOK, [LedgerNext]_ledgerVars PROVE LedgerTypeOK'
    OBVIOUS
  <1> USE DEF LedgerTypeOK
  <1>1. ASSUME LedgerNext PROVE LedgerTypeOK'
    <2>0. PICK s \in Sources :
             \/ \E c \in Contents \cup {NoContent}, t \in Times :
                  (s \in Pinned => c = NoContent) /\ Reserve(s, c, t, t)
             \/ \E g \in Targets, a \in BOOLEAN : s \notin Outlet /\ Ack(s, g, a)
             \/ \E g \in Targets, a \in BOOLEAN : AckOutlet(s, g, a)
             \/ \E u \in BOOLEAN : Fail(s, u)
             \/ Retry(s)
             \/ \E e \in Targets : Seal(s, e)
             \/ \E o \in {"skipped", "removed", "abandoned"} : Settle(s, o)
             \/ \E p \in Times : SaveCursor(p)
      BY <1>1, StepCases
    <2>1. ASSUME NEW c \in Contents \cup {NoContent}, NEW t \in Times, Reserve(s, c, t, t)
          PROVE  LedgerTypeOK'
      BY <2>1, ReservedType DEF Reserve
    <2>2. ASSUME NEW g \in Targets, NEW a \in BOOLEAN, Ack(s, g, a)
          PROVE  LedgerTypeOK'
      <3>1. row' \in [Sources -> Row] /\ receipt' = receipt
        BY <2>2, AckedType DEF Ack
      <3>2. cursor' \in Times \cup {NoCursor}
        BY <2>2, AckAdvanceKeeps DEF Ack
      <3> QED
        BY <3>1, <3>2
    <2>3. ASSUME NEW g \in Targets, NEW a \in BOOLEAN, AckOutlet(s, g, a)
          PROVE  LedgerTypeOK'
      <3>1. row' \in [Sources -> Row]
        BY <2>3, AckedType DEF AckOutlet
      <3>2. receipt' \in [Sources -> Targets \cup {NoTarget}]
        BY <2>3 DEF AckOutlet
      <3>3. cursor' \in Times \cup {NoCursor}
        BY <2>3, AckAdvanceKeeps DEF AckOutlet
      <3> QED
        BY <3>1, <3>2, <3>3
    <2>4. ASSUME NEW u \in BOOLEAN, Fail(s, u) PROVE LedgerTypeOK'
      BY <2>4, FailedType DEF Fail
    <2>5. ASSUME Retry(s) PROVE LedgerTypeOK'
      BY <2>5, RetriedType DEF Retry
    <2>6. ASSUME NEW e \in Targets, Seal(s, e) PROVE LedgerTypeOK'
      BY <2>6 DEF Seal, Row
    <2>7. ASSUME NEW o \in {"skipped", "removed", "abandoned"}, Settle(s, o)
          PROVE  LedgerTypeOK'
      BY <2>7, SettledType DEF Settle
    <2>8. ASSUME NEW p \in Times, SaveCursor(p) PROVE LedgerTypeOK'
      BY <2>8, AdvanceKeeps DEF SaveCursor
    <2> QED
      BY <2>0, <2>1, <2>2, <2>3, <2>4, <2>5, <2>6, <2>7, <2>8
  <1>2. CASE UNCHANGED ledgerVars
    BY <1>2 DEF ledgerVars
  <1> QED
    BY <1>1, <1>2

\* The rows, receipts and cursor keep their types.
THEOREM LedgerTyped == LedgerSpec => []LedgerTypeOK
  <1>1. LedgerInit => LedgerTypeOK
    BY NoRowType DEF LedgerInit, LedgerTypeOK
  <1> QED
    BY <1>1, TypeStep, PTL DEF LedgerSpec

-----------------------------------------------------------------------------
(* Rows and receipts. *)

\* What holds of each source by itself. ReceiptAgrees is not inductive alone:
\* a new row must start without a target, and a row that is not an outlet's,
\* which can be acknowledged without its receipt, must have none.
Sound(s) ==
    /\ row[s].status = "absent" => row[s].target = NoTarget /\ row[s].content = NoContent
    /\ receipt[s] # NoTarget => s \in Outlet /\ row[s].target = receipt[s]
    /\ (s \in Pinned /\ row[s].content # NoContent /\ row[s].target # NoTarget)
          => row[s].target = row[s].content

LedgerInv == LedgerTypeOK /\ \A s \in Sources : Sound(s)

\* A step that leaves the row and the receipt of a source alone.
LEMMA SoundKept ==
    ASSUME NEW u \in Sources, Sound(u), row'[u] = row[u], receipt'[u] = receipt[u]
    PROVE  Sound(u)'
  BY DEF Sound

\* A reservation starts without a target, or leaves target and content alone.
LEMMA ReserveSound ==
    ASSUME LedgerInv, NEW s \in Sources, NEW c \in Contents \cup {NoContent}, NEW t \in Times,
           s \in Pinned => c = NoContent, Reserve(s, c, t, t), NEW u \in Sources
    PROVE  Sound(u)'
  <1> USE LedgerAssumption DEF LedgerInv, LedgerTypeOK, LedgerAssumption
  <1>1. row \in [Sources -> Row] /\ receipt' = receipt /\ Sound(u) /\ Sound(s)
    BY DEF Reserve
  <1>2. CASE u # s
    <2>1. row'[u] = row[u]
      BY <1>1, <1>2 DEF Reserve, ReservedRow
    <2> QED
      BY <1>1, <2>1, SoundKept
  <1>3. CASE u = s /\ row[s].status = "absent"
    <2>1. row'[s] = [status |-> "pending", target |-> NoTarget, content |-> c,
                     at |-> t, created |-> t]
      BY <1>1, <1>3 DEF Reserve, ReservedRow
    <2>2. receipt'[s] = NoTarget
      BY <1>1, <1>3 DEF Sound
    <2> QED
      BY <1>3, <2>1, <2>2 DEF Sound
  <1>4. CASE u = s /\ row[s].status # "absent"
    <2>1. /\ row'[s].status = row[s].status
          /\ row'[s].target = row[s].target
          /\ row'[s].content = row[s].content
      BY <1>1, <1>4 DEF Reserve, ReservedRow, Row
    <2> QED
      BY <1>1, <1>4, <2>1 DEF Sound
  <1> QED
    BY <1>2, <1>3, <1>4

\* An acknowledgement without a receipt is of a source that has none.
LEMMA AckSound ==
    ASSUME LedgerInv, NEW s \in Sources, NEW g \in Targets, NEW a \in BOOLEAN,
           s \notin Outlet, Ack(s, g, a), NEW u \in Sources
    PROVE  Sound(u)'
  <1> USE LedgerAssumption DEF LedgerInv, LedgerTypeOK, LedgerAssumption
  <1>1. row \in [Sources -> Row] /\ receipt' = receipt /\ Sound(u) /\ Sound(s)
    BY DEF Ack
  <1>2. CASE u # s
    <2>1. row'[u] = row[u]
      BY <1>1, <1>2 DEF Ack, AckedRow
    <2> QED
      BY <1>1, <2>1, SoundKept
  <1>3. CASE u = s
    <2>1. row'[s].status = "acked" /\ row'[s].target = g /\ row'[s].content = row[s].content
      BY <1>1 DEF Ack, AckedRow, Row
    <2>2. receipt'[s] = NoTarget
      BY <1>1 DEF Sound
    <2>3. s \in Pinned /\ row[s].content # NoContent => row[s].content = g
      BY DEF Ack, CanAck
    <2> QED
      BY <1>3, <2>1, <2>2, <2>3 DEF Sound
  <1> QED
    BY <1>2, <1>3

\* The receipt and the row get the same target in one transaction.
LEMMA AckOutletSound ==
    ASSUME LedgerInv, NEW s \in Sources, NEW g \in Targets, NEW a \in BOOLEAN,
           AckOutlet(s, g, a), NEW u \in Sources
    PROVE  Sound(u)'
  <1> USE LedgerAssumption DEF LedgerInv, LedgerTypeOK, LedgerAssumption
  <1>1. /\ row \in [Sources -> Row]
        /\ receipt' = [receipt EXCEPT ![s] = g]
        /\ s \in Outlet /\ s \notin Pinned
        /\ Sound(u) /\ Sound(s)
    BY DEF AckOutlet
  <1>2. CASE u # s
    <2>1. row'[u] = row[u] /\ receipt'[u] = receipt[u]
      BY <1>1, <1>2 DEF AckOutlet, AckedRow
    <2> QED
      BY <1>1, <2>1, SoundKept
  <1>3. CASE u = s
    <2>1. row'[s].status = "acked" /\ row'[s].target = g /\ receipt'[s] = g
      BY <1>1 DEF AckOutlet, AckedRow, Row
    <2> QED
      BY <1>1, <1>3, <2>1 DEF Sound
  <1> QED
    BY <1>2, <1>3

\* Failing, retrying and settling change the status of a row that exists.
LEMMA StatusSound ==
    ASSUME LedgerInv, NEW s \in Sources,
           \/ \E v \in BOOLEAN : Fail(s, v)
           \/ Retry(s)
           \/ \E o \in {"skipped", "removed", "abandoned"} : Settle(s, o),
           NEW u \in Sources
    PROVE  Sound(u)'
  <1> USE DEF LedgerInv, LedgerTypeOK
  <1>1. row \in [Sources -> Row] /\ receipt' = receipt /\ Sound(u)
    BY DEF Fail, Retry, Settle
  <1>2. \/ row'[u] = row[u]
        \/ /\ row[u].status # "absent" /\ row'[u].status # "absent"
           /\ row'[u].target = row[u].target
           /\ row'[u].content = row[u].content
    BY <1>1 DEF Fail, FailedRow, Retry, RetriedRow, Settle, SettledRow, Row
  <1> QED
    BY <1>1, <1>2 DEF Sound

\* A seal is refused when the row names another target already.
LEMMA SealSound ==
    ASSUME LedgerInv, NEW s \in Sources, NEW e \in Targets, Seal(s, e), NEW u \in Sources
    PROVE  Sound(u)'
  <1> USE LedgerAssumption DEF LedgerInv, LedgerTypeOK, LedgerAssumption
  <1>1. row \in [Sources -> Row] /\ receipt' = receipt /\ Sound(u) /\ Sound(s)
    BY DEF Seal
  <1>2. CASE u # s
    <2>1. row'[u] = row[u]
      BY <1>1, <1>2 DEF Seal
    <2> QED
      BY <1>1, <2>1, SoundKept
  <1>3. CASE u = s
    <2>1. /\ row'[s].status = row[s].status /\ row[s].status # "absent"
          /\ row'[s].target = row[s].target
          /\ row'[s].content = e
          /\ row[s].target \in {NoTarget, e}
      BY <1>1 DEF Seal, Row
    <2> QED
      BY <1>1, <1>3, <2>1 DEF Sound
  <1> QED
    BY <1>2, <1>3

\* Every operation of the store keeps every row sound.
LEMMA InvStep == LedgerInv /\ [LedgerNext]_ledgerVars => LedgerInv'
  <1> SUFFICES ASSUME LedgerInv, [LedgerNext]_ledgerVars PROVE LedgerInv'
    OBVIOUS
  <1>1. LedgerTypeOK'
    BY TypeStep DEF LedgerInv
  <1>2. ASSUME NEW u \in Sources PROVE Sound(u)'
    <2>1. CASE UNCHANGED ledgerVars
      BY <2>1, SoundKept DEF ledgerVars, LedgerInv
    <2>2. ASSUME NEW s \in Sources, NEW p \in Times, SaveCursor(p) PROVE Sound(u)'
      BY <2>2, SoundKept DEF SaveCursor, LedgerInv
    <2>3. CASE LedgerNext
      BY <2>2, <2>3, StepCases, ReserveSound, AckSound, AckOutletSound, StatusSound, SealSound
    <2> QED
      BY <2>1, <2>3
  <1> QED
    BY <1>1, <1>2 DEF LedgerInv

\* The empty ledger is sound.
LEMMA InvInit == LedgerInit => LedgerInv
  BY NoRowType DEF LedgerInit, LedgerInv, LedgerTypeOK, Sound, NoRow

\* A receipt always names the target of its row, so what an outlet later
\* withdraws or edits is what it delivered.
THEOREM ReceiptsAgree == LedgerSpec => []ReceiptAgrees
  <1>1. LedgerInv => ReceiptAgrees
    BY DEF LedgerInv, Sound, ReceiptAgrees
  <1> QED
    BY <1>1, InvInit, InvStep, PTL DEF LedgerSpec

\* A sealed f2b row never names another event than the one it was sealed with.
THEOREM SealsHold == LedgerSpec => []SealedTarget
  <1>1. LedgerInv => SealedTarget
    BY LedgerAssumption DEF LedgerInv, Sound, SealedTarget, LedgerAssumption
  <1> QED
    BY <1>1, InvInit, InvStep, PTL DEF LedgerSpec

-----------------------------------------------------------------------------
(* What no operation may do. *)

CursorStep ==
    cursor' # cursor =>
        /\ cursor' > cursor
        /\ \A s \in Open(row') : cursor' <= Before(row'[s].at)

\* The cursor only moves forward, and never to or past open work: the replay
\* of the lane starts early enough for every row that is not settled.
THEOREM CursorIsHeldBack == LedgerSpec => CursorHeldBack
  <1>1. LedgerTypeOK /\ LedgerNext => CursorStep
    <2> SUFFICES ASSUME LedgerTypeOK, LedgerNext PROVE CursorStep
      OBVIOUS
    <2> USE DEF LedgerTypeOK, CursorStep
    <2>1. ASSUME NEW s \in Sources, NEW g \in Targets, NEW a \in BOOLEAN,
                 Ack(s, g, a) \/ AckOutlet(s, g, a)
          PROVE  CursorStep
      BY <2>1, AckAdvanceKeeps DEF Ack, AckOutlet
    <2>2. ASSUME NEW p \in Times, SaveCursor(p) PROVE CursorStep
      <3>1. row' = row /\ AdvanceTo(row, p)
        BY <2>2 DEF SaveCursor
      <3> QED
        BY <3>1, AdvanceKeeps
    <2>3. ASSUME UNCHANGED cursor PROVE CursorStep
      BY <2>3
    <2>4. \/ UNCHANGED cursor
          \/ \E s \in Sources, g \in Targets, a \in BOOLEAN : Ack(s, g, a) \/ AckOutlet(s, g, a)
          \/ \E p \in Times : SaveCursor(p)
      BY Zenon, StepCases DEF Reserve, Fail, Retry, Seal, Settle
    <2> QED
      BY <2>1, <2>2, <2>3, <2>4
  <1>2. LedgerTypeOK /\ [LedgerNext]_ledgerVars => [CursorStep]_ledgerVars
    BY <1>1
  <1> QED
    BY <1>2, LedgerTyped, PTL DEF LedgerSpec, CursorHeldBack, CursorStep

AckStep ==
    \A s \in Sources : row[s].status = "acked" =>
        /\ row'[s].status \in {"acked", "removed"}
        /\ row'[s].target = row[s].target

\* An acknowledgement is never taken back or redirected: not by a failure that
\* arrives late, a repeated acknowledgement, a skip or an abandonment.
THEOREM AcksAreFinal == LedgerSpec => AckIsFinal
  <1>1. LedgerTypeOK /\ LedgerNext => AckStep
    <2> SUFFICES ASSUME LedgerTypeOK, LedgerNext,
                        NEW u \in Sources, row[u].status = "acked"
                 PROVE  /\ row'[u].status \in {"acked", "removed"}
                        /\ row'[u].target = row[u].target
      BY DEF AckStep
    <2> USE DEF LedgerTypeOK
    <2>1. ASSUME NEW s \in Sources, NEW c \in Contents \cup {NoContent}, NEW t \in Times,
                 Reserve(s, c, t, t)
          PROVE  row'[u].status = "acked" /\ row'[u].target = row[u].target
      BY <2>1 DEF Reserve, ReservedRow, Row
    <2>2. ASSUME NEW s \in Sources, NEW g \in Targets, NEW a \in BOOLEAN,
                 Ack(s, g, a) \/ AckOutlet(s, g, a)
          PROVE  row'[u].status = "acked" /\ row'[u].target = row[u].target
      <3>1. CanAck(row, s, g) /\ row' = AckedRow(row, s, g)
        BY <2>2 DEF Ack, AckOutlet
      <3> QED
        BY <3>1 DEF CanAck, AckedRow, Row
    <2>3. ASSUME NEW s \in Sources, NEW o \in {"skipped", "removed", "abandoned"}, Settle(s, o)
          PROVE  row'[u].status \in {"acked", "removed"} /\ row'[u].target = row[u].target
      BY <2>3 DEF Settle, CanSettle, SettledRow, Row
    <2>4. ASSUME NEW s \in Sources,
                 \/ \E v \in BOOLEAN : Fail(s, v)
                 \/ Retry(s)
                 \/ \E e \in Targets : Seal(s, e)
                 \/ \E p \in Times : SaveCursor(p)
          PROVE  row'[u].status = "acked" /\ row'[u].target = row[u].target
      BY <2>4 DEF Fail, FailedRow, Retry, RetriedRow, Seal, SaveCursor, Row
    <2> QED
      BY <2>1, <2>2, <2>3, <2>4, StepCases
  <1>2. LedgerTypeOK /\ [LedgerNext]_ledgerVars => [AckStep]_ledgerVars
    BY <1>1
  <1> QED
    BY <1>2, LedgerTyped, PTL DEF LedgerSpec, AckIsFinal, AckStep

\* Rows, receipts and seals agree in every reachable state (store.py).
THEOREM LedgersAreSafe == LedgerSpec => []LedgerSafe
  BY LedgerTyped, ReceiptsAgree, SealsHold, PTL DEF LedgerSafe
=============================================================================
