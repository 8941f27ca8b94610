-------------------------- MODULE OutletDeliveryProofs --------------------------
(***************************************************************************)
(* The agent outlet, proved for every graph of events and every window:    *)
(* nothing is performed twice, an acknowledgement is real, a reply follows *)
(* its parent, no captured or uncaptured event is lost behind the cursor,  *)
(* an edit never goes back, an old head is not passed over without end, and *)
(* the whole keeps SourceDelivery's promise.                               *)
(***************************************************************************)
EXTENDS OutletTurns, DeliveryLedgerProofs, SequenceTheorems

-----------------------------------------------------------------------------
(* The invariant.  One part for each thing the attempt relies on. *)

\* The row, the receipt and the native effects of one event agree, whatever
\* was lost on the way to them.
RowOK(e) ==
    /\ row[e].status = "absent" => row[e] = NoRow /\ copies[e] = 0 /\ receipt[e] = NoTarget
    /\ row[e].status # "absent" =>
          /\ e \in relay
          /\ row[e].at = At[e]
          /\ row[e].created <= now
          /\ row[e].content \in {Own, Paired}
    /\ row[e].content = Paired => e \in React \cup Withdraw /\ row[e].status = "skipped"
    /\ row[e].status = "skipped" => e \notin Text
    /\ row[e].status \in {"removed", "abandoned", "unknown"} => e \in React \cup Withdraw
    /\ receipt[e] # NoTarget /\ e \in React => row[e].status \in {"acked", "removed"}
    /\ row[e].status = "acked" /\ e \notin Withdraw => copies[e] > 0

MessageOK(e) ==
    e \in Text =>
        /\ copies[e] <= 1
        /\ copies[e] > 0 => row[e].created <= firstAt[e]
        /\ copies[e] > 0 /\ Ref[e] # None => copies[Ref[e]] > 0

ReactionOK(e) ==
    /\ e \in React =>
          /\ copies[e] <= 1
          /\ copies[e] > 0 => row[e].status \in {"unknown", "acked", "removed"}
          /\ row[e].status = "removed" => copies[e] > 0 /\ ~ Visible(e)
    /\ e \in Withdraw /\ row[e].status = "acked" => row[Ref[e]].status = "removed"

EventOK(e) == RowOK(e) /\ MessageOK(e) /\ ReactionOK(e)

\* A request on its way to Feishu still has its key, its parent and, if it is
\* a reaction, no other effect.
WireOK(q) ==
    /\ now <= q.by
    /\ row[q.src].status # "absent"
    /\ q.src \in Text =>
          /\ q.by <= row[q.src].created + DedupWindow
          /\ Ref[q.src] # None => copies[Ref[q.src]] > 0
    /\ q.src \in React =>
          /\ copies[q.src] = 0
          /\ row[q.src].status = "unknown"
          /\ \A p \in wire : p.src = q.src => p = q
    /\ q.current => pc = "wait" /\ q.src = Top.src /\ q.by = Top.t0 + Margin

\* The calls of one attempt: each is for what its caller refers to, and none
\* has outlived Margin.
FrameOK(i) ==
    /\ stack[i].src \in relay
    /\ At[stack[i].src] <= At[stack[1].src]
    /\ stack[i].t0 <= now /\ now <= stack[i].t0 + Margin
    /\ stack[i].seen => stack[i].src \in Text /\ copies[stack[i].src] > 0
    /\ i > 1 => stack[i].src \in Text /\ stack[i].src = Ref[stack[i - 1].src]

StackOK ==
    /\ \A i \in 1 .. Len(stack) : FrameOK(i)
    /\ stack # <<>> => stack[1].src \in snap

\* What the innermost call has established when it stands at pc.
Grounds(e) ==
    IF e \in Withdraw THEN receipt[Ref[e]] # NoTarget
    ELSE Ref[e] # None => copies[Ref[e]] > 0

Sending(e) == IF e \in Text \cup Edit THEN "pending" ELSE "unknown"

StepOK ==
    /\ pc \in {"reserve", "mark", "call", "wait", "readback", "ack"} => Grounds(Top.src)
    /\ pc = "resolve" /\ Top.src \in Withdraw => Grounds(Top.src)
    /\ pc \in {"mark", "readback"} => Top.src \in React \cup Withdraw
    /\ pc = "mark" => row[Top.src].status = "pending"
    /\ pc \in {"readback"} => row[Top.src].status = "unknown"
    /\ pc \in {"call", "wait", "ack"} => row[Top.src].status = Sending(Top.src)
    /\ pc = "call" =>
          /\ Top.src \in Text => Top.t0 - row[Top.src].created <= RetryWindow
          /\ Top.src \in React => copies[Top.src] = 0 /\ \A q \in wire : q.src # Top.src
    /\ pc = "wait" => copies[Top.src] > 0 \/ \E q \in wire : q.current
    /\ pc = "ack" => IF Top.src \in Withdraw THEN ~ Visible(Ref[Top.src])
                     ELSE copies[Top.src] > 0
    /\ pc = "return" => \/ row[Top.src].status = "acked"
                        \/ Top.src \in Edit /\ (row[Top.src].status = "skipped"
                                                  \/ ~ LatestEdit(Top.src))

\* An event the relay shows and the outlet still owes.
Owed(e) == e \in relay /\ At[e] >= InitialSince /\ ~ Finished(e) /\ ~ Moot(e)

\* Nothing at a is more than the replay margin after t.
Within(a, t) == At[a] <= t + Overlap

\* What the slice has not taken is so new that no acknowledgement of this
\* slice can move the cursor past it.
Missed(e) == IF pc = "capture" THEN e \notin snap ELSE ~ work[e].held

CoverOK(e) ==
    Owed(e) =>
        /\ work[e].held \/ cursor <= At[e] + Overlap
        /\ pc # "idle" /\ Missed(e) =>
              \A a \in Sources : a \in snap \/ row[a].status = "acked" => Within(a, At[e])

TimeOK ==
    /\ cursor <= now
    /\ \A e \in relay : At[e] <= now
    /\ pc = "idle" => snap = {}

\* Cards show edits of their messages.  Without late landings, an edit that
\* is being sent is newer than what the card shows.
CardOK ==
    /\ \A m \in Text : card[m] # None => card[m] \in relay /\ Ref[card[m]] = m
    /\ LateLanding = FALSE =>
          /\ \A q \in wire : q.current
          /\ pc \in {"call", "wait"} /\ Top.src \in Edit =>
                card[Ref[Top.src]] \in {None, Top.src} \/ Newer(Top.src, card[Ref[Top.src]])

OutletInv ==
    /\ TypeOK
    /\ \A e \in Sources : EventOK(e) /\ CoverOK(e)
    /\ \A q \in wire : WireOK(q)
    /\ StackOK /\ StepOK /\ TimeOK /\ CardOK

-----------------------------------------------------------------------------
(* The graph of events and the calls of an attempt. *)

Frame == [src : Sources, t0 : Times, seen : BOOLEAN]

\* Every event is of one kind, and refers to what its kind may refer to.
LEMMA GraphFacts ==
    \A e \in Sources :
        /\ e \in Nat /\ e # None /\ At[e] \in Times /\ At[e] \in Nat
        /\ \/ e \in Text /\ e \notin Edit /\ e \notin React /\ e \notin Withdraw
           \/ e \notin Text /\ e \in Edit /\ e \notin React /\ e \notin Withdraw
           \/ e \notin Text /\ e \notin Edit /\ e \in React /\ e \notin Withdraw
           \/ e \notin Text /\ e \notin Edit /\ e \notin React /\ e \in Withdraw
        /\ e \notin Withdraw /\ Ref[e] # None => Ref[e] \in Text
        /\ e \in Edit \cup React \cup Withdraw => Ref[e] # None
        /\ e \in Withdraw => Ref[e] \in React
        /\ Ref[e] # None => Ref[e] \in Sources /\ At[Ref[e]] <= At[e]
  <1> SUFFICES ASSUME NEW e \in Sources
               PROVE  /\ e \in Nat /\ e # None /\ At[e] \in Times /\ At[e] \in Nat
                      /\ \/ e \in Text /\ e \notin Edit /\ e \notin React /\ e \notin Withdraw
                         \/ e \notin Text /\ e \in Edit /\ e \notin React /\ e \notin Withdraw
                         \/ e \notin Text /\ e \notin Edit /\ e \in React /\ e \notin Withdraw
                         \/ e \notin Text /\ e \notin Edit /\ e \notin React /\ e \in Withdraw
                      /\ e \notin Withdraw /\ Ref[e] # None => Ref[e] \in Text
                      /\ e \in Edit \cup React \cup Withdraw => Ref[e] # None
                      /\ e \in Withdraw => Ref[e] \in React
                      /\ Ref[e] # None => Ref[e] \in Sources /\ At[Ref[e]] <= At[e]
    OBVIOUS
  <1>1. /\ e \in Nat /\ e # None /\ At[e] \in Times
        /\ Kind[e] \in {"text", "edit", "react", "withdraw"}
        /\ Ref[e] \in Sources \cup {None}
        /\ Ref[e] = None => e \in Text
        /\ e \in Text \cup Edit \cup React => Ref[e] \in Text \cup {None}
        /\ e \in Withdraw => Ref[e] \in React
        /\ Ref[e] # None => At[Ref[e]] <= At[e]
        /\ None \notin Sources
    BY OutletAssumption DEF OutletAssumption
  <1>2. /\ e \in Text <=> Kind[e] = "text"
        /\ e \in Edit <=> Kind[e] = "edit"
        /\ e \in React <=> Kind[e] = "react"
        /\ e \in Withdraw <=> Kind[e] = "withdraw"
    BY DEF Text, Edit, React, Withdraw
  <1>3. React \subseteq Sources
    BY DEF React
  <1> QED
    BY <1>1, <1>2, <1>3, TimesAreNat

\* No two reactions of a message show the same, so the records of one are its
\* own.
LEMMA OwnRecord ==
    ASSUME NEW r \in React
    PROVE  OwnRecords(r) = IF Visible(r) THEN {r} ELSE {}
  <1>1. \A q \in React : Ref[q] = Ref[r] /\ Emoji[q] = Emoji[r] => q = r
    BY OutletAssumption DEF OutletAssumption
  <1> QED
    BY <1>1 DEF OwnRecords

\* The kinds are sets of events.
LEMMA KindSets ==
    /\ Text \subseteq Sources /\ Edit \subseteq Sources
    /\ React \subseteq Sources /\ Withdraw \subseteq Sources
  BY DEF Text, Edit, React, Withdraw

\* What the constants are.
LEMMA ConstantFacts ==
    /\ MaxTime \in Nat /\ Overlap \in Nat /\ InitialSince \in Nat /\ Lateness \in Nat
    /\ RetryWindow \in Nat /\ DedupWindow \in Nat /\ Margin \in Nat
    /\ LeaseUnit \in Nat /\ LeaseCap \in Nat /\ AgingTurns \in Nat
    /\ MaxFaults \in Nat /\ FaultsUntil \in Nat
    /\ RetryWindow + Margin <= DedupWindow /\ Lateness <= Overlap
    /\ Transient \subseteq React /\ Outlet = Sources /\ Targets = {1, 2}
    /\ Contents = {Own, Paired} /\ Own # Paired /\ NoContent # Own /\ NoContent # Paired
    /\ NoTarget \notin Targets
    /\ Times = 0 .. MaxTime
  <1>1. Targets = 1 .. 2
    BY OutletAssumption DEF OutletAssumption, MaxCopies
  <1>2. 1 .. 2 = {1, 2}
    OBVIOUS
  <1>3. NoContent \notin Contents /\ NoTarget \notin Targets /\ MaxTime \in Nat /\ Overlap \in Nat
    BY LedgerAssumption DEF LedgerAssumption
  <1>4. Contents = {Own, Paired} /\ Own # Paired /\ Transient \subseteq React /\ Outlet = Sources
    BY OutletAssumption DEF OutletAssumption
  <1>5. /\ InitialSince \in Nat /\ Lateness \in Nat
        /\ RetryWindow \in Nat /\ DedupWindow \in Nat /\ Margin \in Nat
        /\ LeaseUnit \in Nat /\ LeaseCap \in Nat /\ AgingTurns \in Nat
        /\ MaxFaults \in Nat /\ FaultsUntil \in Nat
        /\ RetryWindow + Margin <= DedupWindow /\ Lateness <= Overlap
    BY OutletAssumption DEF OutletAssumption
  <1> QED
    BY <1>1, <1>2, <1>3, <1>4, <1>5 DEF Times

\* The retry lease is a number of seconds.
LEMMA LeaseType == \A n \in Nat : Lease(n) \in Nat
  <1> SUFFICES ASSUME NEW n \in Nat PROVE Lease(n) \in Nat
    OBVIOUS
  <1> DEFINE k == IF n < 4 THEN n ELSE 4
  <1>1. k + 1 \in {1, 2, 3, 4, 5}
    OBVIOUS
  <1>2. <<1, 2, 4, 8, 16>>[k + 1] \in Nat
    BY <1>1
  <1>3. LeaseUnit * <<1, 2, 4, 8, 16>>[k + 1] \in Nat
    BY <1>2, ConstantFacts
  <1> QED
    BY <1>3, ConstantFacts DEF Lease

\* The stack with its innermost call changed, with one more, with one less.
LEMMA StackReplaced ==
    ASSUME NEW s \in Seq(Frame), s # <<>>, NEW f \in Frame
    PROVE  /\ [s EXCEPT ![Len(s)] = f] \in Seq(Frame)
           /\ Len([s EXCEPT ![Len(s)] = f]) = Len(s) /\ Len(s) \in Nat /\ Len(s) > 0
           /\ \A i \in 1 .. Len(s) :
                [s EXCEPT ![Len(s)] = f][i] = IF i = Len(s) THEN f ELSE s[i]
  OBVIOUS

LEMMA StackPushed ==
    ASSUME NEW s \in Seq(Frame), NEW f \in Frame
    PROVE  /\ Append(s, f) \in Seq(Frame)
           /\ Len(Append(s, f)) = Len(s) + 1 /\ Len(s) \in Nat
           /\ \A i \in 1 .. Len(s) + 1 : Append(s, f)[i] = IF i = Len(s) + 1 THEN f ELSE s[i]
  OBVIOUS

LEMMA StackPopped ==
    ASSUME NEW s \in Seq(Frame), Len(s) > 1
    PROVE  /\ SubSeq(s, 1, Len(s) - 1) \in Seq(Frame)
           /\ Len(SubSeq(s, 1, Len(s) - 1)) = Len(s) - 1 /\ Len(s) \in Nat
           /\ \A i \in 1 .. Len(s) - 1 : SubSeq(s, 1, Len(s) - 1)[i] = s[i]
  <1>1. \A i \in 1 .. Len(s) - 1 : s[i] \in Frame
    OBVIOUS
  <1>2. Len(s) - 1 \in Nat /\ Len(s) \in Nat
    OBVIOUS
  <1> QED
    BY <1>1, <1>2, SubSeqProperties

\* The calls are frames.
LEMMA FrameTypes ==
    ASSUME NEW s \in Seq(Frame), NEW i \in 1 .. Len(s)
    PROVE  s[i] \in Frame /\ s[i].src \in Sources /\ s[i].t0 \in Nat /\ s[i].seen \in BOOLEAN
  <1>1. s[i] \in Frame
    OBVIOUS
  <1> QED
    BY <1>1, TimesAreNat DEF Frame

\* While an attempt runs there is an innermost call.
LEMMA TopFrame ==
    ASSUME TypeOK, pc \in Busy
    PROVE  /\ stack # <<>> /\ Len(stack) \in Nat /\ Len(stack) > 0
           /\ Top \in Frame /\ Top.src \in Sources /\ Top.t0 \in Nat /\ Top.t0 \in Times
           /\ Top.seen \in BOOLEAN
           /\ Top = [src |-> Top.src, t0 |-> Top.t0, seen |-> Top.seen]
  <1>1. stack \in Seq(Frame) /\ stack # <<>>
    BY DEF TypeOK, Frame
  <1>2. Len(stack) \in Nat /\ Len(stack) > 0 /\ stack[Len(stack)] \in Frame
    BY <1>1
  <1> QED
    BY <1>1, <1>2, TimesAreNat DEF Top, Frame

-----------------------------------------------------------------------------
(* Types. *)

\* What the ledger's types say of the rows the outlet writes.
LEMMA MineType ==
    ASSUME TypeOK, pc \in Busy
    PROVE  /\ Mine \in [Sources -> Row]
           /\ \A u \in Sources : u # Top.src => Mine[u] = row[u]
  <1>1. Top.src \in Sources /\ Top.t0 \in Times /\ At[Top.src] \in Times /\ row \in [Sources -> Row]
    BY TopFrame, GraphFacts DEF TypeOK, LedgerTypeOK
  <1>2. Own \in Contents
    BY ConstantFacts
  <1>3. Mine \in [Sources -> Row]
    BY <1>1, <1>2, ReservedType DEF Mine
  <1>4. \A u \in Sources : u # Top.src => Mine[u] = row[u]
    BY <1>1 DEF Mine, ReservedRow
  <1> QED
    BY <1>3, <1>4

\* An event's own effect is a receipt.
LEMMA ReceiptType ==
    ASSUME OutletInv, pc = "ack"
    PROVE  (IF Top.src \in Text \cup React THEN copies[Top.src] ELSE 1) \in Targets
  <1>1. pc \in Busy /\ TypeOK /\ StepOK
    BY DEF Busy, OutletInv
  <1>2. Top.src \in Sources
    BY <1>1, TopFrame
  <1>3. Top.src \in Text \cup React => copies[Top.src] > 0
    BY <1>1, <1>2, GraphFacts DEF StepOK
  <1>4. copies[Top.src] \in 0 .. 2
    BY <1>1, <1>2 DEF TypeOK, MaxCopies
  <1> QED
    BY <1>3, <1>4, ConstantFacts

\* The steps of the environment keep the types.
LEMMA EnvironmentTypes ==
    ASSUME OutletInv,
           \/ \E e \in Sources : Publish(e)
           \/ Tick
           \/ \E q \in wire : Land(q)
    PROVE  TypeOK'
  <1> USE DEF OutletInv, TypeOK
  <1>1. ASSUME NEW e \in Sources, Publish(e) PROVE TypeOK'
    BY <1>1 DEF Publish, ledgerVars, queueVars, controlVars, feishuVars, LedgerTypeOK
  <1>2. CASE Tick
    <2>1. now' \in Times
      BY <1>2, ConstantFacts DEF Tick
    <2> QED
      BY <1>2, <2>1 DEF Tick, ledgerVars, queueVars, controlVars, feishuVars, LedgerTypeOK
  <1>3. ASSUME NEW q \in wire, Land(q) PROVE TypeOK'
    <2>1. q.src \in Sources
      OBVIOUS
    <2>2. copies' \in [Sources -> 0 .. MaxCopies]
      <3>1. \A n \in 0 .. MaxCopies : n < MaxCopies => n + 1 \in 0 .. MaxCopies
        BY DEF MaxCopies
      <3>2. PICK b \in BOOLEAN :
              copies' = [copies EXCEPT ![q.src] = IF b /\ @ < MaxCopies THEN @ + 1 ELSE @]
        BY <1>3 DEF Land
      <3>3. copies \in [Sources -> 0 .. MaxCopies]
        OBVIOUS
      <3> QED
        BY <2>1, <3>1, <3>2, <3>3
    <2>3. firstAt' \in [Sources -> Times]
      BY <1>3, <2>1 DEF Land
    <2>4. card' \in [Text -> Edit \cup {None}]
      BY <1>3, <2>1, GraphFacts DEF Land
    <2>5. wire' \subseteq [src : Sources, by : Nat, current : BOOLEAN]
      BY <1>3 DEF Land
    <2> QED
      BY <1>3, <2>2, <2>3, <2>4, <2>5
      DEF Land, ledgerVars, queueVars, controlVars, LedgerTypeOK
  <1> QED
    BY <1>1, <1>2, <1>3

\* The steps that choose what the slice attempts keep the types.
LEMMA SliceTypes ==
    ASSUME OutletInv, ReadHistory \/ Capture \/ SettlePair \/ Start \/ NothingDue
    PROVE  TypeOK'
  <1> USE DEF OutletInv, TypeOK
  <1>0. /\ work \in [Sources -> [held : BOOLEAN, attempts : 0 .. AttemptCap, retryAt : Nat]]
        /\ NotHeld \in [held : BOOLEAN, attempts : 0 .. AttemptCap, retryAt : Nat]
        /\ Held \subseteq Sources
        /\ turns \in 0 .. AgingTurns /\ AgingTurns \in Nat
    BY ConstantFacts DEF NotHeld, AttemptCap, Held
  <1>1. \A h \in Sources : TurnAfter(h) \in 0 .. AgingTurns
    BY <1>0 DEF TurnAfter, Aging
  <1>2. CASE ReadHistory
    <2>1. snap' \subseteq relay /\ sighted' \subseteq Text /\ pc' = "capture"
      BY <1>2 DEF ReadHistory, Posted
    <2>2. stack = <<>>
      BY <1>2 DEF ReadHistory, Busy
    <2> QED
      BY <1>2, <2>1, <2>2 DEF ReadHistory, ledgerVars, queueVars, feishuVars, LedgerTypeOK, Busy
  <1>3. CASE Capture
    <2>1. work' \in [Sources -> [held : BOOLEAN, attempts : 0 .. AttemptCap, retryAt : Nat]]
      <3>1. [held |-> TRUE, attempts |-> 0, retryAt |-> 0]
              \in [held : BOOLEAN, attempts : 0 .. AttemptCap, retryAt : Nat]
        BY DEF AttemptCap
      <3> QED
        BY <1>0, <1>3, <3>1 DEF Capture
    <2>2. pc' = "choose" /\ stack = <<>>
      BY <1>3 DEF Capture, Busy
    <2> QED
      BY <1>3, <2>1, <2>2 DEF Capture, ledgerVars, feishuVars, LedgerTypeOK, Busy
  <1>4. CASE SettlePair
    <2>1. PICK h \in Held, w \in Withdraw :
             /\ row' = PairRow(PairRow(row, h), w)
             /\ work' = [work EXCEPT ![h] = NotHeld, ![w] = NotHeld]
             /\ turns' = TurnAfter(h)
      BY <1>4 DEF SettlePair
    <2>2. \A r \in [Sources -> Row], e \in Sources : PairRow(r, e) \in [Sources -> Row]
      <3>1. ASSUME NEW r \in [Sources -> Row], NEW e \in Sources
            PROVE  PairRow(r, e) \in [Sources -> Row]
        <4>1. Paired \in Contents /\ At[e] \in Times /\ now \in Times
          BY ConstantFacts, GraphFacts
        <4>2. ReservedRow(r, e, Paired, At[e], now) \in [Sources -> Row]
          BY <4>1, ReservedType
        <4> QED
          BY <4>2, SettledType DEF PairRow
      <3> QED
        BY <3>1
    <2>3. h \in Sources /\ w \in Sources
      BY <1>0, KindSets
    <2>4. row' \in [Sources -> Row]
      <3>1. row \in [Sources -> Row]
        BY DEF LedgerTypeOK
      <3> QED
        BY <2>1, <2>2, <2>3, <3>1
    <2>5. work' \in [Sources -> [held : BOOLEAN, attempts : 0 .. AttemptCap, retryAt : Nat]]
      BY <1>0, <2>1, <2>3
    <2>6. pc' = "idle" /\ stack = <<>> /\ snap' = {}
      BY <1>4 DEF SettlePair, Busy
    <2>7. turns' \in 0 .. AgingTurns
      BY <1>1, <2>1, <2>3
    <2> QED
      BY <1>4, <2>4, <2>5, <2>6, <2>7 DEF SettlePair, feishuVars, LedgerTypeOK, Busy
  <1>5. CASE Start
    <2>1. PICK h \in Held :
             /\ work' = [work EXCEPT
                   ![h].attempts = IF @ < AttemptCap THEN @ + 1 ELSE @,
                   ![h].retryAt  = now + Lease(work[h].attempts)]
             /\ stack' = <<[src |-> h, t0 |-> now, seen |-> FALSE]>>
             /\ turns' = TurnAfter(h)
      BY <1>5 DEF Start
    <2>2. h \in Sources
      BY <1>0
    <2>3. work' \in [Sources -> [held : BOOLEAN, attempts : 0 .. AttemptCap, retryAt : Nat]]
      <3>1. work[h].attempts \in 0 .. AttemptCap /\ now \in Nat
        BY <1>0, <2>2, TimesAreNat
      <3>2. now + Lease(work[h].attempts) \in Nat
        <4>1. work[h].attempts \in Nat
          BY <3>1 DEF AttemptCap
        <4>2. Lease(work[h].attempts) \in Nat
          BY <4>1, LeaseType
        <4> QED
          BY <3>1, <4>2
      <3>3. (IF work[h].attempts < AttemptCap THEN work[h].attempts + 1 ELSE work[h].attempts)
              \in 0 .. AttemptCap
        BY <3>1 DEF AttemptCap
      <3> DEFINE z == [work[h] EXCEPT !.attempts = IF @ < AttemptCap THEN @ + 1 ELSE @,
                                      !.retryAt  = now + Lease(work[h].attempts)]
      <3>4. z \in [held : BOOLEAN, attempts : 0 .. AttemptCap, retryAt : Nat]
        BY <1>0, <2>2, <3>2, <3>3
      <3>5. work' = [work EXCEPT ![h] = z]
        BY <1>0, <2>1, <2>2
      <3> QED
        BY <1>0, <2>2, <3>4, <3>5
    <2>4. [src |-> h, t0 |-> now, seen |-> FALSE] \in Frame
      BY <2>2 DEF Frame
    <2>5. stack' \in Seq(Frame) /\ stack' # <<>>
      BY <2>1, <2>4
    <2>6. pc' = "enter" /\ turns' \in 0 .. AgingTurns
      BY <1>1, <1>5, <2>1, <2>2 DEF Start
    <2> QED
      BY <1>5, <2>3, <2>5, <2>6 DEF Start, ledgerVars, feishuVars, LedgerTypeOK, Busy, Frame
  <1>6. CASE NothingDue
    <2>1. pc' = "idle" /\ stack = <<>> /\ snap' = {}
      BY <1>6 DEF NothingDue, Busy
    <2> QED
      BY <1>6, <2>1 DEF NothingDue, ledgerVars, queueVars, feishuVars, LedgerTypeOK, Busy
  <1> QED
    BY <1>2, <1>3, <1>4, <1>5, <1>6

\* What locating an event can lead to: its write, the delivery of what it
\* depends on, or its end.
LEMMA ResolveCases ==
    ASSUME OutletInv, Resolve
    PROVE  /\ UNCHANGED <<ledgerVars, queueVars, feishuVars, snap, sighted, now, relay, wire, faults>>
           /\ \E f \in Frame :
                /\ f.src = Top.src /\ f.t0 = Top.t0
                /\ f.seen => Top.seen \/ (Top.src \in Text /\ copies[Top.src] > 0)
                /\ \/ /\ pc' = "reserve"
                      /\ stack' = [stack EXCEPT ![Len(stack)] = f]
                      /\ Grounds(Top.src)
                   \/ /\ pc' = "enter"
                      /\ stack' = Append([stack EXCEPT ![Len(stack)] = f],
                                         [src |-> Ref[Top.src], t0 |-> now, seen |-> FALSE])
                      /\ Ref[Top.src] \in relay /\ Ref[Top.src] \in Text
                   \/ /\ pc' = "return" /\ stack' = stack
                      /\ Top.src \in Edit /\ ~ LatestEdit(Top.src)
  <1>0. /\ UNCHANGED <<ledgerVars, queueVars, feishuVars, snap, sighted, now, relay, wire, faults>>
        /\ pc = "resolve" /\ TypeOK /\ StepOK
    BY DEF Resolve, OutletInv
  <1>1. /\ stack \in Seq(Frame) /\ stack # <<>>
        /\ Top \in Frame /\ Top.src \in Sources /\ Top = stack[Len(stack)]
    BY <1>0, TopFrame DEF TypeOK, Frame, Busy, Top
  <1> DEFINE e == Top.src
             Goal(f) ==
                /\ f.src = Top.src /\ f.t0 = Top.t0
                /\ f.seen => Top.seen \/ (Top.src \in Text /\ copies[Top.src] > 0)
                /\ \/ /\ pc' = "reserve"
                      /\ stack' = [stack EXCEPT ![Len(stack)] = f]
                      /\ Grounds(Top.src)
                   \/ /\ pc' = "enter"
                      /\ stack' = Append([stack EXCEPT ![Len(stack)] = f],
                                         [src |-> Ref[Top.src], t0 |-> now, seen |-> FALSE])
                      /\ Ref[Top.src] \in relay /\ Ref[Top.src] \in Text
                   \/ /\ pc' = "return" /\ stack' = stack
                      /\ Top.src \in Edit /\ ~ LatestEdit(Top.src)
  <1>2. ASSUME NEW f \in Frame, f.src = e, f.t0 = Top.t0,
               f.seen => Top.seen \/ (e \in Text /\ copies[e] > 0),
               e \notin Withdraw, Ref[e] # None, Depend(e, f)
        PROVE  Goal(f)
    <2>1. Ref[e] \in Text
      BY <1>1, <1>2, GraphFacts
    <2>2. CASE Sees(Ref[e], TRUE) /\ pc' = "reserve" /\ stack' = [stack EXCEPT ![Len(stack)] = f]
      <3>1. Grounds(e)
        BY <1>2, <2>2 DEF Sees, Grounds
      <3> QED
        BY <1>2, <2>2, <3>1
    <2>3. CASE /\ Ref[e] \in relay
               /\ pc' = "enter"
               /\ stack' = Append([stack EXCEPT ![Len(stack)] = f],
                                  [src |-> Ref[e], t0 |-> now, seen |-> FALSE])
      BY <1>2, <2>1, <2>3
    <2> QED
      BY <1>2, <2>2, <2>3 DEF Depend
  <1>3. ASSUME NEW seen \in BOOLEAN, e \in Text, Sees(e, seen),
               IF Ref[e] = None
               THEN pc' = "reserve" /\ stack' = [stack EXCEPT ![Len(stack)].seen = seen]
               ELSE Depend(e, [Top EXCEPT !.seen = seen])
        PROVE  \E f \in Frame : Goal(f)
    <2> DEFINE f == [Top EXCEPT !.seen = seen]
    <2>1. f \in Frame /\ f.src = e /\ f.t0 = Top.t0 /\ f.seen = seen
      BY <1>1 DEF Frame
    <2>2. seen => copies[e] > 0
      BY <1>3 DEF Sees
    <2>3. e \notin Withdraw
      BY <1>1, <1>3, GraphFacts
    <2>4. CASE Ref[e] # None
      <3>1. Depend(e, f)
        BY <1>3, <2>4
      <3> HIDE DEF f, Goal
      <3>2. Goal(f)
        BY <1>2, <1>3, <2>1, <2>2, <2>3, <2>4, <3>1
      <3> QED
        BY <2>1, <3>2
    <2>5. CASE Ref[e] = None
      <3>1. pc' = "reserve" /\ stack' = [stack EXCEPT ![Len(stack)] = f]
        BY <1>1, <1>3, <2>5
      <3>2. Grounds(e)
        BY <2>3, <2>5 DEF Grounds
      <3> HIDE DEF f
      <3>3. Goal(f)
        BY <1>3, <2>1, <2>2, <3>1, <3>2
      <3> QED
        BY <2>1, <3>3
    <2> QED
      BY <2>4, <2>5
  <1>4. ASSUME e \in Edit \cup React, Depend(e, Top) PROVE \E f \in Frame : Goal(f)
    <2>1. e \notin Withdraw /\ Ref[e] # None
      BY <1>1, <1>4, GraphFacts
    <2> HIDE DEF Goal
    <2>2. Goal(Top)
      BY <1>1, <1>2, <1>4, <2>1
    <2> QED
      BY <1>1, <2>2
  <1>5. ASSUME e \in Edit, ~ LatestEdit(e), pc' = "return", UNCHANGED stack
        PROVE  \E f \in Frame : Goal(f)
    <2>1. Goal(Top)
      BY <1>5
    <2> QED
      BY <1>1, <2>1
  <1>6. ASSUME e \in Withdraw, pc' = "reserve", UNCHANGED stack
        PROVE  \E f \in Frame : Goal(f)
    <2>1. Grounds(e)
      BY <1>0, <1>6 DEF StepOK
    <2>2. stack = [stack EXCEPT ![Len(stack)] = Top]
      BY <1>1
    <2>3. Goal(Top)
      BY <1>6, <2>1, <2>2
    <2> QED
      BY <1>1, <2>3
  <1>7. \/ \E seen \in BOOLEAN :
             /\ e \in Text
             /\ Sees(e, seen)
             /\ IF Ref[e] = None
                THEN pc' = "reserve" /\ stack' = [stack EXCEPT ![Len(stack)].seen = seen]
                ELSE Depend(e, [Top EXCEPT !.seen = seen])
        \/ e \in Edit /\ Depend(e, Top)
        \/ e \in Edit /\ ~ LatestEdit(e) /\ pc' = "return" /\ UNCHANGED stack
        \/ e \in React /\ Depend(e, Top)
        \/ e \in Withdraw /\ pc' = "reserve" /\ UNCHANGED stack
    BY Zenon DEF Resolve
  <1>8. \E f \in Frame : Goal(f)
    <2> HIDE DEF Goal
    <2>1. CASE \E seen \in BOOLEAN :
                 /\ e \in Text
                 /\ Sees(e, seen)
                 /\ IF Ref[e] = None
                    THEN pc' = "reserve" /\ stack' = [stack EXCEPT ![Len(stack)].seen = seen]
                    ELSE Depend(e, [Top EXCEPT !.seen = seen])
      BY <1>3, <2>1
    <2>2. CASE e \in Edit \cup React /\ Depend(e, Top)
      BY <1>4, <2>2
    <2>3. CASE e \in Edit /\ ~ LatestEdit(e) /\ pc' = "return" /\ UNCHANGED stack
      BY <1>5, <2>3
    <2>4. CASE e \in Withdraw /\ pc' = "reserve" /\ UNCHANGED stack
      BY <1>6, <2>4
    <2> QED
      BY <1>7, <2>1, <2>2, <2>3, <2>4
  <1> QED
    BY <1>0, <1>8

\* The end of a slice that writes neither the ledger nor the queue keeps the types.
LEMMA SliceEndTypes ==
    ASSUME TypeOK, EndSlice,
           faults' \in 0 .. MaxFaults, sighted' \subseteq Text,
           wire' \subseteq [src : Sources, by : Nat, current : BOOLEAN],
           UNCHANGED <<ledgerVars, queueVars, feishuVars, now, relay>>
    PROVE  TypeOK'
  <1>1. pc' = "idle" /\ stack' = <<>> /\ snap' = {}
    BY DEF EndSlice
  <1>2. UNCHANGED <<row, receipt, cursor>>
    BY DEF ledgerVars
  <1>3. LedgerTypeOK'
    BY <1>2 DEF TypeOK, LedgerTypeOK
  <1>4. UNCHANGED <<work, turns, copies, firstAt, card, now, relay>>
    BY DEF queueVars, feishuVars
  <1>5. /\ (pc \in Busy \cup {"idle", "capture", "choose"})'
        /\ (snap \subseteq relay)'
        /\ (stack \in Seq([src : Sources, t0 : Times, seen : BOOLEAN]))'
        /\ ((pc \in Busy) <=> (stack # <<>>))'
    BY <1>1 DEF Busy
  <1> QED
    BY <1>3, <1>4, <1>5 DEF TypeOK

\* The calls of an attempt keep the types.
LEMMA AttemptTypes ==
    ASSUME TypeOK, OutletInv, Attempt
    PROVE  TypeOK'
  <1>0. pc \in Busy
    BY DEF Attempt, Enter, OutOfScope, Resolve, Unresolved, ReserveMessage, ReserveReaction,
           MarkUnknown, Readback, Call, Reply, Acknowledge, Return, Busy
  <1>1. /\ stack \in Seq(Frame) /\ stack # <<>> /\ Top \in Frame
        /\ Top.src \in Sources /\ Top.t0 \in Times /\ Top.t0 \in Nat
        /\ row \in [Sources -> Row]
    BY <1>0, TopFrame DEF Frame, TypeOK, LedgerTypeOK
  <1>2. ASSUME EndSlice PROVE pc' = "idle" /\ stack' = <<>> /\ snap' = {}
    BY <1>2 DEF EndSlice
  <1>3. CASE Enter
    <2>1. [Top EXCEPT !.t0 = now] \in Frame
      BY <1>1 DEF Frame, TypeOK
    <2>2. stack' = [stack EXCEPT ![Len(stack)] = [Top EXCEPT !.t0 = now]]
      BY <1>3 DEF Enter, Top
    <2>3. stack' \in Seq(Frame) /\ stack' # <<>>
      BY <1>1, <2>1, <2>2, StackReplaced
    <2>4. pc' = "resolve"
      BY <1>3 DEF Enter
    <2> QED
      BY <1>3, <2>3, <2>4
      DEF Enter, ledgerVars, queueVars, feishuVars, TypeOK, LedgerTypeOK, Busy, Frame
  <1>4. CASE OutOfScope
    <2>1. EndSlice /\ UNCHANGED <<ledgerVars, queueVars, feishuVars, sighted, now, relay, wire, faults>>
      BY <1>4 DEF OutOfScope
    <2>2. /\ faults' \in 0 .. MaxFaults /\ sighted' \subseteq Text
          /\ wire' \subseteq [src : Sources, by : Nat, current : BOOLEAN]
      BY <2>1 DEF TypeOK
    <2> QED
      BY <2>1, <2>2, SliceEndTypes
  <1>5. CASE Resolve
    <2>0. PICK f \in Frame :
                /\ f.src = Top.src /\ f.t0 = Top.t0
                /\ \/ /\ pc' = "reserve"
                      /\ stack' = [stack EXCEPT ![Len(stack)] = f]
                   \/ /\ pc' = "enter"
                      /\ stack' = Append([stack EXCEPT ![Len(stack)] = f],
                                         [src |-> Ref[Top.src], t0 |-> now, seen |-> FALSE])
                      /\ Ref[Top.src] \in relay
                   \/ pc' = "return" /\ stack' = stack
      BY <1>5, ResolveCases
    <2> DEFINE g == [src |-> Ref[Top.src], t0 |-> now, seen |-> FALSE]
               s == [stack EXCEPT ![Len(stack)] = f]
    <2>1. s \in Seq(Frame) /\ s # <<>>
      BY <1>1, StackReplaced
    <2>2. Ref[Top.src] \in relay => g \in Frame
      BY DEF Frame, TypeOK
    <2>3. stack' \in Seq(Frame) /\ stack' # <<>>
      <3> HIDE DEF g, s
      <3>1. ASSUME g \in Frame PROVE Append(s, g) \in Seq(Frame) /\ Append(s, g) # <<>>
        <4>1. Append(s, g) \in Seq(Frame) /\ Len(Append(s, g)) = Len(s) + 1 /\ Len(s) \in Nat
          BY <2>1, <3>1, StackPushed
        <4> QED
          BY <4>1
      <3> QED
        BY <1>1, <2>0, <2>1, <2>2, <3>1 DEF g, s
    <2>4. pc' \in Busy
      BY <2>0 DEF Busy
    <2>5. UNCHANGED <<ledgerVars, queueVars, feishuVars, snap, sighted, now, relay, wire, faults>>
      BY <1>5, ResolveCases
    <2> QED
      BY <2>3, <2>4, <2>5 DEF ledgerVars, queueVars, feishuVars, TypeOK, LedgerTypeOK, Frame
  <1>6. CASE Unresolved
    <2>1. EndSlice /\ UNCHANGED <<ledgerVars, queueVars, feishuVars, sighted, now, relay, wire, faults>>
      BY <1>6 DEF Unresolved
    <2>2. /\ faults' \in 0 .. MaxFaults /\ sighted' \subseteq Text
          /\ wire' \subseteq [src : Sources, by : Nat, current : BOOLEAN]
      BY <2>1 DEF TypeOK
    <2> QED
      BY <2>1, <2>2, SliceEndTypes
  <1>7. ASSUME row' \in [Sources -> Row],
               EndSlice \/ (pc' \in Busy /\ UNCHANGED <<stack, snap>>),
               UNCHANGED <<receipt, cursor, queueVars, feishuVars, sighted, now, relay, wire, faults>>
        PROVE  TypeOK'
    <2>1. CASE EndSlice
      <3>1. pc' = "idle" /\ stack' = <<>> /\ snap' = {}
        BY <1>2, <2>1
      <3>2. row' \in [Sources -> Row]
        BY <1>7
      <3>3. UNCHANGED <<receipt, cursor, queueVars, feishuVars, sighted, now, relay, wire, faults>>
        BY <1>7
      <3> QED
        BY <3>1, <3>2, <3>3 DEF queueVars, feishuVars, TypeOK, LedgerTypeOK, Busy
    <2>2. CASE pc' \in Busy /\ UNCHANGED <<stack, snap>>
      BY <1>1, <1>7, <2>2 DEF queueVars, feishuVars, TypeOK, LedgerTypeOK
    <2> QED
      BY <1>7, <2>1, <2>2
  <1>8. Mine \in [Sources -> Row]
    BY <1>0, MineType
  <1>9. CASE ReserveMessage
    <2>1. row' \in {Mine, SettledRow(Mine, Top.src, "skipped"), RetriedRow(Mine, Top.src)}
      BY <1>9 DEF ReserveMessage
    <2>2. row' \in [Sources -> Row]
      BY <1>1, <1>8, <2>1, SettledType, RetriedType
    <2>3. EndSlice \/ (pc' \in Busy /\ UNCHANGED <<stack, snap>>)
      BY <1>9 DEF ReserveMessage, Busy
    <2> QED
      BY <1>7, <1>9, <2>2, <2>3 DEF ReserveMessage
  <1>10. CASE ReserveReaction
    <2>1. row' \in {Mine, FailedRow(Mine, Top.src, TRUE), RetriedRow(Mine, Top.src)}
      BY <1>10 DEF ReserveReaction
    <2>2. row' \in [Sources -> Row]
      <3>1. FailedRow(Mine, Top.src, TRUE) \in [Sources -> Row]
        BY <1>1, <1>8, FailedType, TRUE \in BOOLEAN
      <3>2. RetriedRow(Mine, Top.src) \in [Sources -> Row]
        BY <1>1, <1>8, RetriedType
      <3> QED
        BY <1>8, <2>1, <3>1, <3>2
    <2>3. EndSlice \/ (pc' \in Busy /\ UNCHANGED <<stack, snap>>)
      BY <1>10 DEF ReserveReaction, Busy
    <2> QED
      BY <1>7, <1>10, <2>2, <2>3 DEF ReserveReaction
  <1>11. CASE MarkUnknown
    <2>1. row' \in [Sources -> Row]
      BY <1>1, <1>11, FailedType DEF MarkUnknown
    <2>2. pc' \in Busy /\ UNCHANGED <<stack, snap>>
      BY <1>11 DEF MarkUnknown, Busy
    <2> QED
      BY <1>7, <1>11, <2>1, <2>2 DEF MarkUnknown
  <1>12. CASE Readback
    <2>1. EndSlice \/ (pc' \in Busy /\ UNCHANGED <<stack, snap>>)
      BY <1>12 DEF Readback, Busy
    <2>2. row' \in [Sources -> Row] /\ UNCHANGED <<receipt, cursor>>
      BY <1>1, <1>12 DEF Readback, ledgerVars
    <2> QED
      BY <1>7, <1>12, <2>1, <2>2 DEF Readback
  <1>13. CASE Call
    <2>1. Top.t0 + Margin \in Nat
      BY <1>1, ConstantFacts
    <2>2. wire' \subseteq [src : Sources, by : Nat, current : BOOLEAN]
      <3>1. [src |-> Top.src, by |-> Top.t0 + Margin, current |-> TRUE]
              \in [src : Sources, by : Nat, current : BOOLEAN]
        BY <1>1, <2>1
      <3> QED
        BY <1>13, <3>1 DEF Call, TypeOK
    <2>3. pc' = "wait"
      BY <1>13 DEF Call
    <2> QED
      BY <1>1, <1>13, <2>2, <2>3 DEF Call, ledgerVars, queueVars, feishuVars, TypeOK, LedgerTypeOK, Busy
  <1>14. CASE Reply
    <2>1. pc' = "ack" /\ sighted' \subseteq Text
      BY <1>14 DEF Reply, Posted
    <2> QED
      BY <1>1, <1>14, <2>1 DEF Reply, ledgerVars, queueVars, feishuVars, TypeOK, LedgerTypeOK, Busy
  <1>15. CASE Acknowledge
    <2> DEFINE e == Top.src
               g == IF e \in Text \cup React THEN copies[e] ELSE 1
    <2>1. g \in Targets
      BY <1>15, ReceiptType DEF Acknowledge
    <2>2. AckedRow(row, e, g) \in [Sources -> Row]
      BY <1>1, <2>1, AckedType
    <2> HIDE DEF g
    <2>3. CASE e \in Withdraw
      <3>1. /\ receipt' = [receipt EXCEPT ![e] = g]
            /\ AdvanceOnAck(AckedRow(row, e, g))
            /\ row' = SettledRow(AckedRow(row, e, g), Ref[e], "removed")
        BY <1>15, <2>3 DEF Acknowledge, g
      <3>2. Ref[e] \in Sources
        BY <1>1, <2>3, GraphFacts
      <3>3. row' \in [Sources -> Row]
        BY <2>2, <3>1, <3>2, SettledType
      <3>4. cursor' \in Times \cup {NoCursor}
        BY <3>1, AckAdvanceKeeps DEF TypeOK, LedgerTypeOK
      <3>5. receipt' \in [Sources -> Targets \cup {NoTarget}]
        BY <1>1, <2>1, <3>1 DEF TypeOK, LedgerTypeOK
      <3> QED
        BY <1>15, <3>3, <3>4, <3>5 DEF Acknowledge, queueVars, feishuVars, TypeOK, LedgerTypeOK, Busy
    <2>4. CASE e \notin Withdraw
      <3>1. AckOutlet(e, g, Len(stack) = 1)
        BY <1>15, <2>4 DEF Acknowledge, g
      <3>2. row' \in [Sources -> Row]
        BY <2>2, <3>1 DEF AckOutlet
      <3>3. cursor' \in Times \cup {NoCursor}
        BY <3>1, AckAdvanceKeeps DEF TypeOK, LedgerTypeOK, AckOutlet
      <3>4. receipt' \in [Sources -> Targets \cup {NoTarget}]
        BY <1>1, <2>1, <3>1 DEF TypeOK, LedgerTypeOK, AckOutlet
      <3> QED
        BY <1>15, <3>2, <3>3, <3>4 DEF Acknowledge, queueVars, feishuVars, TypeOK, LedgerTypeOK, Busy
    <2> QED
      BY <2>3, <2>4
  <1>16. CASE Return
    <2>1. CASE Len(stack) > 1
      <3>1. stack' = SubSeq(stack, 1, Len(stack) - 1) /\ pc' = "reserve" /\ UNCHANGED <<snap, work>>
        BY <1>16, <2>1 DEF Return
      <3>2. stack' \in Seq(Frame) /\ Len(stack') = Len(stack) - 1
        BY <1>1, <2>1, <3>1, StackPopped
      <3>3. stack' # <<>>
        BY <1>1, <2>1, <3>2
      <3> QED
        BY <1>16, <3>1, <3>2, <3>3 DEF Return, ledgerVars, feishuVars, TypeOK, LedgerTypeOK, Busy, Frame
    <2>2. CASE ~ (Len(stack) > 1)
      <3>1. EndSlice /\ work' = [work EXCEPT ![Top.src] = NotHeld]
        BY <1>16, <2>2 DEF Return
      <3>2. work' \in [Sources -> [held : BOOLEAN, attempts : 0 .. AttemptCap, retryAt : Nat]]
        BY <1>1, <3>1 DEF NotHeld, AttemptCap, TypeOK
      <3> QED
        BY <1>2, <1>16, <3>1, <3>2 DEF Return, ledgerVars, feishuVars, TypeOK, LedgerTypeOK, Busy
    <2> QED
      BY <2>1, <2>2
  <1> QED
    BY <1>3, <1>4, <1>5, <1>6, <1>9, <1>10, <1>11, <1>12, <1>13, <1>14, <1>15, <1>16 DEF Attempt

\* The failures of an attempt keep the types.
LEMMA FailureTypes ==
    ASSUME TypeOK, OutletInv, Failure
    PROVE  TypeOK'
  <1>1. ASSUME Fault PROVE faults' \in 0 .. MaxFaults
    BY <1>1, ConstantFacts DEF Fault, TypeOK
  <1>2. Abandoned \subseteq [src : Sources, by : Nat, current : BOOLEAN]
    <2>1. \A q \in wire : [q EXCEPT !.current = FALSE] \in [src : Sources, by : Nat, current : BOOLEAN]
      BY DEF TypeOK
    <2> QED
      BY <2>1 DEF Abandoned, TypeOK
  <1>3. Posted \subseteq Text
    BY DEF Posted
  <1>4. CASE ReadFails
    <2>1. EndSlice /\ Fault /\ UNCHANGED <<ledgerVars, queueVars, feishuVars, sighted, now, relay, wire>>
      BY <1>4 DEF ReadFails
    <2>2. sighted' \subseteq Text /\ wire' \subseteq [src : Sources, by : Nat, current : BOOLEAN]
      BY <2>1 DEF TypeOK
    <2> QED
      BY <1>1, <2>1, <2>2, SliceEndTypes
  <1>5. CASE Refuse
    <2>1. Top.src \in Sources /\ row \in [Sources -> Row]
      BY <1>5, TopFrame DEF Refuse, Busy, TypeOK, LedgerTypeOK
    <2>2. row' \in [Sources -> Row]
      BY <1>5, <2>1, FailedType DEF Refuse
    <2>3. wire' \subseteq [src : Sources, by : Nat, current : BOOLEAN]
      BY <1>5 DEF Refuse, TypeOK
    <2>4. pc' = "idle" /\ stack' = <<>> /\ snap' = {} /\ faults' \in 0 .. MaxFaults
      BY <1>1, <1>5 DEF Refuse, EndSlice
    <2>5. sighted' = Posted /\ UNCHANGED <<receipt, cursor, queueVars, feishuVars, now, relay>>
      BY <1>5 DEF Refuse
    <2> QED
      BY <1>3, <2>2, <2>3, <2>4, <2>5 DEF queueVars, feishuVars, TypeOK, LedgerTypeOK, Busy
  <1>6. CASE LoseAnswer
    <2>1. /\ EndSlice /\ Fault /\ wire' = Abandoned /\ sighted' = Posted
          /\ UNCHANGED <<ledgerVars, queueVars, feishuVars, now, relay>>
      BY <1>6 DEF LoseAnswer
    <2>2. sighted' \subseteq Text /\ wire' \subseteq [src : Sources, by : Nat, current : BOOLEAN]
      BY <1>2, <1>3, <2>1
    <2> QED
      BY <1>1, <2>1, <2>2, SliceEndTypes
  <1>7. CASE Crash
    <2>1. /\ EndSlice /\ Fault /\ wire' = Abandoned
          /\ UNCHANGED <<ledgerVars, queueVars, feishuVars, sighted, now, relay>>
      BY <1>7 DEF Crash
    <2>2. sighted' \subseteq Text /\ wire' \subseteq [src : Sources, by : Nat, current : BOOLEAN]
      BY <1>2, <2>1 DEF TypeOK
    <2> QED
      BY <1>1, <2>1, <2>2, SliceEndTypes
  <1> QED
    BY <1>4, <1>5, <1>6, <1>7 DEF Failure

-----------------------------------------------------------------------------
(* What the steps that write the ledger write. *)

\* The row of e changes to status s; its content, its time and its age stay,
\* or start as the attempt's.
Writes(e, s) ==
    /\ \A u \in Sources : u # e => row'[u] = row[u]
    /\ row'[e].status = s
    /\ row'[e].target = row[e].target
    /\ row'[e].at = At[e]
    /\ row'[e].content = IF row[e].status = "absent" THEN Own ELSE row[e].content
    /\ row'[e].created = IF row[e].status = "absent" THEN Top.t0 ELSE row[e].created

\* What is known of the event an attempt is about.
LEMMA TopEvent ==
    ASSUME OutletInv, pc \in Busy
    PROVE  /\ Top.src \in Sources /\ Top.src \in relay /\ EventOK(Top.src)
           /\ row[Top.src] \in Row
           /\ Top.t0 \in Nat /\ Top.t0 <= now /\ now <= Top.t0 + Margin /\ now \in Nat
  <1>1. TypeOK /\ StackOK
    BY DEF OutletInv
  <1>2. stack # <<>> /\ Len(stack) \in Nat /\ Len(stack) > 0 /\ Top.src \in Sources /\ Top.t0 \in Nat
    BY <1>1, TopFrame
  <1>3. FrameOK(Len(stack))
    BY <1>1, <1>2 DEF StackOK
  <1>4. row \in [Sources -> Row] /\ now \in Nat
    BY <1>1, TimesAreNat DEF TypeOK, LedgerTypeOK
  <1> QED
    BY <1>2, <1>3, <1>4 DEF OutletInv, FrameOK, Top

\* The reserved row.
LEMMA MineFacts ==
    ASSUME OutletInv, pc \in Busy, CanReserve(row, Top.src, Own)
    PROVE  /\ Mine \in [Sources -> Row]
           /\ \A u \in Sources : u # Top.src => Mine[u] = row[u]
           /\ Mine[Top.src].status = IF row[Top.src].status = "absent" THEN "pending"
                                     ELSE row[Top.src].status
           /\ Mine[Top.src].target = row[Top.src].target
           /\ Mine[Top.src].at = At[Top.src]
           /\ Mine[Top.src].content = IF row[Top.src].status = "absent" THEN Own
                                      ELSE row[Top.src].content
           /\ Mine[Top.src].created = IF row[Top.src].status = "absent" THEN Top.t0
                                      ELSE row[Top.src].created
           /\ row[Top.src].content # Paired
  <1> DEFINE e == Top.src
  <1>1. e \in Sources /\ RowOK(e) /\ TypeOK /\ row \in [Sources -> Row] /\ row[e] \in Row
    BY TopEvent DEF OutletInv, EventOK, TypeOK, LedgerTypeOK
  <1>2. Mine \in [Sources -> Row] /\ \A u \in Sources : u # e => Mine[u] = row[u]
    BY <1>1, MineType
  <1>3. CASE row[e].status = "absent"
    <2>1. Mine[e] = [status |-> "pending", target |-> NoTarget, content |-> Own,
                     at |-> At[e], created |-> Top.t0]
      BY <1>1, <1>3 DEF Mine, ReservedRow
    <2>2. row[e].content = NoContent /\ row[e].target = NoTarget
      BY <1>1, <1>3 DEF RowOK, NoRow
    <2> QED
      BY <1>2, <1>3, <2>1, <2>2, ConstantFacts
  <1>4. CASE row[e].status # "absent"
    <2>1. Mine[e] = [row[e] EXCEPT !.at = IF @ = 0 THEN At[e] ELSE @]
      BY <1>1, <1>4 DEF Mine, ReservedRow
    <2>2. row[e].at = At[e]
      BY <1>1, <1>4 DEF RowOK
    <2>3. row[e].content = Own
      BY <1>4, ConstantFacts DEF CanReserve
    <2>4. /\ Mine[e].status = row[e].status /\ Mine[e].target = row[e].target
          /\ Mine[e].content = row[e].content /\ Mine[e].created = row[e].created
          /\ Mine[e].at = At[e]
      BY <1>1, <2>1, <2>2 DEF Row
    <2> QED
      BY <1>2, <1>4, <2>3, <2>4, ConstantFacts
  <1> QED
    BY <1>3, <1>4

\* A reserved row that is then settled, retried or failed.
LEMMA MineWrites ==
    ASSUME OutletInv, pc \in Busy, CanReserve(row, Top.src, Own)
    PROVE  /\ row' = Mine => Writes(Top.src, Mine[Top.src].status)
           /\ row' = SettledRow(Mine, Top.src, "skipped") => Writes(Top.src, "skipped")
           /\ row' = RetriedRow(Mine, Top.src) /\ Mine[Top.src].status \in {"pending", "failed"}
                => Writes(Top.src, "pending")
           /\ row' = FailedRow(Mine, Top.src, TRUE) /\ Mine[Top.src].status # "acked"
                => Writes(Top.src, "unknown")
  <1> DEFINE e == Top.src
  <1>1. /\ Mine \in [Sources -> Row] /\ e \in Sources /\ row[e] \in Row
        /\ \A u \in Sources : u # e => Mine[u] = row[u]
        /\ Mine[e].target = row[e].target
        /\ Mine[e].at = At[e]
        /\ Mine[e].content = IF row[e].status = "absent" THEN Own ELSE row[e].content
        /\ Mine[e].created = IF row[e].status = "absent" THEN Top.t0 ELSE row[e].created
        /\ Mine[e].status # "absent"
    BY MineFacts, TopEvent
  <1>2. ASSUME row' = Mine PROVE Writes(e, Mine[e].status)
    BY <1>1, <1>2 DEF Writes
  <1>3. ASSUME NEW s, row' = [Mine EXCEPT ![e].status = s] PROVE Writes(e, s)
    <2>1. \A u \in Sources : u # e => row'[u] = row[u]
      BY <1>1, <1>3
    <2>2. row'[e] = [Mine[e] EXCEPT !.status = s]
      BY <1>1, <1>3
    <2>3. /\ row'[e].status = s /\ row'[e].target = Mine[e].target /\ row'[e].at = Mine[e].at
          /\ row'[e].content = Mine[e].content /\ row'[e].created = Mine[e].created
      BY <1>1, <2>2 DEF Row
    <2> QED
      BY <1>1, <2>1, <2>3 DEF Writes
  <1>4. row' = SettledRow(Mine, e, "skipped") => row' = [Mine EXCEPT ![e].status = "skipped"]
    BY <1>1 DEF SettledRow
  <1>5. row' = RetriedRow(Mine, e) /\ Mine[e].status = "failed"
          => row' = [Mine EXCEPT ![e].status = "pending"]
    BY <1>1 DEF RetriedRow
  <1>6. row' = RetriedRow(Mine, e) /\ Mine[e].status = "pending" => row' = Mine
    BY <1>1 DEF RetriedRow
  <1>7. row' = FailedRow(Mine, e, TRUE) /\ Mine[e].status # "acked"
          => row' = [Mine EXCEPT ![e].status = "unknown"]
    BY <1>1 DEF FailedRow
  <1> QED
    BY <1>1, <1>2, <1>3, <1>4, <1>5, <1>6, <1>7

\* A message is found done, superseded, ready to be sent, or given up for now.
LEMMA ReserveMessageFacts ==
    ASSUME OutletInv, ReserveMessage
    PROVE  /\ pc = "reserve" /\ Top.src \in Text \cup Edit /\ row[Top.src].content # Paired
           /\ UNCHANGED <<receipt, cursor, queueVars, feishuVars, sighted, now, relay, wire, faults>>
           /\ \/ /\ Writes(Top.src, row[Top.src].status)
                 /\ \/ row[Top.src].status = "acked"
                    \/ row[Top.src].status = "skipped" /\ Top.src \in Edit
                 /\ pc' = "return" /\ UNCHANGED <<stack, snap>>
              \/ /\ Writes(Top.src, "skipped")
                 /\ row[Top.src].status \notin {"acked", "skipped"}
                 /\ Top.src \in Edit /\ ~ LatestEdit(Top.src)
                 /\ pc' = "return" /\ UNCHANGED <<stack, snap>>
              \/ /\ Writes(Top.src, "pending")
                 /\ row[Top.src].status \in {"absent", "pending", "failed"}
                 /\ Top.src \in Edit => LatestEdit(Top.src)
                 /\ \/ pc' = "ack" /\ Top.seen /\ Top.src \in Text
                    \/ /\ pc' = "call"
                       /\ Top.t0 - row'[Top.src].created <= RetryWindow
                 /\ UNCHANGED <<stack, snap>>
              \/ /\ Writes(Top.src, IF row[Top.src].status = "absent" THEN "pending"
                                    ELSE row[Top.src].status)
                 /\ EndSlice
  <1> DEFINE e == Top.src
             status   == Mine[e].status
             stale    == e \in Edit /\ ~ LatestEdit(e)
             adopted  == e \in Text /\ Top.seen
             sendable == ~ stale /\ status \in {"pending", "failed"} /\ (adopted \/ ~ Expired(e))
  <1>1. /\ pc = "reserve" /\ pc \in Busy /\ e \in Text \cup Edit /\ CanReserve(row, e, Own)
        /\ UNCHANGED <<receipt, cursor, queueVars, feishuVars, sighted, now, relay, wire, faults>>
    BY DEF ReserveMessage, Busy
  <1>2. /\ status = IF row[e].status = "absent" THEN "pending" ELSE row[e].status
        /\ row[e].content # Paired
        /\ Mine[e].created = IF row[e].status = "absent" THEN Top.t0 ELSE row[e].created
    BY <1>1, MineFacts
  <1>3. /\ row' = Mine => Writes(e, status)
        /\ row' = SettledRow(Mine, e, "skipped") => Writes(e, "skipped")
        /\ row' = RetriedRow(Mine, e) /\ status \in {"pending", "failed"} => Writes(e, "pending")
    BY <1>1, MineWrites
  <1>4. \/ /\ status = "acked" \/ (e \in Edit /\ status = "skipped")
           /\ row' = Mine /\ pc' = "return" /\ UNCHANGED <<stack, snap>>
        \/ /\ stale /\ status \notin {"acked", "skipped"}
           /\ row' = SettledRow(Mine, e, "skipped")
           /\ pc' = "return" /\ UNCHANGED <<stack, snap>>
        \/ /\ sendable
           /\ row' = RetriedRow(Mine, e)
           /\ pc' = IF adopted THEN "ack" ELSE "call"
           /\ UNCHANGED <<stack, snap>>
        \/ row' = Mine /\ EndSlice
    BY DEF ReserveMessage
  <1>5. CASE /\ status = "acked" \/ (e \in Edit /\ status = "skipped")
             /\ row' = Mine /\ pc' = "return" /\ UNCHANGED <<stack, snap>>
    BY <1>1, <1>2, <1>3, <1>5
  <1>6. CASE /\ stale /\ status \notin {"acked", "skipped"}
             /\ row' = SettledRow(Mine, e, "skipped")
             /\ pc' = "return" /\ UNCHANGED <<stack, snap>>
    BY <1>1, <1>2, <1>3, <1>6
  <1>7. CASE /\ sendable
             /\ row' = RetriedRow(Mine, e)
             /\ pc' = IF adopted THEN "ack" ELSE "call"
             /\ UNCHANGED <<stack, snap>>
    <2>1. Writes(e, "pending") /\ row[e].status \in {"absent", "pending", "failed"}
      BY <1>2, <1>3, <1>7
    <2>2. CASE adopted
      BY <1>1, <1>2, <1>7, <2>1, <2>2
    <2>3. CASE ~ adopted
      <3>1. ~ (Top.t0 - Mine[e].created > RetryWindow)
        BY <1>7, <2>3 DEF Expired
      <3>2. row'[e].created = Mine[e].created
        BY <1>2, <2>1 DEF Writes
      <3>3. Top.t0 - row'[e].created <= RetryWindow
        <4>1. Top.t0 \in Nat /\ Mine[e].created \in Nat /\ RetryWindow \in Nat
          <5>1. Mine \in [Sources -> Row] /\ e \in Sources
            BY <1>1, MineFacts, TopEvent
          <5> QED
            BY <1>1, <5>1, TopEvent, TimesAreNat, ConstantFacts DEF Row
        <4> QED
          BY <3>1, <3>2, <4>1
      <3> QED
        BY <1>1, <1>2, <1>7, <2>1, <2>3, <3>3
    <2> QED
      BY <2>2, <2>3
  <1>8. CASE row' = Mine /\ EndSlice
    BY <1>1, <1>2, <1>3, <1>8
  <1> QED
    BY <1>4, <1>5, <1>6, <1>7, <1>8

\* A reaction is found done, unknown, new, or settled in another way.
LEMMA ReserveReactionFacts ==
    ASSUME OutletInv, ReserveReaction
    PROVE  /\ pc = "reserve" /\ Top.src \in React \cup Withdraw /\ row[Top.src].content # Paired
           /\ UNCHANGED <<receipt, cursor, queueVars, feishuVars, sighted, now, relay, wire, faults>>
           /\ \/ /\ Writes(Top.src, row[Top.src].status) /\ row[Top.src].status = "acked"
                 /\ pc' = "return" /\ UNCHANGED <<stack, snap>>
              \/ /\ Writes(Top.src, "unknown") /\ row[Top.src].status \in {"pending", "unknown"}
                 /\ pc' = "readback" /\ UNCHANGED <<stack, snap>>
              \/ /\ Writes(Top.src, "pending") /\ row[Top.src].status \in {"absent", "failed"}
                 /\ pc' = "mark" /\ UNCHANGED <<stack, snap>>
              \/ /\ Writes(Top.src, row[Top.src].status) /\ row[Top.src].status # "absent"
                 /\ EndSlice
  <1> DEFINE e == Top.src
  <1>1. /\ pc = "reserve" /\ pc \in Busy /\ e \in React \cup Withdraw /\ CanReserve(row, e, Own)
        /\ UNCHANGED <<receipt, cursor, queueVars, feishuVars, sighted, now, relay, wire, faults>>
    BY DEF ReserveReaction, Busy
  <1>2. /\ Mine[e].status = IF row[e].status = "absent" THEN "pending" ELSE row[e].status
        /\ row[e].content # Paired
    BY <1>1, MineFacts
  <1>3. /\ row' = Mine => Writes(e, Mine[e].status)
        /\ row' = RetriedRow(Mine, e) /\ Mine[e].status \in {"pending", "failed"}
             => Writes(e, "pending")
        /\ row' = FailedRow(Mine, e, TRUE) /\ Mine[e].status # "acked" => Writes(e, "unknown")
    BY <1>1, MineWrites
  <1>4. \/ /\ row[e].status = "acked"
           /\ row' = Mine /\ pc' = "return" /\ UNCHANGED <<stack, snap>>
        \/ /\ row[e].status \in {"pending", "unknown"}
           /\ row' = FailedRow(Mine, e, TRUE)
           /\ pc' = "readback" /\ UNCHANGED <<stack, snap>>
        \/ /\ row[e].status \in {"absent", "failed"}
           /\ row' = RetriedRow(Mine, e)
           /\ pc' = "mark" /\ UNCHANGED <<stack, snap>>
        \/ /\ row[e].status \in {"skipped", "removed", "abandoned"}
           /\ row' = Mine /\ EndSlice
    BY DEF ReserveReaction
  <1> HIDE DEF e
  <1> QED
    BY <1>1, <1>2, <1>3, <1>4 DEF e

\* The status of an existing row changes.
LEMMA StatusWrites ==
    ASSUME OutletInv, NEW e \in Sources, row[e].status # "absent", NEW s,
           row' = [row EXCEPT ![e].status = s]
    PROVE  Writes(e, s)
  <1>1. row \in [Sources -> Row] /\ row[e] \in Row /\ row[e].at = At[e]
    BY DEF OutletInv, TypeOK, LedgerTypeOK, EventOK, RowOK
  <1>2. row'[e] = [row[e] EXCEPT !.status = s] /\ \A u \in Sources : u # e => row'[u] = row[u]
    BY <1>1
  <1>3. /\ row'[e].status = s /\ row'[e].target = row[e].target /\ row'[e].at = row[e].at
        /\ row'[e].content = row[e].content /\ row'[e].created = row[e].created
    BY <1>1, <1>2 DEF Row
  <1> QED
    BY <1>1, <1>2, <1>3 DEF Writes

\* The write-ahead record of a reaction.
LEMMA MarkFacts ==
    ASSUME OutletInv, MarkUnknown
    PROVE  /\ Writes(Top.src, "unknown")
           /\ row[Top.src].status = "pending" /\ Top.src \in React \cup Withdraw
           /\ row[Top.src].content # Paired
  <1>1. pc = "mark" /\ pc \in Busy /\ row' = FailedRow(row, Top.src, TRUE)
    BY DEF MarkUnknown, Busy
  <1>2. row[Top.src].status = "pending" /\ Top.src \in React \cup Withdraw
    BY <1>1 DEF OutletInv, StepOK
  <1>3. row' = [row EXCEPT ![Top.src].status = "unknown"]
    BY <1>1, <1>2 DEF FailedRow
  <1>4. Top.src \in Sources /\ row[Top.src].content # Paired
    BY <1>1, <1>2, TopEvent DEF EventOK, RowOK
  <1> QED
    BY <1>2, <1>3, <1>4, StatusWrites

\* A refusal.
LEMMA RefuseFacts ==
    ASSUME OutletInv, Refuse
    PROVE  /\ Writes(Top.src, "failed") /\ row[Top.src].status = Sending(Top.src)
           /\ row[Top.src].content # Paired
  <1>1. pc = "wait" /\ pc \in Busy /\ row' = FailedRow(row, Top.src, FALSE)
    BY DEF Refuse, Busy
  <1>2. row[Top.src].status = Sending(Top.src)
    BY <1>1 DEF OutletInv, StepOK
  <1>3. row[Top.src].status \in {"pending", "unknown"}
    BY <1>2 DEF Sending
  <1>4. row' = [row EXCEPT ![Top.src].status = "failed"]
    BY <1>1, <1>3 DEF FailedRow
  <1>5. Top.src \in Sources /\ row[Top.src].content # Paired
    BY <1>1, <1>3, TopEvent DEF EventOK, RowOK
  <1> QED
    BY <1>2, <1>3, <1>4, <1>5, StatusWrites

\* An acknowledgement writes the receipt with the row, and closes the
\* reaction that a withdrawal has removed.
LEMMA AckFacts ==
    ASSUME OutletInv, Acknowledge
    PROVE  /\ row[Top.src].status = Sending(Top.src) /\ row[Top.src].content # Paired
           /\ row'[Top.src].status = "acked"
           /\ row'[Top.src].at = row[Top.src].at /\ row'[Top.src].created = row[Top.src].created
           /\ row'[Top.src].content = row[Top.src].content
           /\ receipt'[Top.src] # NoTarget
           /\ \A u \in Sources : u # Top.src => receipt'[u] = receipt[u]
           /\ \A u \in Sources : u # Top.src /\ ~ (Top.src \in Withdraw /\ u = Ref[Top.src])
                                    => row'[u] = row[u]
           /\ Top.src \in Withdraw =>
                /\ row[Ref[Top.src]].status \in {"acked", "removed"}
                /\ Ref[Top.src] # Top.src
                /\ row'[Ref[Top.src]].status = "removed"
                /\ row'[Ref[Top.src]].at = row[Ref[Top.src]].at
                /\ row'[Ref[Top.src]].created = row[Ref[Top.src]].created
                /\ row'[Ref[Top.src]].content = row[Ref[Top.src]].content
  <1> DEFINE e == Top.src
             g == IF e \in Text \cup React THEN copies[e] ELSE 1
  <1>1. /\ pc = "ack" /\ pc \in Busy /\ TypeOK /\ StepOK
        /\ row \in [Sources -> Row] /\ receipt \in [Sources -> Targets \cup {NoTarget}]
    BY DEF Acknowledge, Busy, OutletInv, TypeOK, LedgerTypeOK
  <1>2. e \in Sources /\ EventOK(e) /\ row[e] \in Row
    BY <1>1, TopEvent
  <1>3. g \in Targets /\ g # NoTarget
    BY <1>1, ReceiptType, ConstantFacts
  <1>4. row[e].status = Sending(e) /\ row[e].content # Paired
    <2>1. row[e].status = Sending(e)
      BY <1>1 DEF StepOK
    <2> QED
      BY <1>2, <2>1 DEF Sending, EventOK, RowOK
  <1>5. /\ AckedRow(row, e, g) \in [Sources -> Row]
        /\ AckedRow(row, e, g)[e].status = "acked"
        /\ AckedRow(row, e, g)[e].at = row[e].at /\ AckedRow(row, e, g)[e].created = row[e].created
        /\ AckedRow(row, e, g)[e].content = row[e].content
        /\ \A u \in Sources : u # e => AckedRow(row, e, g)[u] = row[u]
    <2> HIDE DEF g, e
    <2>1. AckedRow(row, e, g) \in [Sources -> Row]
      BY <1>1, <1>2, <1>3, AckedType
    <2> QED
      BY <1>1, <1>2, <1>3, <2>1 DEF AckedRow, Row
  <1>6. CASE e \in Withdraw
    <2>1. /\ receipt' = [receipt EXCEPT ![e] = g]
          /\ row' = SettledRow(AckedRow(row, e, g), Ref[e], "removed")
      BY <1>6 DEF Acknowledge
    <2>2. Ref[e] \in Sources /\ Ref[e] \in React /\ Ref[e] # e
      BY <1>2, <1>6, GraphFacts
    <2>3. row[Ref[e]].status \in {"acked", "removed"}
      <3>1. receipt[Ref[e]] # NoTarget
        BY <1>1, <1>6 DEF StepOK, Grounds
      <3>2. RowOK(Ref[e])
        BY <2>2 DEF OutletInv, EventOK
      <3> QED
        BY <2>2, <3>1, <3>2 DEF RowOK
    <2> DEFINE r == Ref[e]
               a == AckedRow(row, e, g)
    <2> HIDE DEF g, r, a
    <2>4. a[r] = row[r] /\ a[r] \in Row
      BY <1>1, <1>5, <2>2 DEF r, a
    <2>5. row' = [a EXCEPT ![r].status = "removed"]
      BY <2>1, <2>3, <2>4 DEF SettledRow, r, a
    <2>6. /\ \A u \in Sources : u # r => row'[u] = a[u]
          /\ row'[r] = [a[r] EXCEPT !.status = "removed"]
      BY <1>5, <2>2, <2>5 DEF r, a
    <2>7. /\ row'[r].status = "removed" /\ row'[r].at = row[r].at
          /\ row'[r].created = row[r].created /\ row'[r].content = row[r].content
      BY <2>4, <2>6 DEF Row
    <2>8. receipt'[e] = g /\ \A u \in Sources : u # e => receipt'[u] = receipt[u]
      BY <1>1, <1>2, <2>1
    <2>9. /\ row'[e] = a[e]
          /\ \A u \in Sources : u # e /\ u # r => row'[u] = row[u]
      BY <1>2, <1>5, <2>2, <2>6 DEF r, a
    <2> QED
      BY <1>3, <1>4, <1>5, <1>6, <2>2, <2>3, <2>7, <2>8, <2>9 DEF r, a
  <1>7. CASE e \notin Withdraw
    <2>1. AckOutlet(e, g, Len(stack) = 1)
      BY <1>7 DEF Acknowledge
    <2> HIDE DEF g
    <2>2. receipt' = [receipt EXCEPT ![e] = g] /\ row' = AckedRow(row, e, g)
      BY <2>1 DEF AckOutlet
    <2>3. receipt'[e] = g /\ \A u \in Sources : u # e => receipt'[u] = receipt[u]
      BY <1>1, <1>2, <2>2
    <2> QED
      BY <1>3, <1>4, <1>5, <1>7, <2>2, <2>3
  <1> QED
    BY <1>6, <1>7

\* The row of an event of a pair.
LEMMA PairedRow ==
    ASSUME NEW r \in [Sources -> Row], NEW e \in Sources, r[e].status = "absent",
           now \in Times
    PROVE  /\ PairRow(r, e) \in [Sources -> Row]
           /\ PairRow(r, e)[e] = [status |-> "skipped", target |-> NoTarget, content |-> Paired,
                                  at |-> At[e], created |-> now]
           /\ \A u \in Sources : u # e => PairRow(r, e)[u] = r[u]
  <1> DEFINE z == [status |-> "pending", target |-> NoTarget, content |-> Paired,
                   at |-> At[e], created |-> now]
             m == ReservedRow(r, e, Paired, At[e], now)
  <1>1. m = [r EXCEPT ![e] = z]
    BY DEF ReservedRow
  <1>2. Paired \in Contents /\ At[e] \in Times
    BY ConstantFacts, GraphFacts
  <1>3. m \in [Sources -> Row]
    BY <1>2, ReservedType
  <1>4. m[e] = z /\ \A u \in Sources : u # e => m[u] = r[u]
    BY <1>1
  <1>5. PairRow(r, e) = [m EXCEPT ![e].status = "skipped"]
    BY <1>4 DEF PairRow, SettledRow
  <1>6. PairRow(r, e) \in [Sources -> Row]
    BY <1>3, SettledType DEF PairRow
  <1> HIDE DEF m, z
  <1>7. PairRow(r, e)[e] = [m[e] EXCEPT !.status = "skipped"]
    BY <1>3, <1>5
  <1>8. \A u \in Sources : u # e => PairRow(r, e)[u] = r[u]
    BY <1>3, <1>4, <1>5
  <1> QED
    BY <1>4, <1>6, <1>7, <1>8 DEF z

\* A pair that is settled without an effect: neither event had a row.
LEMMA PairFacts ==
    ASSUME OutletInv, SettlePair
    PROVE  /\ UNCHANGED <<receipt, cursor, feishuVars, stack, sighted, now, relay, wire, faults>>
           /\ pc = "choose" /\ pc' = "idle" /\ snap' = {} /\ stack = <<>>
           /\ \E h \in React, w \in Withdraw :
                /\ Ref[w] = h /\ h \in snap /\ w \in snap
                /\ row[h].status = "absent" /\ row[w].status = "absent"
                /\ \A e \in {h, w} :
                     row'[e] = [status |-> "skipped", target |-> NoTarget, content |-> Paired,
                                at |-> At[e], created |-> now]
                /\ \A u \in Sources : u \notin {h, w} => row'[u] = row[u] /\ work'[u] = work[u]
  <1>1. TypeOK /\ row \in [Sources -> Row] /\ now \in Times
    BY DEF OutletInv, TypeOK, LedgerTypeOK
  <1>2. /\ UNCHANGED <<receipt, cursor, feishuVars, stack, sighted, now, relay, wire, faults>>
        /\ pc = "choose" /\ pc' = "idle" /\ snap' = {} /\ stack = <<>>
    BY <1>1 DEF SettlePair, TypeOK, Busy
  <1>3. PICK h \in Held, w \in Withdraw :
          /\ Chosen(h) /\ Pair(h, w)
          /\ row' = PairRow(PairRow(row, h), w)
          /\ work' = [work EXCEPT ![h] = NotHeld, ![w] = NotHeld]
    BY DEF SettlePair
  <1>4. /\ h \in React /\ h \in Sources /\ w \in Sources /\ h # w
        /\ Ref[w] = h /\ w \in snap
        /\ row[h].status = "absent" /\ row[w].status = "absent"
    <2>1. h \in React /\ Ref[w] = h /\ w \in snap /\ Untried(h) /\ Untried(w)
      BY <1>3, ConstantFacts DEF Pair
    <2>2. w \in Sources /\ h \in Sources /\ w \notin React
      BY <2>1, KindSets, GraphFacts
    <2> QED
      BY <2>1, <2>2 DEF Untried
  <1>5. h \in snap
    <2>1. h \in Heads
      BY <1>3 DEF Chosen
    <2>2. Topic(h) \subseteq snap /\ h \in Held
      BY <2>1 DEF Heads
    <2>3. h \in Topic(h)
      BY <2>2 DEF Topic
    <2> QED
      BY <2>2, <2>3
  <1> DEFINE a == PairRow(row, h)
  <1>6. /\ a \in [Sources -> Row]
        /\ a[h] = [status |-> "skipped", target |-> NoTarget, content |-> Paired,
                   at |-> At[h], created |-> now]
        /\ \A u \in Sources : u # h => a[u] = row[u]
    BY <1>1, <1>4, PairedRow
  <1>7. row' = PairRow(a, w)
    BY <1>3
  <1> HIDE DEF a
  <1>8. /\ row'[w] = [status |-> "skipped", target |-> NoTarget, content |-> Paired,
                      at |-> At[w], created |-> now]
        /\ \A u \in Sources : u # w => row'[u] = a[u]
    <2>1. a[w].status = "absent"
      BY <1>4, <1>6
    <2> QED
      BY <1>1, <1>4, <1>6, <1>7, <2>1, PairedRow
  <1>9. \A e \in {h, w} : row'[e] = [status |-> "skipped", target |-> NoTarget, content |-> Paired,
                                     at |-> At[e], created |-> now]
    BY <1>4, <1>6, <1>8
  <1>10. \A u \in Sources : u \notin {h, w} => row'[u] = row[u] /\ work'[u] = work[u]
    BY <1>1, <1>3, <1>4, <1>6, <1>8 DEF TypeOK
  <1> QED
    BY <1>2, <1>3, <1>4, <1>5, <1>9, <1>10

\* A request that lands makes one effect, and no second message or reaction.
LEMMA LandFacts ==
    ASSUME OutletInv, NEW q \in wire, Land(q)
    PROVE  /\ UNCHANGED <<ledgerVars, queueVars, controlVars, now, relay, faults>>
           /\ wire' = wire \ {q} /\ q.src \in Sources /\ WireOK(q)
           /\ \A u \in Sources : u # q.src => copies'[u] = copies[u] /\ firstAt'[u] = firstAt[u]
           /\ \A u \in Sources : copies[u] \in Nat /\ copies'[u] \in Nat /\ copies[u] <= copies'[u]
           /\ copies'[q.src] > 0
           /\ q.src \in Text \cup React => copies'[q.src] = 1
           /\ q.src \in Text => firstAt'[q.src] = IF copies[q.src] = 0 THEN now ELSE firstAt[q.src]
  <1> DEFINE e == q.src
             fresh == IF e \in Text
                      THEN copies[e] = 0 \/ now - firstAt[e] > DedupWindow
                      ELSE e \in React \/ copies[e] = 0
  <1>1. /\ UNCHANGED <<ledgerVars, queueVars, controlVars, now, relay, faults>>
        /\ wire' = wire \ {q}
        /\ copies' = [copies EXCEPT ![e] = IF fresh /\ @ < MaxCopies THEN @ + 1 ELSE @]
        /\ firstAt' = [firstAt EXCEPT ![e] = IF e \in Text /\ copies[e] = 0 THEN now ELSE @]
    BY DEF Land
  <1>2. /\ e \in Sources /\ WireOK(q) /\ EventOK(e)
        /\ copies \in [Sources -> 0 .. 2] /\ firstAt \in [Sources -> Times]
        /\ row[e] \in Row /\ q.by \in Nat /\ now \in Nat
    BY TimesAreNat DEF OutletInv, TypeOK, LedgerTypeOK, MaxCopies
  <1>3. copies[e] \in {0, 1, 2} /\ copies'[e] = IF fresh /\ copies[e] < 2 THEN copies[e] + 1 ELSE copies[e]
    <2>1. copies[e] \in 0 .. 2
      BY <1>2
    <2> QED
      BY <1>1, <1>2, <2>1 DEF MaxCopies
  <1>4. firstAt'[e] = IF e \in Text /\ copies[e] = 0 THEN now ELSE firstAt[e]
    BY <1>1, <1>2
  <1>5. \A u \in Sources : u # e => copies'[u] = copies[u] /\ firstAt'[u] = firstAt[u]
    BY <1>1, <1>2
  <1>6. \A u \in Sources : copies[u] \in Nat /\ copies'[u] \in Nat /\ copies[u] <= copies'[u]
    <2>1. \A u \in Sources : copies[u] \in 0 .. 2
      BY <1>2
    <2> HIDE DEF fresh
    <2> QED
      BY <1>3, <1>5, <2>1
  <1>7. CASE e \in Text
    <2>1. e \notin React
      BY <1>2, <1>7, GraphFacts
    <2>2. copies[e] > 0 => ~ (now - firstAt[e] > DedupWindow)
      <3>1. copies[e] > 0 => row[e].created <= firstAt[e]
        BY <1>2, <1>7 DEF EventOK, MessageOK
      <3>2. now <= q.by /\ q.by <= row[e].created + DedupWindow
        BY <1>2, <1>7 DEF WireOK
      <3>3. row[e].created \in Nat /\ firstAt[e] \in Nat /\ DedupWindow \in Nat
        BY <1>2, TimesAreNat, ConstantFacts DEF Row
      <3> QED
        BY <1>2, <3>1, <3>2, <3>3
    <2>3. copies[e] <= 1
      BY <1>2, <1>7 DEF EventOK, MessageOK
    <2>4. copies'[e] = 1
      BY <1>3, <1>7, <2>2, <2>3
    <2> QED
      BY <1>1, <1>2, <1>4, <1>5, <1>6, <1>7, <2>1, <2>4
  <1>8. CASE e \notin Text
    <2>1. e \in React => copies[e] = 0
      BY <1>2, <1>8 DEF WireOK
    <2>2. copies'[e] > 0 /\ (e \in React => copies'[e] = 1)
      BY <1>3, <1>8, <2>1
    <2> QED
      BY <1>1, <1>2, <1>5, <1>6, <1>8, <2>2
  <1> QED
    BY <1>7, <1>8

-----------------------------------------------------------------------------
(* Rows, receipts and effects. *)

\* A step that leaves the row, the receipt and the effects of an event alone.
LEMMA EventKept ==
    ASSUME TypeOK, NEW e \in Sources, EventOK(e),
           relay \subseteq relay', now' \in Nat, now <= now',
           row'[e] = row[e], receipt'[e] = receipt[e],
           e \in Withdraw /\ row[Ref[e]].status = "removed" => row'[Ref[e]].status = "removed",
           UNCHANGED <<copies, firstAt>>
    PROVE  EventOK(e)'
  <1>1. row[e].created \in Nat /\ now \in Nat
    <2>1. row[e] \in Row
      BY DEF TypeOK, LedgerTypeOK
    <2> QED
      BY <2>1, TimesAreNat DEF Row, TypeOK
  <1>2. RowOK(e)'
    BY <1>1 DEF EventOK, RowOK
  <1>3. MessageOK(e)'
    BY DEF EventOK, MessageOK
  <1>4. Visible(e)' = Visible(e)
    BY DEF Visible
  <1>5. ReactionOK(e)'
    BY <1>4 DEF EventOK, ReactionOK
  <1> QED
    BY <1>2, <1>3, <1>5 DEF EventOK

\* The status of an event's row changes: not away from an acknowledgement,
\* and a reaction that Feishu shows does not go back to an open row.
LEMMA EventWritten ==
    ASSUME OutletInv, pc \in Busy, NEW e \in Sources, e = Top.src,
           NEW s \in Statuses \ {"absent"}, Writes(e, s),
           UNCHANGED <<receipt, copies, firstAt, relay, now>>,
           row[e].content # Paired,
           \/ s = row[e].status
           \/ /\ row[e].status \notin {"acked", "removed"}
              /\ s \in {"pending", "failed"} /\ e \in React => copies[e] = 0
              /\ s \in {"pending", "failed", "unknown", "skipped"}
              /\ s = "unknown" => e \in React \cup Withdraw
              /\ s = "skipped" => e \in Edit,
           NEW u \in Sources
    PROVE  EventOK(u)'
  <1>1. /\ e \in Sources /\ e \in relay /\ EventOK(e) /\ EventOK(u) /\ TypeOK /\ now \in Nat
        /\ Top.t0 \in Nat /\ Top.t0 <= now /\ row[e] \in Row
    BY TopEvent DEF OutletInv
  <1>2. CASE u # e
    <2>1. row'[u] = row[u]
      BY <1>1, <1>2 DEF Writes
    <2>2. u \in Withdraw /\ row[Ref[u]].status = "removed" => row'[Ref[u]].status = "removed"
      <3>1. CASE Ref[u] = e
        BY <3>1 DEF Writes
      <3>2. CASE Ref[u] # e
        BY <1>1, <3>2, GraphFacts DEF Writes
      <3> QED
        BY <3>1, <3>2
    <2> QED
      BY <1>1, <2>1, <2>2, EventKept
  <1>3. CASE u = e
    <2>0. /\ row'[e].status = s /\ s # "absent"
          /\ row'[e].at = At[e]
          /\ row'[e].content = IF row[e].status = "absent" THEN Own ELSE row[e].content
          /\ row'[e].created = IF row[e].status = "absent" THEN Top.t0 ELSE row[e].created
      BY DEF Writes
    <2>1. RowOK(e)'
      <3>1. row'[e].content \in {Own, Paired} /\ row'[e].content # Paired
        BY <1>1, <2>0, ConstantFacts DEF EventOK, RowOK
      <3>2. row'[e].created <= now
        BY <1>1, <2>0 DEF EventOK, RowOK
      <3>3. /\ s = "skipped" => e \notin Text
            /\ s \in {"removed", "abandoned", "unknown"} => e \in React \cup Withdraw
        BY <1>1, GraphFacts DEF EventOK, RowOK
      <3>4. receipt[e] # NoTarget /\ e \in React => s \in {"acked", "removed"}
        BY <1>1 DEF EventOK, RowOK
      <3>5. s = "acked" /\ e \notin Withdraw => copies[e] > 0
        BY <1>1 DEF EventOK, RowOK
      <3> QED
        BY <1>1, <2>0, <3>1, <3>2, <3>3, <3>4, <3>5 DEF RowOK
    <2>2. MessageOK(e)'
      <3>1. copies[e] > 0 => row[e].status # "absent"
        BY <1>1 DEF EventOK, RowOK
      <3> QED
        BY <1>1, <2>0, <3>1 DEF EventOK, MessageOK
    <2>3. Visible(e)' = Visible(e)
      BY DEF Visible
    <2>4. ReactionOK(e)'
      <3>1. e \in Withdraw /\ s = "acked" => row'[Ref[e]].status = "removed"
        <4>1. e \in Withdraw => Ref[e] \in Sources /\ Ref[e] # e
          BY <1>1, GraphFacts
        <4> QED
          BY <1>1, <4>1 DEF EventOK, ReactionOK, Writes
      <3>2. e \in React => /\ copies[e] <= 1
                           /\ copies[e] > 0 => s \in {"unknown", "acked", "removed"}
                           /\ s = "removed" => copies[e] > 0 /\ ~ Visible(e)
        <4>1. e \in React => e \notin Edit
          BY <1>1, GraphFacts
        <4>2. copies[e] \in Nat
          <5>1. copies[e] \in 0 .. MaxCopies
            BY <1>1 DEF TypeOK
          <5> QED
            BY <5>1 DEF MaxCopies
        <4> QED
          BY <1>1, <4>1, <4>2 DEF EventOK, ReactionOK
      <3> QED
        BY <2>0, <2>3, <3>1, <3>2 DEF ReactionOK
    <2> QED
      BY <1>3, <2>1, <2>2, <2>4 DEF EventOK
  <1> QED
    BY <1>2, <1>3

\* A request that lands agrees with the row it was reserved by.
LEMMA LandEvents ==
    ASSUME OutletInv, NEW q \in wire, Land(q), NEW u \in Sources
    PROVE  EventOK(u)'
  <1> DEFINE e == q.src
  <1>1. /\ UNCHANGED <<ledgerVars, now, relay>>
        /\ e \in Sources /\ WireOK(q) /\ EventOK(u) /\ EventOK(e) /\ TypeOK
        /\ \A x \in Sources : x # e => copies'[x] = copies[x] /\ firstAt'[x] = firstAt[x]
        /\ \A x \in Sources : copies[x] \in Nat /\ copies'[x] \in Nat /\ copies[x] <= copies'[x]
        /\ copies'[e] > 0
        /\ e \in Text \cup React => copies'[e] = 1
        /\ e \in Text => firstAt'[e] = IF copies[e] = 0 THEN now ELSE firstAt[e]
    BY LandFacts DEF OutletInv
  <1>2. row' = row /\ receipt' = receipt /\ relay' = relay /\ now' = now
    BY <1>1 DEF ledgerVars
  <1>3. row[e].status # "absent"
    BY <1>1 DEF WireOK
  <1> HIDE DEF e
  <1>4. RowOK(u)'
    <2>1. row[u].status = "absent" => copies'[u] = 0
      BY <1>1, <1>3 DEF EventOK, RowOK
    <2>2. copies[u] > 0 => copies'[u] > 0
      BY <1>1
    <2> QED
      BY <1>1, <1>2, <2>1, <2>2 DEF EventOK, RowOK
  <1>5. MessageOK(u)'
    <2>1. CASE u # e
      <3>1. u \in Text /\ copies[u] > 0 /\ Ref[u] # None => copies'[Ref[u]] > 0
        <4>1. Ref[u] # None => Ref[u] \in Sources
          BY GraphFacts
        <4> QED
          BY <1>1, <4>1 DEF EventOK, MessageOK
      <3> QED
        BY <1>1, <1>2, <2>1, <3>1 DEF EventOK, MessageOK
    <2>2. CASE u = e
      <3>1. u \in Text => row[u].created <= firstAt'[u]
        <4>1. row[u].created <= now
          BY <1>1, <1>3, <2>2 DEF EventOK, RowOK
        <4>2. u \in Text /\ copies[u] > 0 => row[u].created <= firstAt[u]
          BY <1>1 DEF EventOK, MessageOK
        <4>3. copies[u] \in Nat
          BY <1>1
        <4> QED
          BY <1>1, <2>2, <4>1, <4>2, <4>3
      <3>2. u \in Text /\ Ref[u] # None => copies'[Ref[u]] > 0
        <4>1. Ref[u] # None => Ref[u] \in Sources
          BY GraphFacts
        <4>2. u \in Text /\ Ref[u] # None => copies[Ref[u]] > 0
          BY <1>1, <2>2 DEF WireOK, e
        <4> QED
          BY <1>1, <4>1, <4>2
      <3> QED
        BY <1>1, <1>2, <2>2, <3>1, <3>2 DEF MessageOK
    <2> QED
      BY <2>1, <2>2
  <1>6. ReactionOK(u)'
    <2>1. u \in React /\ row[u].status = "removed" => copies'[u] > 0 /\ ~ Visible(u)'
      <3>1. ASSUME u \in React, row[u].status = "removed"
            PROVE  copies[u] > 0 /\ \E w \in Withdraw : Ref[w] = u /\ copies[w] # 0
        BY <1>1, <3>1 DEF EventOK, ReactionOK, Visible
      <3>2. \A w \in Withdraw : copies[w] # 0 => copies'[w] # 0
        BY <1>1, KindSets
      <3> QED
        BY <1>1, <3>1, <3>2 DEF Visible
    <2>2. u \in React => copies'[u] <= 1
      BY <1>1 DEF EventOK, ReactionOK
    <2>3. u \in React => row[u].status \in {"unknown", "acked", "removed"} \/ copies'[u] = 0
      <3>1. CASE u = e
        BY <1>1, <3>1 DEF WireOK, e
      <3>2. CASE u # e
        BY <1>1, <3>2 DEF EventOK, ReactionOK
      <3> QED
        BY <3>1, <3>2
    <2> QED
      BY <1>1, <1>2, <2>1, <2>2, <2>3 DEF EventOK, ReactionOK
  <1> QED
    BY <1>4, <1>5, <1>6 DEF EventOK

\* A pair settled without an effect agrees with having no effect.
LEMMA PairEvents ==
    ASSUME OutletInv, SettlePair, NEW u \in Sources
    PROVE  EventOK(u)'
  <1>0. PICK h \in React, w \in Withdraw :
          /\ Ref[w] = h /\ h \in snap /\ w \in snap
          /\ row[h].status = "absent" /\ row[w].status = "absent"
          /\ \A e \in {h, w} :
               row'[e] = [status |-> "skipped", target |-> NoTarget, content |-> Paired,
                          at |-> At[e], created |-> now]
          /\ \A x \in Sources : x \notin {h, w} => row'[x] = row[x]
    BY PairFacts
  <1>1. /\ UNCHANGED <<receipt, copies, firstAt, now, relay>>
        /\ TypeOK /\ EventOK(u) /\ now \in Nat /\ snap \subseteq relay
        /\ h \in Sources /\ w \in Sources
    BY PairFacts, TimesAreNat, KindSets DEF feishuVars, OutletInv, TypeOK
  <1>2. CASE u \notin {h, w}
    <2>1. u \in Withdraw /\ row[Ref[u]].status = "removed" => row'[Ref[u]].status = "removed"
      BY <1>0, GraphFacts
    <2>2. row'[u] = row[u]
      BY <1>0, <1>2
    <2> QED
      BY <1>1, <2>1, <2>2, EventKept
  <1>3. CASE u \in {h, w}
    <2>1. /\ row'[u].status = "skipped" /\ row'[u].content = Paired /\ row'[u].at = At[u]
          /\ row'[u].created = now
          /\ row[u].status = "absent" /\ u \in React \cup Withdraw /\ u \notin Text
          /\ u \in relay
      BY <1>0, <1>1, <1>3, GraphFacts
    <2>2. copies[u] = 0 /\ receipt[u] = NoTarget
      BY <1>1, <2>1 DEF EventOK, RowOK
    <2>3. RowOK(u)'
      BY <1>1, <2>1, <2>2 DEF RowOK
    <2>4. MessageOK(u)' /\ ReactionOK(u)'
      BY <1>1, <2>1, <2>2 DEF MessageOK, ReactionOK
    <2> QED
      BY <2>3, <2>4 DEF EventOK
  <1> QED
    BY <1>2, <1>3

\* An acknowledgement says what Feishu shows.
LEMMA AckEvents ==
    ASSUME OutletInv, Acknowledge, NEW e \in Sources, e = Top.src, NEW u \in Sources
    PROVE  EventOK(u)'
  <1>1. /\ pc = "ack" /\ pc \in Busy /\ TypeOK /\ StepOK /\ EventOK(u) /\ EventOK(e)
        /\ UNCHANGED <<copies, firstAt, now, relay>> /\ now \in Nat
    BY TimesAreNat DEF Acknowledge, Busy, OutletInv, feishuVars, TypeOK
  <1>2. /\ row[e].status = Sending(e) /\ row[e].content # Paired
        /\ row'[e].status = "acked"
        /\ row'[e].at = row[e].at /\ row'[e].created = row[e].created
        /\ row'[e].content = row[e].content
        /\ receipt'[e] # NoTarget
        /\ \A x \in Sources : x # e => receipt'[x] = receipt[x]
        /\ \A x \in Sources : x # e /\ ~ (e \in Withdraw /\ x = Ref[e]) => row'[x] = row[x]
        /\ e \in Withdraw =>
             /\ row[Ref[e]].status \in {"acked", "removed"}
             /\ Ref[e] # e
             /\ row'[Ref[e]].status = "removed"
             /\ row'[Ref[e]].at = row[Ref[e]].at
             /\ row'[Ref[e]].created = row[Ref[e]].created
             /\ row'[Ref[e]].content = row[Ref[e]].content
    BY AckFacts
  <1>3. /\ e \notin Withdraw => copies[e] > 0
        /\ e \in Withdraw => ~ Visible(Ref[e])
    BY <1>1 DEF StepOK
  <1>4. row[e].status # "absent"
    BY <1>2 DEF Sending
  <1>5. Visible(u)' = Visible(u)
    BY <1>1 DEF Visible
  <1>6. CASE u = e
    <2>1. RowOK(u)'
      BY <1>1, <1>2, <1>3, <1>4, <1>6 DEF EventOK, RowOK
    <2>2. MessageOK(u)'
      BY <1>1, <1>2, <1>6 DEF EventOK, MessageOK
    <2>3. ReactionOK(u)'
      BY <1>1, <1>2, <1>6, GraphFacts DEF EventOK, ReactionOK
    <2> QED
      BY <2>1, <2>2, <2>3 DEF EventOK
  <1>7. CASE u # e /\ e \in Withdraw /\ u = Ref[e]
    <2>1. u \in React /\ u \notin Text /\ u \notin Withdraw
      BY <1>7, GraphFacts
    <2>2. RowOK(u)'
      BY <1>1, <1>2, <1>7, <2>1 DEF EventOK, RowOK
    <2>3. MessageOK(u)'
      BY <2>1 DEF MessageOK
    <2>4. ReactionOK(u)'
      <3>1. copies[u] > 0
        BY <1>1, <1>2, <1>7, <2>1 DEF EventOK, RowOK, ReactionOK
      <3>2. ~ Visible(u)'
        BY <1>3, <1>5, <1>7
      <3> QED
        BY <1>1, <1>2, <1>7, <2>1, <3>1, <3>2 DEF EventOK, ReactionOK
    <2> QED
      BY <2>2, <2>3, <2>4 DEF EventOK
  <1>8. CASE u # e /\ ~ (e \in Withdraw /\ u = Ref[e])
    <2>1. row'[u] = row[u] /\ receipt'[u] = receipt[u]
      BY <1>2, <1>8
    <2>2. u \in Withdraw /\ row[Ref[u]].status = "removed" => row'[Ref[u]].status = "removed"
      <3>1. CASE Ref[u] = e
        <4>1. u \in Withdraw => e \in React
          BY <3>1, GraphFacts
        <4>2. row[e].status # "removed"
          BY <1>2 DEF Sending
        <4> QED
          BY <3>1, <4>2
      <3>2. CASE e \in Withdraw /\ Ref[u] = Ref[e]
        BY <1>2, <3>2
      <3>3. CASE Ref[u] # e /\ ~ (e \in Withdraw /\ Ref[u] = Ref[e])
        BY <1>2, <3>3, GraphFacts
      <3> QED
        BY <3>1, <3>2, <3>3
    <2> QED
      BY <1>1, <2>1, <2>2, EventKept
  <1> QED
    BY <1>6, <1>7, <1>8

\* Every step keeps rows, receipts and effects in agreement.
LEMMA EventsStep ==
    ASSUME OutletInv, Next, TypeOK', NEW u \in Sources
    PROVE  EventOK(u)'
  <1>0. TypeOK /\ EventOK(u) /\ now \in Nat /\ now' \in Nat
    BY TimesAreNat DEF OutletInv, TypeOK
  <1>1. ASSUME UNCHANGED <<row, receipt, copies, firstAt>>, relay \subseteq relay', now <= now'
        PROVE  EventOK(u)'
    BY <1>0, <1>1, EventKept
  <1>2. ASSUME UNCHANGED <<ledgerVars, feishuVars, now, relay>> PROVE EventOK(u)'
    BY <1>0, <1>1, <1>2 DEF ledgerVars, feishuVars
  <1>3. ASSUME NEW e \in Sources, Publish(e) PROVE EventOK(u)'
    BY <1>0, <1>1, <1>3 DEF Publish, ledgerVars, feishuVars
  <1>4. CASE Tick
    BY <1>0, <1>1, <1>4 DEF Tick, ledgerVars, feishuVars
  <1>5. ASSUME NEW q \in wire, Land(q) PROVE EventOK(u)'
    BY <1>5, LandEvents
  <1>6. CASE ReadHistory \/ Capture \/ Start \/ NothingDue
    BY <1>2, <1>6 DEF ReadHistory, Capture, Start, NothingDue
  <1>7. CASE SettlePair
    BY <1>7, PairEvents
  <1>8. CASE \/ Enter \/ OutOfScope \/ Resolve \/ Unresolved \/ Readback \/ Call \/ Reply \/ Return
             \/ ReadFails \/ LoseAnswer \/ Crash
    BY <1>2, <1>8 DEF Enter, OutOfScope, Resolve, Unresolved, Readback, Call, Reply, Return,
                      ReadFails, LoseAnswer, Crash
  <1>9. CASE ReserveMessage
    <2>0. pc \in Busy
      BY <1>9 DEF ReserveMessage, Busy
    <2>1. PICK e \in Sources : e = Top.src
      BY <2>0, TopEvent
    <2>2. /\ row[e].content # Paired /\ e \in Text \cup Edit /\ e \notin React \cup Withdraw
          /\ UNCHANGED <<receipt, copies, firstAt, relay, now>>
      BY <1>9, <2>1, ReserveMessageFacts, GraphFacts DEF feishuVars
    <2>3. row[e].status \in Statuses
      BY DEF OutletInv, TypeOK, LedgerTypeOK, Row
    <2>4. \E s \in Statuses \ {"absent"} :
            /\ Writes(e, s)
            /\ \/ s = row[e].status
               \/ /\ row[e].status \notin {"acked", "removed"}
                  /\ s \in {"pending", "skipped"}
                  /\ s = "skipped" => e \in Edit
      <3>1. \/ Writes(e, row[e].status) /\ row[e].status \in {"acked", "skipped"}
            \/ Writes(e, "skipped") /\ row[e].status # "acked" /\ e \in Edit
            \/ Writes(e, "pending") /\ row[e].status \in {"absent", "pending", "failed"}
            \/ Writes(e, IF row[e].status = "absent" THEN "pending" ELSE row[e].status)
        BY <1>9, <2>1, ReserveMessageFacts
      <3>2. row[e].status # "removed"
        <4>1. EventOK(e)
          BY DEF OutletInv
        <4> QED
          BY <2>2, <4>1 DEF EventOK, RowOK
      <3>3. {"pending", "skipped", "acked"} \subseteq Statuses \ {"absent"}
        BY DEF Statuses, Unsettled, Settled
      <3> QED
        BY <2>3, <3>1, <3>2, <3>3
    <2> QED
      BY <2>0, <2>1, <2>2, <2>4, EventWritten
  <1>10. CASE ReserveReaction
    <2>0. pc \in Busy
      BY <1>10 DEF ReserveReaction, Busy
    <2>1. PICK e \in Sources : e = Top.src
      BY <2>0, TopEvent
    <2>2. /\ row[e].content # Paired /\ e \in React \cup Withdraw /\ e \notin Text
          /\ UNCHANGED <<receipt, copies, firstAt, relay, now>>
      BY <1>10, <2>1, ReserveReactionFacts, GraphFacts DEF feishuVars
    <2>3. row[e].status \in Statuses /\ EventOK(e)
      BY DEF OutletInv, TypeOK, LedgerTypeOK, Row
    <2>4. \E s \in Statuses \ {"absent"} :
            /\ Writes(e, s)
            /\ \/ s = row[e].status
               \/ /\ row[e].status \notin {"acked", "removed"}
                  /\ s = "unknown"
               \/ /\ row[e].status \in {"absent", "failed"}
                  /\ s = "pending"
      <3>1. \/ Writes(e, row[e].status) /\ row[e].status # "absent"
            \/ Writes(e, "unknown") /\ row[e].status \in {"pending", "unknown"}
            \/ Writes(e, "pending") /\ row[e].status \in {"absent", "failed"}
        BY <1>10, <2>1, ReserveReactionFacts
      <3>2. {"pending", "unknown"} \subseteq Statuses \ {"absent"}
        BY DEF Statuses, Unsettled, Settled
      <3> QED
        BY <2>3, <3>1, <3>2
    <2>5. row[e].status \in {"absent", "failed"} /\ e \in React => copies[e] = 0
      <3>1. copies[e] \in Nat
        <4>1. copies[e] \in 0 .. MaxCopies
          BY <1>0 DEF TypeOK
        <4> QED
          BY <4>1 DEF MaxCopies
      <3> QED
        BY <2>3, <3>1 DEF EventOK, ReactionOK
    <2> QED
      BY <2>0, <2>1, <2>2, <2>4, <2>5, EventWritten
  <1>11. CASE MarkUnknown
    <2>0. pc \in Busy /\ UNCHANGED <<receipt, copies, firstAt, relay, now>>
      BY <1>11 DEF MarkUnknown, Busy, feishuVars
    <2>1. PICK e \in Sources : e = Top.src
      BY <2>0, TopEvent
    <2>2. /\ Writes(e, "unknown") /\ row[e].status = "pending" /\ e \in React \cup Withdraw
          /\ row[e].content # Paired /\ e \notin Text
      BY <1>11, <2>1, MarkFacts, GraphFacts
    <2>3. "unknown" \in Statuses \ {"absent"}
      BY DEF Statuses, Unsettled
    <2> QED
      BY <2>0, <2>1, <2>2, <2>3, EventWritten
  <1>12. CASE Refuse
    <2>0. pc \in Busy /\ UNCHANGED <<receipt, copies, firstAt, relay, now>>
      BY <1>12 DEF Refuse, Busy, feishuVars
    <2>1. PICK e \in Sources : e = Top.src
      BY <2>0, TopEvent
    <2>2. /\ Writes(e, "failed") /\ row[e].status = Sending(e) /\ row[e].content # Paired
      BY <1>12, <2>1, RefuseFacts
    <2>3. "failed" \in Statuses \ {"absent"} /\ row[e].status \notin {"acked", "removed"}
      BY <2>2 DEF Statuses, Unsettled, Sending
    <2>4. e \in React => copies[e] = 0
      <3>1. PICK q \in wire : q.current
        BY <1>12 DEF Refuse
      <3>2. WireOK(q)
        BY DEF OutletInv
      <3>3. q.src = e
        BY <2>1, <3>1, <3>2 DEF WireOK
      <3> QED
        BY <3>2, <3>3 DEF WireOK
    <2> QED
      BY <2>0, <2>1, <2>2, <2>3, <2>4, EventWritten
  <1>13. CASE Acknowledge
    <2>0. pc \in Busy
      BY <1>13 DEF Acknowledge, Busy
    <2>1. PICK e \in Sources : e = Top.src
      BY <2>0, TopEvent
    <2> QED
      BY <1>13, <2>1, AckEvents
  <1> QED
    BY <1>3, <1>4, <1>5, <1>6, <1>7, <1>8, <1>9, <1>10, <1>11, <1>12, <1>13
    DEF Next, Slice, Attempt, Failure

-----------------------------------------------------------------------------
(* Requests on their way. *)

\* A request that no step touches: its row keeps its age, no effect of its
\* event comes about, and whoever waits for it still waits.
LEMMA WireKept ==
    ASSUME NEW q \in wire, WireOK(q), q.src \in Sources, now' <= q.by,
           row'[q.src].status # "absent", row'[q.src].created = row[q.src].created,
           q.src \in React => row'[q.src].status = "unknown" /\ copies'[q.src] = 0,
           Ref[q.src] # None /\ q.src \in Text => copies[Ref[q.src]] <= copies'[Ref[q.src]],
           Ref[q.src] # None => copies[Ref[q.src]] \in Nat /\ copies'[Ref[q.src]] \in Nat,
           wire' \subseteq wire,
           q.current => UNCHANGED <<pc, stack>>
    PROVE  WireOK(q)'
  BY DEF WireOK, Top

\* A step that leaves the clock, the effects and the wire alone, and the row
\* of the request as it was.
LEMMA WireSame ==
    ASSUME OutletInv, NEW q \in wire,
           UNCHANGED <<now, copies, wire>>,
           row'[q.src].status # "absent", row'[q.src].created = row[q.src].created,
           q.src \in React => row'[q.src].status = "unknown",
           q.current => UNCHANGED <<pc, stack>>
    PROVE  WireOK(q)'
  <1>1. WireOK(q) /\ q.src \in Sources /\ TypeOK
    BY DEF OutletInv, TypeOK
  <1>2. \A u \in Sources : copies[u] \in Nat
    <2>1. \A u \in Sources : copies[u] \in 0 .. MaxCopies
      BY <1>1 DEF TypeOK
    <2> QED
      BY <2>1 DEF MaxCopies
  <1>3. Ref[q.src] # None => Ref[q.src] \in Sources
    BY <1>1, GraphFacts
  <1> QED
    BY <1>1, <1>2, <1>3, WireKept DEF WireOK

\* A row that changes while its request is on its way.
LEMMA WireWritten ==
    ASSUME OutletInv, NEW q \in wire, NEW e \in Sources, e = Top.src, NEW s, Writes(e, s),
           s # "absent", e \in React => s = "unknown" \/ row[e].status # "unknown",
           pc # "wait", UNCHANGED <<now, copies, wire>>
    PROVE  WireOK(q)'
  <1>1. WireOK(q) /\ q.src \in Sources
    BY DEF OutletInv, TypeOK
  <1>2. ~ q.current
    BY <1>1 DEF WireOK
  <1>3. row'[q.src].status # "absent" /\ row'[q.src].created = row[q.src].created
    <2>1. row[q.src].status # "absent"
      BY <1>1 DEF WireOK
    <2> QED
      BY <1>1, <2>1 DEF Writes
  <1>4. q.src \in React => row'[q.src].status = "unknown"
    BY <1>1 DEF WireOK, Writes
  <1> QED
    BY <1>2, <1>3, <1>4, WireSame

\* The request a lost answer leaves behind.
LEMMA RequestLeft ==
    ASSUME NEW S, NEW x \in [src : S, by : Nat, current : BOOLEAN]
    PROVE  [x EXCEPT !.current = FALSE] = [src |-> x.src, by |-> x.by, current |-> FALSE]
  <1> DEFINE y == [x EXCEPT !.current = FALSE]
  <1>1. y \in [src : S, by : Nat, current : BOOLEAN]
    OBVIOUS
  <1>2. y.src = x.src /\ y.by = x.by /\ y.current = FALSE
    OBVIOUS
  <1> HIDE DEF y
  <1>3. y = [src |-> y.src, by |-> y.by, current |-> y.current]
    BY <1>1
  <1>4. y = [src |-> x.src, by |-> x.by, current |-> FALSE]
    BY <1>2, <1>3
  <1> QED
    BY <1>4 DEF y

\* What the wire keeps of a call that was given up.
LEMMA WireAbandoned ==
    ASSUME OutletInv, wire' = Abandoned, UNCHANGED <<now, copies, row>>, NEW q \in wire'
    PROVE  WireOK(q)'
  <1>1. PICK p \in wire : /\ q.src = p.src /\ q.by = p.by /\ q.current = FALSE
                          /\ \A x \in wire' : x.src = p.src => (p.src \in React => x = q)
    <2>1. \A x \in wire : x = [src |-> x.src, by |-> x.by, current |-> x.current]
      BY DEF OutletInv, TypeOK
    <2>2. \A x \in wire' : \E y \in wire : x = [src |-> y.src, by |-> y.by, current |-> FALSE]
      <3>1. CASE LateLanding
        <4>1. wire' = {[x EXCEPT !.current = FALSE] : x \in wire}
          BY <3>1 DEF Abandoned
        <4>2. ASSUME NEW x \in wire
              PROVE  [x EXCEPT !.current = FALSE]
                       = [src |-> x.src, by |-> x.by, current |-> FALSE]
          <5>1. x \in [src : Sources, by : Nat, current : BOOLEAN]
            BY DEF OutletInv, TypeOK
          <5> QED
            BY <5>1, RequestLeft
        <4> QED
          BY <4>1, <4>2
      <3>2. CASE ~ LateLanding
        <4>1. wire' = {x \in wire : ~ x.current}
          BY <3>2 DEF Abandoned
        <4>2. \A x \in wire : x.current \in BOOLEAN
          BY DEF OutletInv, TypeOK
        <4> QED
          BY <2>1, <4>1, <4>2
      <3> QED
        BY <3>1, <3>2
    <2>3. PICK p \in wire : q = [src |-> p.src, by |-> p.by, current |-> FALSE]
      BY <2>2
    <2>4. ASSUME NEW x \in wire', x.src = p.src, p.src \in React PROVE x = q
      <3>1. PICK y \in wire : x = [src |-> y.src, by |-> y.by, current |-> FALSE]
        BY <2>2
      <3>2. y.src = p.src
        BY <2>4, <3>1
      <3>3. y = p
        BY <2>4, <3>2 DEF OutletInv, WireOK
      <3> QED
        BY <2>3, <3>1, <3>3
    <2> QED
      BY <2>3, <2>4
  <1>2. WireOK(p)
    BY DEF OutletInv
  <1> QED
    BY <1>1, <1>2 DEF WireOK

\* A new request: the row says it is being sent, and for a reaction nothing
\* of it was ever sent that may still take effect.
LEMMA WireCalled ==
    ASSUME OutletInv, Call, NEW q \in wire'
    PROVE  WireOK(q)'
  <1>1. /\ pc = "call" /\ pc' = "wait" /\ pc \in Busy
        /\ wire' = wire \cup {[src |-> Top.src, by |-> Top.t0 + Margin, current |-> TRUE]}
        /\ UNCHANGED <<row, stack, now, copies>>
    BY DEF Call, Busy, ledgerVars, feishuVars
  <1>2. Top' = Top
    BY <1>1 DEF Top
  <1>3. PICK e \in Sources : e = Top.src
    BY <1>1, TopEvent
  <1>4. /\ EventOK(e) /\ row[e] \in Row /\ StepOK
        /\ Top.t0 \in Nat /\ Top.t0 <= now /\ now <= Top.t0 + Margin /\ now \in Nat
    BY <1>1, <1>3, TopEvent DEF OutletInv
  <1>5. /\ Grounds(e) /\ row[e].status = Sending(e)
        /\ e \in Text => Top.t0 - row[e].created <= RetryWindow
        /\ e \in React => copies[e] = 0 /\ \A x \in wire : x.src # e
    BY <1>1, <1>3, <1>4 DEF StepOK
  <1>6. CASE q \in wire
    <2>1. WireOK(q) /\ ~ q.current
      BY <1>1, <1>6 DEF OutletInv, WireOK
    <2>2. q.src \in React => \A p \in wire' : p.src = q.src => p = q
      BY <1>1, <1>3, <1>5, <1>6, <2>1 DEF WireOK
    <2> QED
      BY <1>1, <2>1, <2>2 DEF WireOK
  <1>7. CASE q = [src |-> Top.src, by |-> Top.t0 + Margin, current |-> TRUE]
    <2>1. q.src = e /\ q.by = Top.t0 + Margin /\ q.current = TRUE
      BY <1>3, <1>7
    <2>2. row[e].status # "absent"
      BY <1>5 DEF Sending
    <2>3. e \in Text => /\ q.by <= row[e].created + DedupWindow
                        /\ Ref[e] # None => copies[Ref[e]] > 0
      <3>1. e \in Text => e \notin Withdraw
        BY GraphFacts
      <3>2. row[e].created \in Nat
        BY <1>4, TimesAreNat DEF Row
      <3> QED
        BY <1>4, <1>5, <2>1, <3>1, <3>2, ConstantFacts DEF Grounds
    <2>4. e \in React => /\ copies[e] = 0 /\ row[e].status = "unknown"
                         /\ \A p \in wire' : p.src = e => p = q
      <3>1. e \in React => e \notin Text \cup Edit
        BY GraphFacts
      <3> QED
        BY <1>1, <1>3, <1>5, <1>7, <3>1 DEF Sending
    <2> QED
      BY <1>1, <1>2, <1>3, <1>4, <2>1, <2>2, <2>3, <2>4 DEF WireOK
  <1> QED
    BY <1>1, <1>6, <1>7

\* Every request that is on its way after a step is still sound.
LEMMA WireStep ==
    ASSUME OutletInv, Next, NEW q \in wire'
    PROVE  WireOK(q)'
  <1>0. TypeOK /\ now \in Nat /\ \A x \in wire : WireOK(x) /\ x.src \in Sources /\ x.by \in Nat
    BY TimesAreNat DEF OutletInv, TypeOK
  <1>1. \A u \in Sources : copies[u] \in Nat
    <2>1. \A u \in Sources : copies[u] \in 0 .. MaxCopies
      BY <1>0 DEF TypeOK
    <2> QED
      BY <2>1 DEF MaxCopies
  <1>2. ASSUME UNCHANGED <<now, copies, wire, row>>, pc # "wait" \/ UNCHANGED <<pc, stack>>
        PROVE  WireOK(q)'
    BY <1>0, <1>2, WireSame DEF WireOK
  <1>3. ASSUME NEW e \in Sources, Publish(e) PROVE WireOK(q)'
    BY <1>2, <1>3 DEF Publish, ledgerVars, feishuVars, controlVars
  <1>4. CASE Tick
    <2>1. /\ q \in wire /\ q.by > now /\ now' = now + 1 /\ wire' \subseteq wire
          /\ UNCHANGED <<row, copies, pc, stack>>
      BY <1>4 DEF Tick, ledgerVars, feishuVars, controlVars
    <2>2. now' <= q.by
      BY <1>0, <2>1
    <2>3. Ref[q.src] # None => copies[Ref[q.src]] \in Nat
      BY <1>0, <1>1, <2>1, GraphFacts
    <2> QED
      BY <1>0, <2>1, <2>2, <2>3, WireKept DEF WireOK
  <1>5. ASSUME NEW p \in wire, Land(p) PROVE WireOK(q)'
    <2>1. /\ UNCHANGED <<row, pc, stack, now>> /\ q \in wire /\ q # p /\ wire' \subseteq wire
          /\ p.src \in Sources
          /\ \A u \in Sources : u # p.src => copies'[u] = copies[u]
          /\ \A u \in Sources : copies[u] \in Nat /\ copies'[u] \in Nat /\ copies[u] <= copies'[u]
      BY <1>5, LandFacts DEF ledgerVars, controlVars
    <2>2. q.src \in React => copies'[q.src] = 0
      BY <1>0, <2>1 DEF WireOK
    <2>3. Ref[q.src] # None => Ref[q.src] \in Sources
      BY <1>0, <2>1, GraphFacts
    <2> QED
      BY <1>0, <2>1, <2>2, <2>3, WireKept DEF WireOK
  <1>6. CASE ReadHistory \/ Capture \/ Start \/ NothingDue
    BY <1>2, <1>6 DEF ReadHistory, Capture, Start, NothingDue, ledgerVars, feishuVars
  <1>7. CASE SettlePair
    <2>0. UNCHANGED <<now, copies, wire>> /\ pc = "choose"
      BY <1>7, PairFacts DEF feishuVars
    <2>1. PICK h \in React, w \in Withdraw :
            /\ row[h].status = "absent" /\ row[w].status = "absent"
            /\ \A u \in Sources : u \notin {h, w} => row'[u] = row[u]
      BY <1>7, PairFacts
    <2>2. q \in wire /\ WireOK(q) /\ ~ q.current
      BY <1>0, <2>0 DEF WireOK
    <2>3. row'[q.src] = row[q.src]
      BY <1>0, <2>1, <2>2 DEF WireOK
    <2> QED
      BY <2>0, <2>2, <2>3, WireSame DEF WireOK
  <1>8. CASE Enter \/ OutOfScope \/ Resolve \/ Unresolved \/ Readback \/ Return \/ ReadFails
    BY <1>2, <1>8 DEF Enter, OutOfScope, Resolve, Unresolved, Readback, Return, ReadFails,
                      ledgerVars, feishuVars
  <1>9. CASE ReserveMessage \/ ReserveReaction \/ MarkUnknown
    <2>0. pc \in Busy /\ pc # "wait" /\ UNCHANGED <<now, copies, wire>>
      BY <1>9 DEF ReserveMessage, ReserveReaction, MarkUnknown, Busy, feishuVars
    <2>1. PICK e \in Sources : e = Top.src
      BY <2>0, TopEvent
    <2>2. \E s : /\ Writes(e, s) /\ s # "absent"
                 /\ e \in React => s = "unknown" \/ row[e].status # "unknown"
      <3>1. CASE ReserveMessage
        <4>1. e \notin React
          BY <2>1, <3>1, ReserveMessageFacts, GraphFacts
        <4> QED
          BY <2>1, <3>1, <4>1, ReserveMessageFacts
      <3>2. CASE ReserveReaction
        BY <2>1, <3>2, ReserveReactionFacts
      <3>3. CASE MarkUnknown
        BY <2>1, <3>3, MarkFacts
      <3> QED
        BY <1>9, <3>1, <3>2, <3>3
    <2> QED
      BY <2>0, <2>1, <2>2, WireWritten
  <1>10. CASE Call
    BY <1>10, WireCalled
  <1>11. CASE Reply
    <2>1. UNCHANGED <<now, copies, wire, row>> /\ q \in wire /\ ~ q.current
      BY <1>11 DEF Reply, ledgerVars, feishuVars
    <2> QED
      BY <1>0, <2>1, WireSame DEF WireOK
  <1>12. CASE Refuse
    <2>0. /\ pc \in Busy /\ UNCHANGED <<now, copies>>
          /\ q \in wire /\ ~ q.current /\ wire' \subseteq wire
      BY <1>12 DEF Refuse, Busy, feishuVars
    <2>1. PICK p \in wire : p.current
      BY <1>12 DEF Refuse
    <2>2. p.src = Top.src /\ p.src \in Sources
      BY <1>0, <2>1 DEF WireOK
    <2>3. Writes(p.src, "failed")
      BY <1>12, <2>2, RefuseFacts
    <2>4. q.src \in React => q.src # p.src
      BY <1>0, <2>0, <2>1 DEF WireOK
    <2>5. /\ row'[q.src].status # "absent" /\ row'[q.src].created = row[q.src].created
          /\ q.src \in React => row'[q.src] = row[q.src]
      BY <1>0, <2>0, <2>3, <2>4 DEF Writes, WireOK
    <2>6. Ref[q.src] # None => copies[Ref[q.src]] \in Nat
      BY <1>0, <1>1, <2>0, GraphFacts
    <2> QED
      BY <1>0, <2>0, <2>5, <2>6, WireKept DEF WireOK
  <1>13. CASE LoseAnswer \/ Crash
    BY <1>13, WireAbandoned DEF LoseAnswer, Crash, ledgerVars, feishuVars
  <1>14. CASE Acknowledge
    <2>0. pc \in Busy /\ pc = "ack" /\ UNCHANGED <<now, copies, wire>> /\ StepOK
      BY <1>14 DEF Acknowledge, Busy, feishuVars, OutletInv
    <2>1. PICK e \in Sources : e = Top.src
      BY <2>0, TopEvent
    <2>2. q \in wire /\ WireOK(q) /\ ~ q.current /\ q.src \in Sources
      BY <1>0, <2>0 DEF WireOK
    <2>3. /\ row'[e].status = "acked" /\ row'[e].created = row[e].created
          /\ \A u \in Sources : u # e /\ ~ (e \in Withdraw /\ u = Ref[e]) => row'[u] = row[u]
          /\ e \in Withdraw =>
               /\ row[Ref[e]].status \in {"acked", "removed"}
               /\ row'[Ref[e]].status = "removed"
               /\ row'[Ref[e]].created = row[Ref[e]].created
      BY <1>14, <2>1, AckFacts
    <2>4. row'[q.src].status # "absent" /\ row'[q.src].created = row[q.src].created
      BY <2>2, <2>3 DEF WireOK
    <2>5. q.src \in React => row'[q.src].status = "unknown"
      <3>1. ASSUME q.src \in React PROVE q.src # e
        <4>1. copies[e] > 0 \/ e \in Withdraw
          BY <2>0, <2>1 DEF StepOK
        <4>2. e \in Withdraw => e \notin React
          BY GraphFacts
        <4> QED
          BY <2>2, <3>1, <4>1, <4>2 DEF WireOK
      <3> QED
        BY <2>2, <2>3, <3>1 DEF WireOK
    <2> QED
      BY <2>0, <2>2, <2>4, <2>5, WireSame
  <1> QED
    BY <1>3, <1>4, <1>5, <1>6, <1>7, <1>8, <1>9, <1>10, <1>11, <1>12, <1>13, <1>14
    DEF Next, Slice, Attempt, Failure

-----------------------------------------------------------------------------
(* The calls of the attempt. *)

\* No attempt, no calls.
LEMMA NoStack == ASSUME stack' = <<>> PROVE StackOK'
  BY DEF StackOK

\* A step that leaves the calls alone.
LEMMA StackKept ==
    ASSUME OutletInv, UNCHANGED <<stack, snap>>, relay \subseteq relay', now' \in Nat, now <= now',
           \A i \in 1 .. Len(stack) : now' <= stack[i].t0 + Margin,
           \A u \in Sources : copies[u] > 0 => copies'[u] > 0
    PROVE  StackOK'
  <1>1. StackOK /\ TypeOK
    BY DEF OutletInv
  <1>2. stack \in Seq(Frame) /\ now \in Nat
    BY <1>1, TimesAreNat DEF TypeOK, Frame
  <1>3. ASSUME NEW i \in 1 .. Len(stack) PROVE FrameOK(i)'
    <2>1. FrameOK(i) /\ stack[i].t0 \in Nat /\ stack[i].src \in Sources
      BY <1>1, <1>2, FrameTypes DEF StackOK
    <2> QED
      BY <1>2, <2>1 DEF FrameOK
  <1> QED
    BY <1>1, <1>3 DEF StackOK

\* A step that only changes the innermost call, for the same event.
LEMMA StackTop ==
    ASSUME OutletInv, pc \in Busy, NEW f \in Frame, f.src = Top.src,
           f.t0 <= now, now <= f.t0 + Margin,
           f.seen => f.src \in Text /\ copies[f.src] > 0,
           stack' = [stack EXCEPT ![Len(stack)] = f],
           UNCHANGED <<snap, relay, now, copies>>
    PROVE  StackOK'
  <1>1. StackOK /\ TypeOK /\ stack \in Seq(Frame) /\ stack # <<>>
    BY TopFrame DEF OutletInv, TypeOK, Frame
  <1> DEFINE n == Len(stack)
  <1>2. /\ Len(stack') = n /\ n \in Nat /\ n > 0
        /\ \A i \in 1 .. n : stack'[i] = IF i = n THEN f ELSE stack[i]
    BY <1>1, StackReplaced
  <1> HIDE DEF n
  <1>3. \A i \in 1 .. n : FrameOK(i)
    BY <1>1 DEF StackOK, n
  <1>4. \A i \in 1 .. n : stack'[i].src = stack[i].src
    BY <1>2 DEF Top, n
  <1>5. ASSUME NEW i \in 1 .. n PROVE FrameOK(i)'
    <2>1. FrameOK(i) /\ stack'[i].src = stack[i].src /\ stack'[1].src = stack[1].src
      BY <1>2, <1>3, <1>4
    <2>2. i > 1 => stack'[i - 1].src = stack[i - 1].src
      BY <1>2, <1>4
    <2>3. CASE i = n
      BY <1>2, <2>1, <2>2, <2>3 DEF FrameOK
    <2>4. CASE i # n
      <3>1. stack'[i] = stack[i]
        BY <1>2, <2>4
      <3> QED
        BY <2>1, <2>2, <3>1 DEF FrameOK
    <2> QED
      BY <2>3, <2>4
  <1>6. stack'[1].src \in snap'
    <2>1. stack[1].src \in snap
      BY <1>1 DEF StackOK
    <2> QED
      BY <1>2, <1>4, <2>1
  <1> QED
    BY <1>2, <1>5, <1>6 DEF StackOK

\* A dependency is delivered on the way.
LEMMA StackPush ==
    ASSUME OutletInv, pc \in Busy, NEW f \in Frame, f.src = Top.src, f.t0 = Top.t0,
           f.seen => f.src \in Text /\ copies[f.src] > 0,
           stack' = Append([stack EXCEPT ![Len(stack)] = f],
                           [src |-> Ref[Top.src], t0 |-> now, seen |-> FALSE]),
           Ref[Top.src] \in relay, Ref[Top.src] \in Text,
           UNCHANGED <<snap, relay, now, copies>>
    PROVE  StackOK'
  <1>1. StackOK /\ TypeOK /\ stack \in Seq(Frame) /\ stack # <<>> /\ now \in Times /\ now \in Nat
    BY TopFrame, TimesAreNat DEF OutletInv, TypeOK, Frame
  <1>a. PICK n \in Nat : n = Len(stack) /\ n > 0
    <2>1. Len(stack) \in Nat /\ Len(stack) > 0
      BY <1>1
    <2> QED
      BY <2>1
  <1> DEFINE s == [stack EXCEPT ![Len(stack)] = f]
             g == [src |-> Ref[Top.src], t0 |-> now, seen |-> FALSE]
  <1>2. /\ s \in Seq(Frame) /\ Len(s) = n /\ n \in Nat /\ n > 0
        /\ \A i \in 1 .. n : s[i] = IF i = n THEN f ELSE stack[i]
    BY <1>1, <1>a, StackReplaced
  <1>3. g \in Frame /\ g.src = Ref[Top.src] /\ g.t0 = now /\ g.seen = FALSE
    BY <1>1, KindSets DEF Frame
  <1>4. stack' = Append(s, g)
    OBVIOUS
  <1> HIDE DEF s, g
  <1>5. /\ Len(stack') = n + 1
        /\ \A i \in 1 .. n + 1 : stack'[i] = IF i = n + 1 THEN g ELSE s[i]
    BY <1>2, <1>3, <1>4, StackPushed
  <1>6. \A i \in 1 .. n : FrameOK(i)
    BY <1>1, <1>a DEF StackOK
  <1>7. /\ \A i \in 1 .. n : stack'[i] = IF i = n THEN f ELSE stack[i]
        /\ \A i \in 1 .. n : stack'[i].src = stack[i].src
        /\ stack'[n + 1] = g
    BY <1>a, <1>2, <1>5 DEF Top
  <1>8. ASSUME NEW i \in 1 .. n PROVE FrameOK(i)'
    <2>0. 1 \in 1 .. n /\ (i > 1 => i - 1 \in 1 .. n)
      BY <1>a
    <2>1. FrameOK(i) /\ stack'[i].src = stack[i].src /\ stack'[1].src = stack[1].src
      BY <1>6, <1>7, <2>0
    <2>2. i > 1 => stack'[i - 1].src = stack[i - 1].src
      BY <1>7, <2>0
    <2>3. CASE i = n
      <3>1. stack'[i] = f /\ f.t0 = stack[i].t0
        BY <1>a, <1>7, <2>3 DEF Top
      <3> QED
        BY <2>1, <2>2, <3>1 DEF FrameOK
    <2>4. CASE i # n
      <3>1. stack'[i] = stack[i]
        BY <1>7, <2>4
      <3> QED
        BY <2>1, <2>2, <3>1 DEF FrameOK
    <2> QED
      BY <2>3, <2>4
  <1>9. FrameOK(n + 1)'
    <2>1. FrameOK(n) /\ stack'[1].src = stack[1].src /\ stack'[n].src = Top.src
      BY <1>a, <1>2, <1>6, <1>7 DEF Top
    <2>2. At[Ref[Top.src]] <= At[stack[1].src]
      <3>1. At[stack[n].src] <= At[stack[1].src]
        BY <2>1 DEF FrameOK
      <3>2. stack[n].src = Top.src /\ Top.src \in Sources /\ stack[1].src \in Sources
        BY <1>a, <1>1, TopFrame, FrameTypes DEF Top
      <3>3. At[Ref[Top.src]] <= At[Top.src] /\ Ref[Top.src] \in Sources
        <4>1. Ref[Top.src] # None
          BY KindSets, GraphFacts
        <4> QED
          BY <3>2, <4>1, GraphFacts
      <3>4. At[Ref[Top.src]] \in Nat /\ At[Top.src] \in Nat /\ At[stack[1].src] \in Nat
        BY <3>2, <3>3, GraphFacts
      <3> QED
        BY <3>1, <3>2, <3>3, <3>4
    <2>3. (n + 1) - 1 = n /\ n + 1 > 1
      BY <1>2
    <2>4. stack'[n + 1] = g /\ UNCHANGED <<now, relay, copies>>
      BY <1>7
    <2>5. now <= now + Margin
      BY <1>1, ConstantFacts
    <2>6. stack'[(n + 1) - 1].src = Top.src
      BY <2>1, <2>3
    <2>7. /\ stack'[n + 1].src \in relay'
          /\ At[stack'[n + 1].src] <= At[stack'[1].src]
          /\ stack'[n + 1].t0 <= now' /\ now' <= stack'[n + 1].t0 + Margin
          /\ ~ stack'[n + 1].seen
      <3>1. stack'[n + 1].src = Ref[Top.src] /\ stack'[n + 1].t0 = now /\ stack'[n + 1].seen = FALSE
        BY <1>3, <2>4
      <3>2. stack'[n + 1].src \in relay'
        BY <2>4, <3>1
      <3>3. At[stack'[n + 1].src] <= At[stack'[1].src]
        BY <2>1, <2>2, <3>1
      <3>4. now <= now /\ now' = now
        BY <1>1, <2>4
      <3>5. stack'[n + 1].t0 <= now' /\ now' <= stack'[n + 1].t0 + Margin
        BY <2>5, <3>1, <3>4
      <3> QED
        BY <3>1, <3>2, <3>3, <3>5
    <2>8. stack'[n + 1].src \in Text /\ stack'[n + 1].src = Ref[stack'[(n + 1) - 1].src]
      BY <1>3, <2>4, <2>6
    <2> QED
      BY <2>7, <2>8 DEF FrameOK
  <1>10. stack'[1].src \in snap'
    <2>1. stack[1].src \in snap
      BY <1>1 DEF StackOK
    <2> QED
      BY <1>2, <1>7, <2>1
  <1>11. \A i \in 1 .. n + 1 : FrameOK(i)'
    <2>1. \A i \in 1 .. n + 1 : i \in 1 .. n \/ i = n + 1
      BY <1>2
    <2> QED
      BY <1>8, <1>9, <2>1
  <1> QED
    BY <1>5, <1>10, <1>11 DEF StackOK

\* A dependency returns to its caller.
LEMMA StackPop ==
    ASSUME OutletInv, Len(stack) > 1, stack' = SubSeq(stack, 1, Len(stack) - 1),
           UNCHANGED <<snap, relay, now, copies>>
    PROVE  StackOK'
  <1>1. StackOK /\ stack \in Seq(Frame)
    BY DEF OutletInv, TypeOK, Frame
  <1>2. /\ Len(stack') = Len(stack) - 1 /\ Len(stack) \in Nat
        /\ \A i \in 1 .. Len(stack) - 1 : stack'[i] = stack[i]
    BY <1>1, StackPopped
  <1>3. ASSUME NEW i \in 1 .. Len(stack') PROVE FrameOK(i)'
    <2>1. /\ i \in 1 .. Len(stack) - 1 /\ i \in 1 .. Len(stack) /\ 1 \in 1 .. Len(stack) - 1
          /\ i > 1 => i - 1 \in 1 .. Len(stack) - 1
      BY <1>2
    <2>2. FrameOK(i)
      BY <1>1, <2>1 DEF StackOK
    <2>3. stack'[i] = stack[i] /\ stack'[1] = stack[1] /\ (i > 1 => stack'[i - 1] = stack[i - 1])
      BY <1>2, <2>1
    <2> QED
      BY <2>2, <2>3 DEF FrameOK
  <1>4. stack'[1].src \in snap'
    <2>1. stack[1].src \in snap
      BY <1>1, <1>2 DEF StackOK
    <2> QED
      BY <1>2, <2>1
  <1> QED
    BY <1>3, <1>4 DEF StackOK

\* Every step keeps the calls of the attempt in order and within Margin.
LEMMA StackStep ==
    ASSUME OutletInv, Next
    PROVE  StackOK'
  <1>0. TypeOK /\ StackOK /\ now \in Nat /\ now \in Times /\ stack \in Seq(Frame)
    BY TimesAreNat DEF OutletInv, TypeOK, Frame
  <1>1. \A i \in 1 .. Len(stack) : now <= stack[i].t0 + Margin
    BY <1>0 DEF StackOK, FrameOK
  <1>2. ASSUME UNCHANGED <<stack, snap, relay, now, copies>> PROVE StackOK'
    BY <1>0, <1>1, <1>2, StackKept
  <1>3. ASSUME EndSlice PROVE StackOK'
    BY <1>3, NoStack DEF EndSlice
  <1>4. ASSUME NEW e \in Sources, Publish(e) PROVE StackOK'
    <2>1. UNCHANGED <<stack, snap, now, copies>> /\ relay \subseteq relay'
      BY <1>4 DEF Publish, controlVars, feishuVars
    <2> QED
      BY <1>0, <1>1, <2>1, StackKept
  <1>5. CASE Tick
    <2>1. UNCHANGED <<stack, snap, relay, copies>> /\ now' = now + 1
      BY <1>5 DEF Tick, controlVars, feishuVars
    <2>2. \A i \in 1 .. Len(stack) : now' <= stack[i].t0 + Margin
      <3>1. \A i \in 1 .. Len(stack) : now < stack[i].t0 + Margin
        BY <1>5 DEF Tick
      <3>2. \A i \in 1 .. Len(stack) : stack[i].t0 \in Nat
        BY <1>0, FrameTypes
      <3> QED
        BY <1>0, <2>1, <3>1, <3>2, ConstantFacts
    <2> QED
      BY <1>0, <2>1, <2>2, StackKept
  <1>6. ASSUME NEW q \in wire, Land(q) PROVE StackOK'
    <2>1. UNCHANGED <<stack, snap, relay, now>> /\ \A u \in Sources : copies[u] > 0 => copies'[u] > 0
      BY <1>6, LandFacts DEF controlVars
    <2> QED
      BY <1>0, <1>1, <2>1, StackKept
  <1>7. CASE ReadHistory
    <2>1. stack' = <<>>
      BY <1>0, <1>7 DEF ReadHistory, TypeOK, Busy
    <2> QED
      BY <2>1, NoStack
  <1>8. CASE Capture \/ ReserveMessage \/ ReserveReaction \/ MarkUnknown \/ Readback
             \/ Call \/ Reply \/ Acknowledge
    BY <1>2, <1>3, <1>8 DEF Capture, ReserveMessage, ReserveReaction, MarkUnknown, Readback,
                            Call, Reply, Acknowledge, feishuVars
  <1>9. CASE SettlePair \/ NothingDue
    <2>1. stack' = <<>>
      BY <1>0, <1>9 DEF SettlePair, NothingDue, TypeOK, Busy
    <2> QED
      BY <2>1, NoStack
  <1>10. CASE Start
    <2>1. PICK h \in Held :
             /\ Chosen(h)
             /\ stack' = <<[src |-> h, t0 |-> now, seen |-> FALSE]>>
             /\ UNCHANGED <<relay, now, snap>>
      BY <1>10 DEF Start
    <2>2. h \in snap /\ h \in relay /\ h \in Sources
      <3>1. h \in Topic(h) /\ Topic(h) \subseteq snap /\ h \in Sources
        BY <2>1 DEF Chosen, Heads, Topic, Held
      <3> QED
        BY <1>0, <3>1 DEF TypeOK
    <2>3. Len(stack') = 1 /\ stack'[1] = [src |-> h, t0 |-> now, seen |-> FALSE]
      BY <2>1
    <2>4. FrameOK(1)'
      <3>1. At[h] \in Nat
        BY <2>2, GraphFacts
      <3> QED
        BY <1>0, <2>1, <2>2, <2>3, <3>1, ConstantFacts DEF FrameOK
    <2>5. \A i \in 1 .. Len(stack') : i = 1
      BY <2>3
    <2> QED
      BY <2>1, <2>2, <2>3, <2>4, <2>5 DEF StackOK
  <1>11. CASE Enter
    <2> DEFINE f == [Top EXCEPT !.t0 = now]
    <2>0. pc \in Busy
      BY <1>11 DEF Enter, Busy
    <2>1. Top \in Frame
      BY <1>0, <2>0, TopFrame
    <2>2. f \in Frame /\ f.src = Top.src /\ f.t0 = now /\ f.seen = Top.seen
      BY <1>0, <2>1 DEF Frame
    <2>3. stack' = [stack EXCEPT ![Len(stack)] = f] /\ UNCHANGED <<snap, relay, now, copies>>
      BY <1>11 DEF Enter, Top, feishuVars
    <2>4. f.seen => f.src \in Text /\ copies[f.src] > 0
      <3>1. FrameOK(Len(stack))
        <4>1. stack # <<>>
          BY <1>0, <2>0, TopFrame
        <4> QED
          BY <1>0, <4>1 DEF StackOK
      <3> QED
        BY <2>2, <3>1 DEF FrameOK, Top
    <2> HIDE DEF f
    <2>5. f.t0 <= now /\ now <= f.t0 + Margin
      BY <1>0, <2>2, ConstantFacts
    <2> QED
      BY <2>0, <2>2, <2>3, <2>4, <2>5, StackTop
  <1>12. CASE OutOfScope \/ Unresolved \/ ReadFails \/ Refuse \/ LoseAnswer \/ Crash
    BY <1>3, <1>12 DEF OutOfScope, Unresolved, ReadFails, Refuse, LoseAnswer, Crash
  <1>13. CASE Resolve
    <2>0. pc \in Busy /\ UNCHANGED <<snap, relay, now, copies>>
      BY <1>13, ResolveCases DEF Resolve, Busy, feishuVars
    <2>1. PICK f \in Frame :
                /\ f.src = Top.src /\ f.t0 = Top.t0
                /\ f.seen => Top.seen \/ (Top.src \in Text /\ copies[Top.src] > 0)
                /\ \/ stack' = [stack EXCEPT ![Len(stack)] = f]
                   \/ /\ stack' = Append([stack EXCEPT ![Len(stack)] = f],
                                         [src |-> Ref[Top.src], t0 |-> now, seen |-> FALSE])
                      /\ Ref[Top.src] \in relay /\ Ref[Top.src] \in Text
                   \/ stack' = stack
      BY <1>13, ResolveCases
    <2>2. /\ f.t0 <= now /\ now <= f.t0 + Margin
          /\ f.seen => f.src \in Text /\ copies[f.src] > 0
      <3>1. FrameOK(Len(stack))
        <4>1. stack # <<>>
          BY <1>0, <2>0, TopFrame
        <4> QED
          BY <1>0, <4>1 DEF StackOK
      <3> QED
        BY <2>1, <3>1 DEF FrameOK, Top
    <2>3. CASE stack' = [stack EXCEPT ![Len(stack)] = f]
      BY <2>0, <2>1, <2>2, <2>3, StackTop
    <2>4. CASE /\ stack' = Append([stack EXCEPT ![Len(stack)] = f],
                                  [src |-> Ref[Top.src], t0 |-> now, seen |-> FALSE])
               /\ Ref[Top.src] \in relay /\ Ref[Top.src] \in Text
      BY <2>0, <2>1, <2>2, <2>4, StackPush
    <2>5. CASE stack' = stack
      BY <1>2, <2>0, <2>5
    <2> QED
      BY <2>1, <2>3, <2>4, <2>5
  <1>14. CASE Return
    <2>1. CASE Len(stack) > 1
      <3>1. stack' = SubSeq(stack, 1, Len(stack) - 1) /\ UNCHANGED <<snap, relay, now, copies>>
        BY <1>14, <2>1 DEF Return, feishuVars
      <3> QED
        BY <2>1, <3>1, StackPop
    <2>2. CASE ~ (Len(stack) > 1)
      BY <1>3, <1>14, <2>2 DEF Return
    <2> QED
      BY <2>1, <2>2
  <1> QED
    BY <1>4, <1>5, <1>6, <1>7, <1>8, <1>9, <1>10, <1>11, <1>12, <1>13, <1>14
    DEF Next, Slice, Attempt, Failure

-----------------------------------------------------------------------------
(* What the innermost call has established. *)

\* The effects are counted.
LEMMA CopiesAreNat ==
    ASSUME TypeOK
    PROVE  \A u \in Sources : copies[u] \in Nat /\ copies[u] <= 2
  <1> SUFFICES ASSUME NEW u \in Sources PROVE copies[u] \in Nat /\ copies[u] <= 2
    OBVIOUS
  <1>1. copies[u] \in 0 .. MaxCopies
    BY DEF TypeOK
  <1> QED
    BY <1>1 DEF MaxCopies

\* A reaction that a receipt or a removal closes has been performed.
LEMMA ClosedIsSent ==
    ASSUME OutletInv, NEW w \in Withdraw, Grounds(w)
    PROVE  Ref[w] \in React /\ Ref[w] \in Sources /\ copies[Ref[w]] > 0
  <1>1. Ref[w] \in React /\ Ref[w] \in Sources /\ w \in Sources /\ Ref[w] \notin Withdraw
    BY KindSets, GraphFacts
  <1>2. EventOK(Ref[w])
    BY <1>1 DEF OutletInv
  <1> QED
    BY <1>1, <1>2 DEF Grounds, EventOK, RowOK, ReactionOK

\* A reaction that was performed and is gone stays gone.
LEMMA GoneStaysGone ==
    ASSUME TypeOK, NEW r \in Sources, ~ Visible(r), copies[r] > 0,
           \A u \in Sources : copies[u] > 0 => copies'[u] > 0
    PROVE  ~ Visible(r)'
  <1>1. PICK w \in Withdraw : Ref[w] = r /\ copies[w] # 0
    BY DEF Visible
  <1>2. w \in Sources /\ copies[w] > 0
    BY <1>1, KindSets, CopiesAreNat
  <1>3. copies'[w] # 0
    BY <1>2
  <1> QED
    BY <1>1, <1>3 DEF Visible

\* A step that leaves the call, its row and its receipts alone.
LEMMA StepKept ==
    ASSUME OutletInv, UNCHANGED <<pc, stack, row, receipt>>, relay \subseteq relay',
           \A u \in Sources : copies[u] > 0 => copies'[u] > 0,
           pc = "call" => wire' \subseteq wire /\ (Top.src \in React => copies'[Top.src] = copies[Top.src]),
           pc = "wait" => copies'[Top.src] > 0 \/ \E q \in wire' : q.current
    PROVE  StepOK'
  <1>1. TypeOK /\ StepOK /\ Top' = Top
    BY DEF OutletInv, Top
  <1>2. CASE pc \notin Busy
    BY <1>2 DEF StepOK, Busy
  <1>3. CASE pc \in Busy
    <2>1. PICK e \in Sources : e = Top.src
      BY <1>1, <1>3, TopFrame
    <2>2. Grounds(e) => Grounds(e)'
      <3>1. e \notin Withdraw /\ Ref[e] # None => Ref[e] \in Sources
        BY GraphFacts
      <3> QED
        BY <3>1 DEF Grounds
    <2>3. ~ LatestEdit(e) => ~ LatestEdit(e)'
      BY DEF LatestEdit
    <2>4. pc = "ack" /\ e \in Withdraw => ~ Visible(Ref[e])'
      <3>1. ASSUME pc = "ack", e \in Withdraw PROVE ~ Visible(Ref[e])'
        <4>1. Grounds(e) /\ ~ Visible(Ref[e])
          BY <1>1, <2>1, <3>1 DEF StepOK
        <4> QED
          BY <1>1, <3>1, <4>1, ClosedIsSent, GoneStaysGone
      <3> QED
        BY <3>1
    <2>5. Top'.src = e /\ Top'.t0 = Top.t0
      BY <1>1, <2>1
    <2> HIDE DEF Top
    <2>6. /\ pc \in {"reserve", "mark", "call", "wait", "readback", "ack"} => Grounds(e)'
          /\ pc = "resolve" /\ e \in Withdraw => Grounds(e)'
      BY <1>1, <2>1, <2>2 DEF StepOK
    <2>7. pc = "call" =>
              /\ e \in Text => Top.t0 - row[e].created <= RetryWindow
              /\ e \in React => copies'[e] = 0 /\ \A q \in wire' : q.src # e
      BY <1>1, <2>1 DEF StepOK
    <2>8. pc = "ack" => IF e \in Withdraw THEN ~ Visible(Ref[e])' ELSE copies'[e] > 0
      BY <1>1, <2>1, <2>4 DEF StepOK
    <2>9. pc = "return" => \/ row[e].status = "acked"
                           \/ e \in Edit /\ (row[e].status = "skipped" \/ ~ LatestEdit(e)')
      BY <1>1, <2>1, <2>3 DEF StepOK
    <2>10. pc = "wait" => copies'[e] > 0 \/ \E q \in wire' : q.current
      BY <2>1
    <2>11. /\ pc \in {"mark", "readback"} => e \in React \cup Withdraw
           /\ pc = "mark" => row[e].status = "pending"
           /\ pc \in {"readback"} => row[e].status = "unknown"
           /\ pc \in {"call", "wait", "ack"} => row[e].status = Sending(e)
      BY <1>1, <2>1 DEF StepOK
    <2> QED
      BY <2>5, <2>6, <2>7, <2>8, <2>9, <2>10, <2>11 DEF StepOK
  <1> QED
    BY <1>2, <1>3

\* Where nothing is claimed of the innermost call.
LEMMA StepOpens == ASSUME pc' \in {"idle", "capture", "choose", "enter"} PROVE StepOK'
  BY DEF StepOK

\* The attempt finds what its event depends on.
LEMMA StepLocated ==
    ASSUME OutletInv, Enter \/ Resolve
    PROVE  StepOK'
  <1>0. pc \in Busy /\ TypeOK /\ UNCHANGED <<row, receipt, copies, relay>>
    BY ResolveCases DEF Enter, Resolve, Busy, OutletInv, ledgerVars, feishuVars
  <1>1. PICK e \in Sources : e = Top.src
    BY <1>0, TopFrame
  <1>2. stack \in Seq(Frame) /\ stack # <<>> /\ Top \in Frame /\ Top = stack[Len(stack)]
    BY <1>0, TopFrame DEF TypeOK, Frame, Top
  <1>3. ASSUME NEW f \in Frame, f.src = e, stack' = [stack EXCEPT ![Len(stack)] = f]
        PROVE  Top'.src = e
    <2>1. Len(stack') = Len(stack) /\ Len(stack) \in 1 .. Len(stack)
      BY <1>2, <1>3, StackReplaced
    <2>2. stack'[Len(stack)] = f
      BY <1>2, <1>3, <2>1, StackReplaced
    <2> QED
      BY <1>3, <2>1, <2>2 DEF Top
  <1>4. CASE Enter
    <2>1. pc' = "resolve" /\ stack' = [stack EXCEPT ![Len(stack)] = [Top EXCEPT !.t0 = now]]
      BY <1>4 DEF Enter, Top
    <2>2. [Top EXCEPT !.t0 = now] \in Frame /\ [Top EXCEPT !.t0 = now].src = e
      BY <1>0, <1>1, <1>2 DEF Frame, TypeOK
    <2>3. Top'.src = e
      BY <1>3, <2>1, <2>2
    <2>4. e \in Withdraw => receipt'[Ref[e]] # NoTarget
      BY <1>0, <1>1, <1>4 DEF Enter
    <2> QED
      BY <2>1, <2>3, <2>4 DEF StepOK, Grounds
  <1>5. CASE Resolve
    <2>1. PICK f \in Frame :
                /\ f.src = Top.src
                /\ \/ /\ pc' = "reserve"
                      /\ stack' = [stack EXCEPT ![Len(stack)] = f]
                      /\ Grounds(Top.src)
                   \/ pc' = "enter"
                   \/ /\ pc' = "return" /\ stack' = stack
                      /\ Top.src \in Edit /\ ~ LatestEdit(Top.src)
      BY <1>5, ResolveCases
    <2>2. CASE /\ pc' = "reserve" /\ stack' = [stack EXCEPT ![Len(stack)] = f] /\ Grounds(Top.src)
      <3>1. Top'.src = e
        BY <1>1, <1>3, <2>1, <2>2
      <3>2. Grounds(e)'
        BY <1>0, <1>1, <2>2 DEF Grounds
      <3> QED
        BY <2>2, <3>1, <3>2 DEF StepOK
    <2>3. CASE pc' = "enter"
      BY <2>3, StepOpens
    <2>4. CASE /\ pc' = "return" /\ stack' = stack /\ Top.src \in Edit /\ ~ LatestEdit(Top.src)
      <3>1. Top'.src = e
        BY <1>1, <2>4 DEF Top
      <3>2. e \in Edit /\ ~ LatestEdit(e)'
        BY <1>0, <1>1, <2>4 DEF LatestEdit
      <3> QED
        BY <2>4, <3>1, <3>2 DEF StepOK
    <2> QED
      BY <2>1, <2>2, <2>3, <2>4
  <1> QED
    BY <1>4, <1>5

\* A dependency that was acknowledged is what its caller refers to.
LEMMA StepReturned ==
    ASSUME OutletInv, Return
    PROVE  StepOK'
  <1>1. CASE ~ (Len(stack) > 1)
    BY <1>1, StepOpens DEF Return, EndSlice
  <1>2. CASE Len(stack) > 1
    <2>1. /\ pc = "return" /\ pc \in Busy /\ pc' = "reserve" /\ stack' = SubSeq(stack, 1, Len(stack) - 1)
          /\ UNCHANGED <<row, receipt, copies>> /\ TypeOK /\ StackOK /\ StepOK
      BY <1>2 DEF Return, Busy, OutletInv, ledgerVars, feishuVars
    <2>2. stack \in Seq(Frame)
      BY <2>1 DEF TypeOK, Frame
    <2>3. PICK n \in Nat : n = Len(stack) /\ n > 1
      <3>1. Len(stack) \in Nat
        BY <2>2
      <3> QED
        BY <1>2, <3>1
    <2>4. n \in 1 .. n /\ n - 1 \in 1 .. n /\ n - 1 \in 1 .. n - 1
      BY <2>3
    <2>5. Len(stack') = n - 1 /\ stack'[n - 1] = stack[n - 1]
      BY <1>2, <2>1, <2>2, <2>3, <2>4, StackPopped
    <2>6. PICK d \in Sources, c \in Sources : d = stack[n].src /\ c = stack[n - 1].src
      BY <2>2, <2>3, <2>4, FrameTypes
    <2>7. Top'.src = c
      BY <2>5, <2>6 DEF Top
    <2>8. d \in Text /\ d = Ref[c] /\ Top.src = d
      <3>1. FrameOK(n)
        BY <2>1, <2>3, <2>4 DEF StackOK
      <3> QED
        BY <2>3, <2>6, <3>1 DEF FrameOK, Top
    <2>9. copies[d] > 0
      <3>1. d \notin Edit /\ d \notin Withdraw
        BY <2>8, GraphFacts
      <3>2. row[d].status = "acked"
        BY <2>1, <2>8, <3>1 DEF StepOK
      <3>3. RowOK(d)
        BY DEF OutletInv, EventOK
      <3> QED
        BY <3>1, <3>2, <3>3 DEF RowOK
    <2>10. Grounds(c)'
      <3>1. c \notin Withdraw
        BY <2>8, GraphFacts
      <3> QED
        BY <2>1, <2>8, <2>9, <3>1 DEF Grounds
    <2> QED
      BY <2>1, <2>7, <2>10 DEF StepOK
  <1> QED
    BY <1>1, <1>2

\* The reservation decides how the event is delivered.
LEMMA StepReserved ==
    ASSUME OutletInv, ReserveMessage \/ ReserveReaction
    PROVE  StepOK'
  <1>0. /\ pc = "reserve" /\ pc \in Busy /\ TypeOK /\ StepOK /\ StackOK
        /\ UNCHANGED <<receipt, copies, relay>>
    BY DEF ReserveMessage, ReserveReaction, Busy, OutletInv, feishuVars
  <1>1. PICK e \in Sources : e = Top.src
    BY <1>0, TopFrame
  <1>2. Grounds(e) /\ Grounds(e)'
    BY <1>0, <1>1 DEF StepOK, Grounds
  <1>3. ASSUME UNCHANGED stack PROVE Top'.src = e /\ Top'.t0 = Top.t0
    BY <1>1, <1>3 DEF Top
  <1>4. ASSUME EndSlice PROVE StepOK'
    BY <1>4, StepOpens DEF EndSlice
  <1>5. CASE ReserveMessage
    <2>1. e \notin React /\ e \notin Withdraw /\ e \in Text \cup Edit
      BY <1>1, <1>5, ReserveMessageFacts, GraphFacts
    <2>2. CASE /\ Writes(e, row[e].status)
               /\ \/ row[e].status = "acked"
                  \/ row[e].status = "skipped" /\ e \in Edit
               /\ pc' = "return" /\ UNCHANGED stack
      <3>1. row'[e].status = row[e].status
        BY <2>2 DEF Writes
      <3> QED
        BY <1>3, <2>2, <3>1 DEF StepOK
    <2>3. CASE Writes(e, "skipped") /\ e \in Edit /\ pc' = "return" /\ UNCHANGED stack
      <3>1. row'[e].status = "skipped"
        BY <2>3 DEF Writes
      <3> QED
        BY <1>3, <2>3, <3>1 DEF StepOK
    <2>4. CASE /\ Writes(e, "pending")
               /\ pc' = "ack" /\ Top.seen
               /\ UNCHANGED stack
      <3>1. row'[e].status = Sending(e)
        BY <2>1, <2>4 DEF Writes, Sending
      <3>2. copies'[e] > 0
        <4>1. FrameOK(Len(stack))
          <5>1. Len(stack) \in 1 .. Len(stack)
            BY <1>0, TopFrame
          <5> QED
            BY <1>0, <5>1 DEF StackOK
        <4> QED
          BY <1>0, <1>1, <2>4, <4>1 DEF FrameOK, Top
      <3> QED
        BY <1>2, <1>3, <2>1, <2>4, <3>1, <3>2 DEF StepOK
    <2>5. CASE /\ Writes(e, "pending")
               /\ pc' = "call"
               /\ Top.t0 - row'[e].created <= RetryWindow
               /\ UNCHANGED stack
      <3>1. row'[e].status = Sending(e)
        BY <2>1, <2>5 DEF Writes, Sending
      <3>2. Top'.src = e /\ Top'.t0 = Top.t0
        BY <1>3, <2>5
      <3> HIDE DEF Top
      <3> QED
        BY <1>2, <2>1, <2>5, <3>1, <3>2 DEF StepOK
    <2> QED
      BY <1>1, <1>4, <1>5, <2>2, <2>3, <2>4, <2>5, ReserveMessageFacts
  <1>6. CASE ReserveReaction
    <2>1. e \in React \cup Withdraw /\ e \notin Text /\ e \notin Edit
      BY <1>1, <1>6, ReserveReactionFacts, GraphFacts
    <2>2. CASE /\ Writes(e, row[e].status) /\ row[e].status = "acked"
               /\ pc' = "return" /\ UNCHANGED stack
      <3>1. row'[e].status = "acked"
        BY <2>2 DEF Writes
      <3> QED
        BY <1>3, <2>2, <3>1 DEF StepOK
    <2>3. CASE Writes(e, "unknown") /\ pc' = "readback" /\ UNCHANGED stack
      <3>1. row'[e].status = "unknown"
        BY <2>3 DEF Writes
      <3> QED
        BY <1>2, <1>3, <2>1, <2>3, <3>1 DEF StepOK
    <2>4. CASE Writes(e, "pending") /\ pc' = "mark" /\ UNCHANGED stack
      <3>1. row'[e].status = "pending"
        BY <2>4 DEF Writes
      <3> QED
        BY <1>2, <1>3, <2>1, <2>4, <3>1 DEF StepOK
    <2> QED
      BY <1>1, <1>4, <1>6, <2>2, <2>3, <2>4, ReserveReactionFacts
  <1> QED
    BY <1>5, <1>6

\* A write is only sent when nothing of it is on its way, and an
\* acknowledgement follows what was seen.
LEMMA StepSent ==
    ASSUME OutletInv, MarkUnknown \/ Readback \/ Call \/ Reply \/ Acknowledge
    PROVE  StepOK'
  <1>0. pc \in Busy /\ TypeOK /\ StepOK /\ UNCHANGED copies
    BY DEF MarkUnknown, Readback, Call, Reply, Acknowledge, Busy, OutletInv, feishuVars
  <1>1. PICK e \in Sources : e = Top.src
    BY <1>0, TopFrame
  <1>2. ASSUME UNCHANGED stack PROVE Top'.src = e /\ Top'.t0 = Top.t0
    BY <1>1, <1>2 DEF Top
  <1>3. Grounds(e)
    BY <1>0, <1>1 DEF StepOK, MarkUnknown, Readback, Call, Reply, Acknowledge
  <1>4. UNCHANGED receipt => Grounds(e)'
    BY <1>0, <1>3 DEF Grounds
  <1>5. e \in Withdraw => UNCHANGED copies /\ Visible(Ref[e])' = Visible(Ref[e])
    BY <1>0 DEF Visible
  <1>6. CASE MarkUnknown
    <2>1. /\ pc = "mark" /\ UNCHANGED <<stack, receipt, wire>>
          /\ Writes(e, "unknown") /\ row[e].status = "pending" /\ e \in React \cup Withdraw
      BY <1>1, <1>6, MarkFacts DEF MarkUnknown
    <2>2. e \notin Text /\ e \notin Edit /\ row'[e].status = "unknown" /\ Sending(e) = "unknown"
      BY <2>1, GraphFacts DEF Writes, Sending
    <2>3. pc' = IF e \in Withdraw /\ row[Ref[e]].status = "removed" THEN "ack" ELSE "call"
      BY <1>1, <1>6 DEF MarkUnknown
    <2>4. CASE pc' = "ack"
      <3>1. e \in Withdraw /\ row[Ref[e]].status = "removed"
        BY <2>3, <2>4
      <3>2. Ref[e] \in React /\ Ref[e] \in Sources
        BY <3>1, GraphFacts
      <3>3. ~ Visible(Ref[e])
        BY <3>1, <3>2 DEF OutletInv, EventOK, ReactionOK
      <3> QED
        BY <1>2, <1>4, <1>5, <2>1, <2>2, <2>4, <3>1, <3>3 DEF StepOK
    <2>5. CASE pc' = "call"
      <3>1. e \in React => copies[e] = 0 /\ \A q \in wire : q.src # e
        <4>1. EventOK(e) /\ copies[e] \in Nat /\ \A q \in wire : WireOK(q)
          BY <1>0, CopiesAreNat DEF OutletInv
        <4> QED
          BY <2>1, <4>1 DEF EventOK, ReactionOK, WireOK
      <3>2. Top'.src = e
        BY <1>2, <2>1
      <3> HIDE DEF Top
      <3> QED
        BY <1>0, <1>4, <2>1, <2>2, <2>5, <3>1, <3>2 DEF StepOK
    <2> QED
      BY <2>3, <2>4, <2>5
  <1>7. CASE Readback
    <2>1. /\ pc = "readback" /\ UNCHANGED <<row, receipt>>
          /\ \/ EndSlice
             \/ /\ pc' = "ack" /\ UNCHANGED stack
                /\ IF e \in React THEN copies[e] = 1 ELSE ~ Visible(Ref[e])
      <3>0. e \in React \cup Withdraw
        BY <1>0, <1>1, <1>7 DEF StepOK, Readback
      <3>1. /\ pc = "readback" /\ UNCHANGED <<row, receipt>>
            /\ \/ EndSlice
               \/ /\ pc' = "ack" /\ UNCHANGED stack
                  /\ IF e \in React THEN \E q \in React : OwnRecords(e) = {q} /\ copies[q] = 1
                     ELSE OwnRecords(Ref[e]) = {}
        BY <1>1, <1>7 DEF Readback, ledgerVars
      <3>2. CASE e \in React
        <4>1. \A q \in React : OwnRecords(e) = {q} => q = e
          BY <3>2, OwnRecord
        <4> QED
          BY <3>1, <3>2, <4>1
      <3>3. CASE e \notin React
        <4>1. Ref[e] \in React
          BY <3>0, <3>3, GraphFacts
        <4>2. OwnRecords(Ref[e]) = {} => ~ Visible(Ref[e])
          BY <4>1, OwnRecord
        <4> QED
          BY <3>1, <3>3, <4>2
      <3> QED
        BY <3>2, <3>3
    <2>2. CASE EndSlice
      BY <2>2, StepOpens DEF EndSlice
    <2>3. CASE /\ pc' = "ack" /\ UNCHANGED stack
               /\ IF e \in React THEN copies[e] = 1 ELSE ~ Visible(Ref[e])
      <3>1. row[e].status = "unknown" /\ e \in React \cup Withdraw
        BY <1>0, <1>1, <2>1 DEF StepOK
      <3>2. e \notin Text /\ e \notin Edit /\ (e \in React <=> e \notin Withdraw)
        BY <3>1, GraphFacts
      <3>3. row'[e].status = Sending(e)
        BY <2>1, <3>1, <3>2 DEF Sending
      <3>4. IF e \in Withdraw THEN ~ Visible(Ref[e])' ELSE copies'[e] > 0
        BY <1>0, <1>5, <2>3, <3>2
      <3> QED
        BY <1>2, <1>4, <2>1, <2>3, <3>3, <3>4 DEF StepOK
    <2> QED
      BY <2>1, <2>2, <2>3
  <1>8. CASE Call
    <2>1. /\ pc = "call" /\ pc' = "wait" /\ UNCHANGED <<stack, row, receipt>>
          /\ [src |-> Top.src, by |-> Top.t0 + Margin, current |-> TRUE] \in wire'
      BY <1>8 DEF Call, ledgerVars
    <2>3. \E q \in wire' : q.current
      BY <2>1
    <2>2. row[e].status = Sending(e)
      BY <1>0, <1>1, <2>1 DEF StepOK
    <2> QED
      BY <1>2, <1>4, <2>1, <2>2, <2>3 DEF StepOK
  <1>9. CASE Reply
    <2>1. /\ pc = "wait" /\ pc' = "ack" /\ UNCHANGED <<stack, row, receipt>>
          /\ ~ \E q \in wire : q.current
      BY <1>9 DEF Reply, ledgerVars
    <2>2. row[e].status = Sending(e) /\ copies[e] > 0
      BY <1>0, <1>1, <2>1 DEF StepOK
    <2>3. e \in Withdraw => ~ Visible(Ref[e])
      BY <2>2 DEF Visible
    <2> QED
      BY <1>0, <1>2, <1>4, <1>5, <2>1, <2>2, <2>3 DEF StepOK
  <1>10. CASE Acknowledge
    <2>1. pc' = "return" /\ UNCHANGED stack
      BY <1>10 DEF Acknowledge
    <2>2. row'[e].status = "acked"
      BY <1>1, <1>10, AckFacts
    <2> QED
      BY <1>2, <2>1, <2>2 DEF StepOK
  <1> QED
    BY <1>6, <1>7, <1>8, <1>9, <1>10

\* Every step keeps what the innermost call has established.
LEMMA StepStep ==
    ASSUME OutletInv, Next
    PROVE  StepOK'
  <1>0. TypeOK /\ StepOK /\ \A q \in wire : WireOK(q)
    BY DEF OutletInv
  <1>1. ASSUME NEW e \in Sources, Publish(e) PROVE StepOK'
    <2>1. UNCHANGED <<pc, stack, row, receipt, copies, wire>> /\ relay \subseteq relay'
      BY <1>1 DEF Publish, ledgerVars, controlVars, feishuVars
    <2> QED
      BY <1>0, <2>1, StepKept DEF StepOK
  <1>2. CASE Tick
    <2>1. /\ UNCHANGED <<pc, stack, row, receipt, copies, relay>>
          /\ wire' = {q \in wire : q.by > now} /\ wire' \subseteq wire
      BY <1>2 DEF Tick, ledgerVars, controlVars, feishuVars
    <2>2. pc = "wait" => copies'[Top.src] > 0 \/ \E q \in wire' : q.current
      <3>1. ASSUME NEW q \in wire, q.current, pc = "wait" PROVE q \in wire'
        <4>1. q.by = Top.t0 + Margin
          BY <1>0, <3>1 DEF WireOK
        <4>2. Len(stack) \in 1 .. Len(stack) /\ Top.t0 \in Nat
          BY <1>0, <3>1, TopFrame DEF Busy
        <4>3. now < Top.t0 + Margin
          BY <1>2, <4>2 DEF Tick, Top
        <4> QED
          BY <2>1, <4>1, <4>2, <4>3, ConstantFacts, TimesAreNat DEF OutletInv, TypeOK
      <3> QED
        BY <1>0, <2>1, <3>1 DEF StepOK
    <2> QED
      BY <2>1, <2>2, StepKept
  <1>3. ASSUME NEW p \in wire, Land(p) PROVE StepOK'
    <2>1. /\ UNCHANGED <<pc, stack, row, receipt, relay>> /\ wire' = wire \ {p}
          /\ p.src \in Sources /\ copies'[p.src] > 0 /\ WireOK(p)
          /\ \A u \in Sources : u # p.src => copies'[u] = copies[u]
          /\ \A u \in Sources : copies[u] \in Nat /\ copies'[u] \in Nat /\ copies[u] <= copies'[u]
      BY <1>3, LandFacts DEF ledgerVars, controlVars
    <2>2. \A u \in Sources : copies[u] > 0 => copies'[u] > 0
      BY <2>1
    <2>3. pc = "call" => wire' \subseteq wire /\ (Top.src \in React => copies'[Top.src] = copies[Top.src])
      BY <1>0, <2>1, KindSets DEF StepOK
    <2>4. pc = "wait" => copies'[Top.src] > 0 \/ \E q \in wire' : q.current
      <3>1. ASSUME pc = "wait" PROVE copies'[Top.src] > 0 \/ \E q \in wire' : q.current
        <4>1. Top.src \in Sources
          BY <1>0, <3>1, TopFrame DEF Busy
        <4> QED
          BY <1>0, <2>1, <2>2, <3>1, <4>1 DEF StepOK, WireOK
      <3> QED
        BY <3>1
    <2> QED
      BY <2>1, <2>2, <2>3, <2>4, StepKept
  <1>4. CASE ReadHistory \/ Capture \/ SettlePair \/ Start \/ NothingDue \/ OutOfScope
             \/ Unresolved \/ ReadFails \/ Refuse \/ LoseAnswer \/ Crash
    BY <1>4, StepOpens DEF ReadHistory, Capture, SettlePair, Start, NothingDue, OutOfScope,
                           Unresolved, ReadFails, Refuse, LoseAnswer, Crash, EndSlice
  <1> QED
    BY <1>1, <1>2, <1>3, <1>4, StepLocated, StepReserved, StepSent, StepReturned
    DEF Next, Slice, Attempt, Failure

-----------------------------------------------------------------------------
(* What is finished stays finished, and what is owed stays covered. *)

\* A pair that was settled is closed.
LEMMA PairedIsSkipped ==
    ASSUME OutletInv
    PROVE  \A r \in Sources : row[r].content = Paired => row[r].status = "skipped" /\ r \notin Edit
  <1> SUFFICES ASSUME NEW r \in Sources, row[r].content = Paired
               PROVE  row[r].status = "skipped" /\ r \notin Edit
    OBVIOUS
  <1>1. EventOK(r)
    BY DEF OutletInv
  <1> QED
    BY <1>1, GraphFacts DEF EventOK, RowOK

\* A write to an open row, or one that keeps the status, leaves finished
\* events finished.
LEMMA FinishedWritten ==
    ASSUME OutletInv, NEW e \in Sources, NEW s, Writes(e, s), row[e].content # Paired, Grounds(e),
           s = row[e].status \/ row[e].status \notin {"acked", "removed", "skipped"},
           NEW u \in Sources, Finished(u)
    PROVE  Finished(u)'
  <1>1. ~ Superseded(e)
    <2>1. e \in Withdraw => row[Ref[e]].content # Paired
      <3>1. ASSUME e \in Withdraw PROVE row[Ref[e]].content # Paired
        <4>1. Ref[e] \in React /\ Ref[e] \in Sources
          BY <3>1, GraphFacts
        <4>2. receipt[Ref[e]] # NoTarget /\ EventOK(Ref[e])
          BY <3>1, <4>1 DEF OutletInv, Grounds
        <4> QED
          BY <4>1, <4>2, PairedIsSkipped DEF EventOK, RowOK
      <3> QED
        BY <3>1
    <2>2. e \in React => e \notin Withdraw
      BY GraphFacts
    <2> QED
      BY <2>1, <2>2 DEF Superseded
  <1>2. CASE u = e
    <2>1. e \in Withdraw => row'[Ref[e]] = row[Ref[e]]
      <3>1. e \in Withdraw => Ref[e] \in React /\ Ref[e] \in Sources /\ e \notin React
        BY GraphFacts
      <3> QED
        BY <3>1 DEF Writes
    <2>2. row[e].status \in {"acked", "removed", "skipped"}
      BY <1>1, <1>2 DEF Finished
    <2>3. row'[e].status = row[e].status
      BY <2>2 DEF Writes
    <2> QED
      BY <1>1, <1>2, <2>1, <2>3 DEF Finished
  <1>3. CASE u # e
    <2>1. row'[u] = row[u]
      BY <1>3 DEF Writes
    <2>2. CASE u \notin Withdraw
      BY <2>1, <2>2 DEF Finished, Superseded
    <2>3. CASE u \in Withdraw /\ Ref[u] # e
      <3>1. Ref[u] \in Sources /\ u \notin React
        BY <2>3, GraphFacts
      <3>2. row'[Ref[u]] = row[Ref[u]]
        BY <2>3, <3>1 DEF Writes
      <3> QED
        BY <2>1, <2>3, <3>1, <3>2 DEF Finished, Superseded
    <2>4. CASE u \in Withdraw /\ Ref[u] = e
      <3>1. u \notin React /\ u \notin Text /\ u \notin Edit
        BY <2>4, GraphFacts
      <3>2. row[u].status = "acked" /\ row[e].status = "removed"
        BY <2>4, <3>1 DEF Finished, Superseded
      <3>3. row'[e].status = "removed"
        BY <3>2 DEF Writes
      <3> QED
        BY <2>1, <2>4, <3>2, <3>3 DEF Finished
    <2> QED
      BY <2>2, <2>3, <2>4
  <1> QED
    BY <1>2, <1>3

\* An acknowledgement leaves finished events finished.
LEMMA FinishedAcked ==
    ASSUME OutletInv, Acknowledge, NEW u \in Sources, Finished(u)
    PROVE  Finished(u)'
  <1>0. pc \in Busy /\ StepOK /\ pc = "ack"
    BY DEF OutletInv, Acknowledge, Busy
  <1>1. PICK e \in Sources : e = Top.src
    BY <1>0, TopFrame DEF OutletInv
  <1>2. /\ row[e].status = Sending(e) /\ row[e].content # Paired
        /\ row'[e].status = "acked" /\ row'[e].content = row[e].content
        /\ \A x \in Sources : x # e /\ ~ (e \in Withdraw /\ x = Ref[e]) => row'[x] = row[x]
        /\ e \in Withdraw =>
             /\ row[Ref[e]].status \in {"acked", "removed"}
             /\ Ref[e] # e
             /\ row'[Ref[e]].status = "removed"
             /\ row'[Ref[e]].content = row[Ref[e]].content
    BY <1>1, AckFacts
  <1>3. /\ row[e].status \in {"pending", "unknown"}
        /\ e \in Withdraw => row[Ref[e]].content # Paired /\ Ref[e] \in React /\ Ref[e] \in Sources
    <2>1. e \in Withdraw => Ref[e] \in Sources /\ Ref[e] \in React
      BY GraphFacts
    <2>2. \A r \in Sources : row[r].content = Paired => row[r].status = "skipped"
      BY PairedIsSkipped
    <2> QED
      BY <1>2, <2>1, <2>2 DEF Sending
  <1>4. u # e
    <2>1. CASE u = e
      <3>1. Superseded(e)
        BY <1>3, <2>1 DEF Finished
      <3>2. e \in React => e \notin Withdraw
        BY GraphFacts
      <3> QED
        BY <1>2, <1>3, <3>1, <3>2 DEF Superseded
    <2> QED
      BY <2>1
  <1>5. CASE e \in Withdraw /\ u = Ref[e]
    <2>1. u \in React
      BY <1>3, <1>5
    <2> QED
      BY <1>2, <1>5, <2>1 DEF Finished
  <1>6. CASE ~ (e \in Withdraw /\ u = Ref[e])
    <2>1. row'[u] = row[u]
      BY <1>2, <1>4, <1>6
    <2>2. CASE u \notin Withdraw
      BY <2>1, <2>2 DEF Finished, Superseded
    <2>3. CASE u \in Withdraw
      <3>1. u \notin React /\ Ref[u] \in React /\ Ref[u] \in Sources
        BY <2>3, GraphFacts
      <3>2. /\ row'[Ref[u]].content = row[Ref[u]].content
            /\ row[Ref[u]].status = "removed" => row'[Ref[u]].status = "removed"
        <4>1. CASE Ref[u] = e
          BY <1>2, <1>3, <4>1
        <4>2. CASE Ref[u] # e /\ e \in Withdraw /\ Ref[u] = Ref[e]
          BY <1>2, <4>2
        <4>3. CASE Ref[u] # e /\ ~ (e \in Withdraw /\ Ref[u] = Ref[e])
          BY <1>2, <3>1, <4>3
        <4> QED
          BY <4>1, <4>2, <4>3
      <3> QED
        BY <2>1, <2>3, <3>1, <3>2 DEF Finished, Superseded
    <2> QED
      BY <2>2, <2>3
  <1> QED
    BY <1>5, <1>6

\* No step makes a finished event unfinished.
LEMMA FinishedStays ==
    ASSUME OutletInv, Next, NEW u \in Sources, Finished(u)
    PROVE  Finished(u)'
  <1>0. TypeOK /\ StepOK
    BY DEF OutletInv
  <1>1. ASSUME UNCHANGED row PROVE Finished(u)'
    BY <1>1 DEF Finished, Superseded
  <1>2. CASE SettlePair
    <2>1. PICK h \in React, w \in Withdraw :
            /\ Ref[w] = h
            /\ row[h].status = "absent" /\ row[w].status = "absent"
            /\ \A e \in {h, w} :
                 row'[e] = [status |-> "skipped", target |-> NoTarget, content |-> Paired,
                            at |-> At[e], created |-> now]
            /\ \A x \in Sources : x \notin {h, w} => row'[x] = row[x]
      BY <1>2, PairFacts
    <2>2. h \in Sources /\ w \in Sources /\ h \notin Withdraw /\ w \notin React
      BY KindSets, GraphFacts
    <2>3. row'[h].content = Paired /\ row'[w].content = Paired
      BY <2>1
    <2>4. CASE u = h
      BY <2>3, <2>4 DEF Finished, Superseded
    <2>5. CASE u = w
      BY <2>1, <2>2, <2>3, <2>5 DEF Finished, Superseded
    <2>6. CASE u \notin {h, w}
      <3>1. row'[u] = row[u]
        BY <2>1, <2>6
      <3>2. CASE u \notin Withdraw
        BY <3>1, <3>2 DEF Finished, Superseded
      <3>3. CASE u \in Withdraw
        <4>1. Ref[u] \in React /\ Ref[u] \in Sources /\ u \notin React
          BY <3>3, GraphFacts
        <4>2. Ref[u] # w
          BY <2>2, <4>1
        <4>3. CASE Ref[u] = h
          <5>1. row[h].content # Paired
            BY <2>1, <2>2, PairedIsSkipped
          <5>2. u \notin Text /\ u \notin Edit
            BY <3>3, GraphFacts
          <5> QED
            BY <2>1, <3>3, <4>1, <4>3, <5>1, <5>2 DEF Finished, Superseded
        <4>4. CASE Ref[u] # h
          <5>1. row'[Ref[u]] = row[Ref[u]]
            BY <2>1, <4>1, <4>2, <4>4
          <5> QED
            BY <3>1, <3>3, <4>1, <5>1 DEF Finished, Superseded
        <4> QED
          BY <4>3, <4>4
      <3> QED
        BY <3>2, <3>3
    <2> QED
      BY <2>4, <2>5, <2>6
  <1>3. CASE ReserveMessage \/ ReserveReaction \/ MarkUnknown \/ Refuse
    <2>0. pc \in Busy
      BY <1>3 DEF ReserveMessage, ReserveReaction, MarkUnknown, Refuse, Busy
    <2>1. PICK e \in Sources : e = Top.src
      BY <1>0, <2>0, TopFrame
    <2>2. Grounds(e)
      BY <1>0, <1>3, <2>1 DEF StepOK, ReserveMessage, ReserveReaction, MarkUnknown, Refuse
    <2>3. /\ row[e].content # Paired
          /\ \E s : /\ Writes(e, s)
                    /\ s = row[e].status \/ row[e].status \notin {"acked", "removed", "skipped"}
      <3>1. CASE ReserveMessage
        <4>1. /\ row[e].content # Paired
              /\ \/ Writes(e, row[e].status)
                 \/ Writes(e, "skipped") /\ row[e].status \notin {"acked", "skipped"} /\ e \in Edit
                 \/ Writes(e, "pending") /\ row[e].status \in {"absent", "pending", "failed"}
                 \/ Writes(e, IF row[e].status = "absent" THEN "pending" ELSE row[e].status)
          BY <2>1, <3>1, ReserveMessageFacts
        <4>2. e \in Edit => row[e].status # "removed"
          BY GraphFacts DEF OutletInv, EventOK, RowOK
        <4>3. CASE row[e].status = "absent"
          BY <4>1, <4>3
        <4> QED
          BY <4>1, <4>2, <4>3
      <3>2. CASE ReserveReaction
        BY <2>1, <3>2, ReserveReactionFacts
      <3>3. CASE MarkUnknown
        BY <2>1, <3>3, MarkFacts
      <3>4. CASE Refuse
        BY <2>1, <3>4, RefuseFacts DEF Sending
      <3> QED
        BY <1>3, <3>1, <3>2, <3>3, <3>4
    <2> QED
      BY <2>2, <2>3, FinishedWritten
  <1>4. CASE Acknowledge
    BY <1>4, FinishedAcked
  <1>5. ASSUME NEW e \in Sources, Publish(e) PROVE UNCHANGED row
    BY <1>5 DEF Publish, ledgerVars
  <1>6. ASSUME NEW q \in wire, Land(q) PROVE UNCHANGED row
    BY <1>6 DEF Land, ledgerVars
  <1>7. CASE Tick \/ ReadHistory \/ Capture \/ Start \/ NothingDue \/ Enter \/ OutOfScope
             \/ Resolve \/ Unresolved \/ Readback \/ Call \/ Reply \/ Return
             \/ ReadFails \/ LoseAnswer \/ Crash
    <2>1. UNCHANGED row
      BY <1>7 DEF Tick, ReadHistory, Capture, Start, NothingDue, Enter, OutOfScope, Resolve,
                  Unresolved, Readback, Call, Reply, Return, ReadFails, LoseAnswer, Crash, ledgerVars
    <2> QED
      BY <1>1, <2>1
  <1> QED
    BY <1>1, <1>2, <1>3, <1>4, <1>5, <1>6, <1>7 DEF Next, Slice, Attempt, Failure

\* The cursor moves to an acknowledgement, never past the newest one.
LEMMA AckCursor ==
    ASSUME OutletInv, Acknowledge
    PROVE  \/ cursor' = cursor
           \/ cursor' = 0
           \/ \E a \in Sources : /\ a = Top.src \/ row[a].status = "acked"
                                 /\ cursor' \in Nat /\ cursor' <= At[a]
  <1>0. pc \in Busy /\ pc = "ack" /\ TypeOK /\ row \in [Sources -> Row]
    BY DEF OutletInv, Acknowledge, Busy, TypeOK, LedgerTypeOK
  <1>1. PICK e \in Sources : e = Top.src
    BY <1>0, TopFrame
  <1>2. PICK g \in Targets : g = IF e \in Text \cup React THEN copies[e] ELSE 1
    BY <1>0, <1>1, ReceiptType
  <1>3. PICK r : r = AckedRow(row, e, g)
    OBVIOUS
  <1>4. cursor' = cursor \/ AdvanceOnAck(r)
    <2>1. CASE e \in Withdraw
      <3>1. AdvanceOnAck(AckedRow(row, e, g))
        BY <1>1, <1>2, <2>1 DEF Acknowledge
      <3> QED
        BY <1>3, <3>1
    <2>2. CASE e \notin Withdraw
      <3>1. AckOutlet(e, g, Len(stack) = 1)
        BY <1>1, <1>2, <2>2 DEF Acknowledge
      <3>2. row' = r /\ (UNCHANGED cursor \/ AdvanceOnAck(row'))
        BY <1>3, <3>1 DEF AckOutlet
      <3> QED
        BY <3>2
    <2> QED
      BY <2>1, <2>2
  <1>5. ASSUME AdvanceOnAck(r), cursor' # cursor, cursor' # 0
        PROVE  \E a \in Sources : /\ a = Top.src \/ row[a].status = "acked"
                                  /\ cursor' \in Nat /\ cursor' <= At[a]
    <2>1. PICK p \in Times : IsNewestAck(r, p) /\ AdvanceTo(r, p)
      BY <1>5 DEF AdvanceOnAck
    <2>2. PICK q \in Times : IsHeldBack(r, p, q) /\ cursor' = IF q > cursor THEN q ELSE cursor
      BY <2>1 DEF AdvanceTo
    <2>3. cursor' = q /\ q <= p /\ q \in Nat /\ p \in Nat
      BY <1>5, <2>2, TimesAreNat DEF IsHeldBack
    <2>4. p # 0
      BY <1>5, <2>3
    <2>5. PICK a \in Sources : r[a].status = "acked" /\ r[a].at = p
      BY <2>1, <2>4 DEF IsNewestAck, Acked
    <2>6. r[a].at = row[a].at /\ (a = e \/ row[a].status = "acked")
      <3>1. CASE a = e
        <4>1. row[e] \in Row /\ r[e] = [row[e] EXCEPT !.status = "acked", !.target = g]
          BY <1>0, <1>3 DEF AckedRow
        <4> QED
          BY <3>1, <4>1 DEF Row
      <3>2. CASE a # e
        <4>1. r[a] = row[a]
          BY <1>0, <1>3, <3>2 DEF AckedRow
        <4> QED
          BY <2>5, <4>1
      <3> QED
        BY <3>1, <3>2
    <2>7. row[a].status # "absent"
      <3>1. row[e].status = Sending(e)
        BY <1>0, <1>1 DEF OutletInv, StepOK
      <3> QED
        BY <2>6, <3>1 DEF Sending
    <2>8. row[a].at = At[a]
      BY <2>7 DEF OutletInv, EventOK, RowOK
    <2> QED
      BY <1>1, <2>3, <2>5, <2>6, <2>8
  <1> QED
    BY <1>4, <1>5

\* The events the attempt works on are not newer than the one it was started
\* for, and that one was read in this slice.
LEMMA TopIsCovered ==
    ASSUME OutletInv, pc \in Busy
    PROVE  \E a \in snap : a \in Sources /\ At[Top.src] <= At[a]
  <1>1. /\ TypeOK /\ StackOK /\ stack # <<>> /\ Len(stack) \in Nat /\ Len(stack) > 0
        /\ stack \in Seq(Frame)
    BY TopFrame DEF OutletInv, TypeOK, Frame
  <1>2. Len(stack) \in 1 .. Len(stack) /\ 1 \in 1 .. Len(stack)
    BY <1>1
  <1>3. At[Top.src] <= At[stack[1].src] /\ stack[1].src \in snap /\ stack[1].src \in Sources
    BY <1>1, <1>2, FrameTypes DEF StackOK, FrameOK, Top
  <1> QED
    BY <1>3

\* Nothing is later than the clock, and an idle outlet holds no interval.
LEMMA TimeStep ==
    ASSUME OutletInv, Next
    PROVE  TimeOK'
  <1>0. /\ TypeOK /\ TimeOK /\ now \in Nat /\ cursor \in Nat \cup {-1} /\ relay \subseteq Sources
        /\ \A e \in relay : At[e] \in Nat /\ At[e] <= now
    BY TimesAreNat, GraphFacts DEF OutletInv, TypeOK, LedgerTypeOK, NoCursor, TimeOK
  <1>1. ASSUME UNCHANGED <<cursor, relay, now>>, pc' # "idle" \/ snap' = {}
        PROVE  TimeOK'
    BY <1>0, <1>1 DEF TimeOK
  <1>2. ASSUME NEW e \in Sources, Publish(e) PROVE TimeOK'
    <2>1. relay' = relay \cup {e} /\ At[e] <= now /\ UNCHANGED <<cursor, now, pc, snap>>
      BY <1>2 DEF Publish, ledgerVars, controlVars
    <2> QED
      BY <1>0, <2>1 DEF TimeOK
  <1>3. CASE Tick
    <2>1. UNCHANGED <<relay, cursor, pc, snap>> /\ now' = now + 1
      BY <1>3 DEF Tick, ledgerVars, controlVars
    <2> QED
      BY <1>0, <2>1 DEF TimeOK
  <1>4. ASSUME NEW q \in wire, Land(q) PROVE TimeOK'
    <2>1. UNCHANGED <<relay, cursor, now, pc, snap>>
      BY <1>4 DEF Land, ledgerVars, controlVars
    <2> QED
      BY <1>0, <2>1 DEF TimeOK
  <1>5. CASE Acknowledge
    <2>1. UNCHANGED <<relay, now>> /\ pc' = "return" /\ pc \in Busy
      BY <1>5 DEF Acknowledge, Busy
    <2>2. cursor' <= now
      <3>1. CASE cursor' = cursor
        BY <1>0, <3>1 DEF TimeOK
      <3>2. CASE cursor' = 0
        BY <1>0, <3>2
      <3>3. ASSUME NEW a \in Sources, a = Top.src \/ row[a].status = "acked",
                   cursor' \in Nat, cursor' <= At[a]
            PROVE  cursor' <= now
        <4>1. a \in relay
          <5>1. CASE a = Top.src
            BY <2>1, <5>1, TopEvent
          <5>2. CASE row[a].status = "acked"
            BY <5>2 DEF OutletInv, EventOK, RowOK
          <5> QED
            BY <3>3, <5>1, <5>2
        <4> QED
          BY <1>0, <3>3, <4>1
      <3> QED
        BY <1>5, <3>1, <3>2, <3>3, AckCursor
    <2> QED
      BY <1>0, <2>1, <2>2 DEF TimeOK
  <1>6. CASE ReadHistory \/ Capture \/ SettlePair \/ Start \/ NothingDue \/ Enter \/ OutOfScope
             \/ Resolve \/ Unresolved \/ ReserveMessage \/ ReserveReaction \/ MarkUnknown
             \/ Readback \/ Call \/ Reply
    <2>1. UNCHANGED <<cursor, relay, now>>
      BY <1>6 DEF ReadHistory, Capture, SettlePair, Start, NothingDue, Enter, OutOfScope,
                  Resolve, Unresolved, ReserveMessage, ReserveReaction, MarkUnknown,
                  Readback, Call, Reply, ledgerVars
    <2>2. pc' # "idle" \/ snap' = {}
      <3>1. CASE Resolve
        BY <3>1, ResolveCases
      <3>2. CASE ~ Resolve
        BY <1>6, <3>2 DEF ReadHistory, Capture, SettlePair, Start, NothingDue, Enter, OutOfScope,
                  Unresolved, ReserveMessage, ReserveReaction, MarkUnknown,
                  Readback, Call, Reply, EndSlice
      <3> QED
        BY <3>1, <3>2
    <2> QED
      BY <1>1, <2>1, <2>2
  <1>7. CASE Return \/ ReadFails \/ Refuse \/ LoseAnswer \/ Crash
    <2>1. UNCHANGED <<cursor, relay, now>> /\ (pc' # "idle" \/ snap' = {})
      BY <1>7 DEF Return, ReadFails, Refuse, LoseAnswer, Crash, EndSlice, ledgerVars
    <2> QED
      BY <1>1, <2>1
  <1> QED
    BY <1>2, <1>3, <1>4, <1>5, <1>6, <1>7 DEF Next, Slice, Attempt, Failure

\* What is owed after a step that publishes nothing was owed before it.
LEMMA OwedBefore ==
    ASSUME OutletInv, Next, UNCHANGED relay, NEW e \in Sources, Owed(e)'
    PROVE  Owed(e)
  <1>1. ~ Finished(e)
    BY FinishedStays DEF Owed
  <1>2. Moot(e)' = Moot(e)
    BY DEF Moot, LatestEdit
  <1> QED
    BY <1>1, <1>2 DEF Owed

\* A step that moves neither the cursor nor what the slice has missed.
LEMMA CoverKept ==
    ASSUME OutletInv, NEW e \in Sources, Owed(e)' => Owed(e), UNCHANGED cursor,
           Owed(e)' /\ work[e].held => work'[e].held,
           \/ pc' = "idle"
           \/ /\ pc # "idle" /\ UNCHANGED snap
              /\ Owed(e)' /\ Missed(e)' => Missed(e)
              /\ \A a \in Sources : row'[a].status = "acked" => row[a].status = "acked"
    PROVE  CoverOK(e)'
  <1>1. CoverOK(e)
    BY DEF OutletInv
  <1>2. Owed(e)' => work'[e].held \/ cursor' <= At[e] + Overlap
    BY <1>1 DEF CoverOK
  <1>3. ASSUME Owed(e)', pc' # "idle", Missed(e)', NEW a \in Sources,
               a \in snap' \/ row'[a].status = "acked"
        PROVE  Within(a, At[e])
    BY <1>1, <1>3 DEF CoverOK
  <1> QED
    BY <1>2, <1>3 DEF CoverOK, Within

\* A new event is young, and so is one whose reaction has just appeared.
LEMMA CoverPublished ==
    ASSUME OutletInv, NEW p \in Sources, Publish(p), NEW e \in Sources
    PROVE  CoverOK(e)'
  <1>1. /\ p \notin relay /\ At[p] <= now /\ now <= At[p] + Lateness /\ relay' = relay \cup {p}
        /\ UNCHANGED <<row, cursor, work, pc, snap, now>>
    BY DEF Publish, ledgerVars, queueVars, controlVars
  <1>2. CASE Owed(e)' => Owed(e)
    <2>1. Missed(e)' = Missed(e)
      BY <1>1 DEF Missed
    <2>2. pc = "idle" \/ pc # "idle"
      OBVIOUS
    <2> QED
      BY <1>1, <1>2, <2>1, <2>2, CoverKept
  <1>3. CASE Owed(e)' /\ ~ Owed(e)
    <2>1. ~ Finished(e)
      <3>1. Finished(e)' = Finished(e)
        BY <1>1 DEF Finished, Superseded
      <3> QED
        BY <1>3, <3>1 DEF Owed
    <2>2. now <= At[e] + Overlap
      <3>1. At[p] <= At[e]
        <4>1. CASE e = p
          BY <4>1, GraphFacts
        <4>2. CASE e # p
          <5>1. e \in relay /\ Moot(e) /\ ~ Moot(e)'
            BY <1>1, <1>3, <2>1, <4>2 DEF Owed
          <5>2. ~ LatestEdit(e) => ~ LatestEdit(e)'
            BY <1>1 DEF LatestEdit
          <5>3. e \in Withdraw /\ Ref[e] \notin relay /\ Ref[e] \in relay'
            BY <5>1, <5>2 DEF Moot
          <5>4. Ref[e] = p
            BY <1>1, <5>3
          <5> QED
            BY <5>3, <5>4, GraphFacts
        <4> QED
          BY <4>1, <4>2
      <3>2. At[p] \in Nat /\ At[e] \in Nat /\ now \in Nat
        BY GraphFacts, TimesAreNat DEF OutletInv, TypeOK
      <3> QED
        BY <1>1, <3>1, <3>2, ConstantFacts
    <2>3. /\ cursor <= now /\ now \in Nat /\ cursor \in Nat \cup {-1} /\ At[e] \in Nat
          /\ \A a \in relay : At[a] <= now /\ At[a] \in Nat
      BY GraphFacts, TimesAreNat DEF OutletInv, TypeOK, LedgerTypeOK, NoCursor, TimeOK
    <2>4. cursor' <= At[e] + Overlap
      BY <1>1, <2>2, <2>3, ConstantFacts
    <2>5. ASSUME NEW a \in Sources, a \in snap' \/ row'[a].status = "acked"
          PROVE  Within(a, At[e])
      <3>1. a \in relay
        <4>1. CASE a \in snap'
          BY <1>1, <4>1 DEF OutletInv, TypeOK
        <4>2. CASE row'[a].status = "acked"
          BY <1>1, <4>2 DEF OutletInv, EventOK, RowOK
        <4> QED
          BY <2>5, <4>1, <4>2
      <3> QED
        BY <2>2, <2>3, <3>1, ConstantFacts DEF Within
    <2> QED
      BY <2>4, <2>5 DEF CoverOK, Within
  <1> QED
    BY <1>2, <1>3

\* A history read covers everything that is owed.
LEMMA ReadCovers ==
    ASSUME OutletInv, NEW e \in Sources, Owed(e)
    PROVE  SinceCovers(At[e])
  <1>1. CoverOK(e) /\ At[e] >= InitialSince /\ At[e] \in Nat
    BY GraphFacts DEF OutletInv, Owed
  <1>2. CASE work[e].held
    <2>1. e \in Held /\ At[e] <= At[e]
      BY <1>1, <1>2 DEF Held
    <2> QED
      BY <2>1 DEF SinceCovers
  <1>3. CASE cursor <= At[e] + Overlap
    <2>1. cursor \in Nat \cup {-1}
      BY TimesAreNat DEF OutletInv, TypeOK, LedgerTypeOK, NoCursor
    <2>2. cursor - Overlap <= At[e]
      BY <1>1, <1>3, <2>1, ConstantFacts
    <2> QED
      BY <1>1, <2>2, ConstantFacts DEF SinceCovers, Replays
  <1> QED
    BY <1>1, <1>2, <1>3 DEF CoverOK

\* So the slice that has just read has missed nothing that is owed.
LEMMA CoverRead ==
    ASSUME OutletInv, ReadHistory, NEW e \in Sources, Owed(e)' => Owed(e)
    PROVE  CoverOK(e)'
  <1>1. /\ snap' = {x \in relay : At[x] <= now /\ SinceCovers(At[x])} /\ pc' = "capture"
        /\ UNCHANGED <<cursor, work>>
    BY DEF ReadHistory, ledgerVars, queueVars
  <1>2. CoverOK(e) /\ TimeOK
    BY DEF OutletInv
  <1>3. ASSUME Owed(e) PROVE e \in snap'
    <2>1. e \in relay /\ At[e] <= now
      BY <1>2, <1>3 DEF Owed, TimeOK
    <2> QED
      BY <1>1, <1>3, <2>1, ReadCovers
  <1>4. Owed(e)' => ~ Missed(e)'
    BY <1>1, <1>3 DEF Missed
  <1>5. Owed(e)' => work'[e].held \/ cursor' <= At[e] + Overlap
    BY <1>1, <1>2 DEF CoverOK
  <1> QED
    BY <1>4, <1>5 DEF CoverOK

\* The capture takes everything it has read that is owed, except a withdrawal
\* whose reaction it has missed.
LEMMA CoverCaptured ==
    ASSUME OutletInv, Capture, NEW e \in Sources, Owed(e)' => Owed(e)
    PROVE  CoverOK(e)'
  <1>1. /\ pc = "capture" /\ pc' = "choose" /\ UNCHANGED <<row, cursor, snap, relay>>
        /\ work' = [x \in Sources |->
                      IF x \in snap /\ Finished(x) THEN NotHeld
                      ELSE IF x \in snap /\ ~ Ignored(x) /\ ~ work[x].held
                           THEN [held |-> TRUE, attempts |-> 0, retryAt |-> 0]
                           ELSE work[x]]
    BY DEF Capture, ledgerVars
  <1>2. CoverOK(e)
    BY DEF OutletInv
  <1>3. Owed(e) => work'[e] = IF e \in snap /\ ~ Ignored(e) /\ ~ work[e].held
                              THEN [held |-> TRUE, attempts |-> 0, retryAt |-> 0]
                              ELSE work[e]
    BY <1>1 DEF Owed
  <1>4. Owed(e) /\ work[e].held => work'[e].held
    BY <1>3
  <1>5. Owed(e)' => work'[e].held \/ cursor' <= At[e] + Overlap
    BY <1>1, <1>2, <1>4 DEF CoverOK
  <1>6. ASSUME Owed(e)', Missed(e)', NEW a \in Sources, a \in snap' \/ row'[a].status = "acked"
        PROVE  Within(a, At[e])
    <2>1. Owed(e) /\ ~ work'[e].held
      BY <1>1, <1>6 DEF Missed
    <2>2. CASE e \notin snap
      BY <1>1, <1>2, <1>6, <2>1, <2>2 DEF CoverOK, Missed
    <2>3. CASE e \in snap
      <3>1. Ignored(e)
        BY <1>3, <2>1, <2>3
      <3>2. At[e] \in Nat /\ InitialSince \in Nat
        BY GraphFacts, ConstantFacts
      <3>3. e \in Withdraw /\ row[Ref[e]].status = "absent" /\ Ref[e] \notin snap
        BY <2>1, <3>1, <3>2 DEF Ignored, Owed
      <3>4. /\ Ref[e] \in Sources /\ Ref[e] \in React
            /\ Ref[e] \notin Text /\ Ref[e] \notin Edit /\ Ref[e] \notin Withdraw
            /\ At[Ref[e]] <= At[e] /\ At[Ref[e]] \in Nat
        <4>1. Ref[e] \in React /\ Ref[e] \in Sources
          BY <3>3, GraphFacts
        <4>2. e \in Sources /\ Ref[e] # None
          BY <4>1, GraphFacts
        <4> QED
          BY <4>1, <4>2, GraphFacts
      <3>5. Owed(Ref[e])
        <4>1. Ref[e] \in relay /\ At[Ref[e]] >= InitialSince
          BY <2>1, <3>2, <3>3, <3>4 DEF Owed, Moot
        <4>2. ~ Finished(Ref[e])
          BY <3>3, <3>4, PairedIsSkipped DEF Finished, Superseded
        <4>3. ~ Moot(Ref[e])
          BY <3>4 DEF Moot
        <4> QED
          BY <4>1, <4>2, <4>3 DEF Owed
      <3>6. CoverOK(Ref[e]) /\ Missed(Ref[e])
        BY <1>1, <3>3, <3>4 DEF OutletInv, Missed
      <3>7. Within(a, At[Ref[e]])
        BY <1>1, <1>6, <3>5, <3>6 DEF CoverOK
      <3> QED
        BY <3>2, <3>4, <3>7, GraphFacts, ConstantFacts DEF Within
    <2> QED
      BY <2>2, <2>3
  <1> QED
    BY <1>5, <1>6 DEF CoverOK, Within

\* An acknowledgement moves the cursor no further than the slice has read.
LEMMA CoverAcked ==
    ASSUME OutletInv, Acknowledge, NEW e \in Sources, Owed(e)' => Owed(e)
    PROVE  CoverOK(e)'
  <1>1. pc = "ack" /\ pc \in Busy /\ pc' = "return" /\ UNCHANGED <<work, snap>>
    BY DEF Acknowledge, Busy, queueVars
  <1>2. CoverOK(e) /\ At[e] \in Nat
    BY GraphFacts DEF OutletInv
  <1>3. ASSUME Owed(e), ~ work[e].held, NEW a \in Sources,
               a = Top.src \/ a \in snap \/ row[a].status = "acked"
        PROVE  Within(a, At[e])
    <2>1. \A b \in Sources : b \in snap \/ row[b].status = "acked" => Within(b, At[e])
      BY <1>1, <1>2, <1>3 DEF CoverOK, Missed
    <2>2. CASE a = Top.src
      <3>1. PICK b \in snap : b \in Sources /\ At[Top.src] <= At[b]
        BY <1>1, TopIsCovered
      <3>2. Within(b, At[e]) /\ At[b] \in Nat /\ At[a] \in Nat
        BY <2>1, <3>1, GraphFacts
      <3> QED
        BY <1>2, <2>2, <3>1, <3>2, ConstantFacts DEF Within
    <2> QED
      BY <1>3, <2>1, <2>2
  <1>4. Owed(e) => work[e].held \/ cursor' <= At[e] + Overlap
    <2>1. CASE cursor' = cursor
      BY <1>2, <2>1 DEF CoverOK
    <2>2. CASE cursor' = 0
      BY <1>2, <2>2, ConstantFacts
    <2>3. ASSUME NEW a \in Sources, a = Top.src \/ row[a].status = "acked",
                 cursor' \in Nat, cursor' <= At[a], Owed(e), ~ work[e].held
          PROVE  cursor' <= At[e] + Overlap
      <3>1. Within(a, At[e]) /\ At[a] \in Nat
        BY <1>3, <2>3, GraphFacts
      <3> QED
        BY <1>2, <2>3, <3>1, ConstantFacts DEF Within
    <2> QED
      BY <2>1, <2>2, <2>3, AckCursor
  <1>5. \A a \in Sources : row'[a].status = "acked" => a = Top.src \/ row[a].status = "acked"
    <2>1. ASSUME NEW a \in Sources, row'[a].status = "acked", a # Top.src
          PROVE  row[a].status = "acked"
      <3>1. CASE Top.src \in Withdraw /\ a = Ref[Top.src]
        BY <2>1, <3>1, AckFacts
      <3>2. CASE ~ (Top.src \in Withdraw /\ a = Ref[Top.src])
        BY <2>1, <3>2, AckFacts
      <3> QED
        BY <3>1, <3>2
    <2> QED
      BY <2>1
  <1>6. ASSUME Owed(e)', Missed(e)', NEW a \in Sources, a \in snap' \/ row'[a].status = "acked"
        PROVE  Within(a, At[e])
    <2>1. Owed(e) /\ ~ work[e].held
      BY <1>1, <1>6 DEF Missed
    <2>2. a = Top.src \/ a \in snap \/ row[a].status = "acked"
      BY <1>1, <1>5, <1>6
    <2> QED
      BY <1>3, <2>1, <2>2
  <1> QED
    BY <1>1, <1>4, <1>6 DEF CoverOK, Within

\* What leaves the queue is owed no longer.
LEMMA CoverReleased ==
    ASSUME OutletInv, SettlePair \/ Return, NEW e \in Sources, Owed(e)' => Owed(e)
    PROVE  CoverOK(e)'
  <1>1. CASE SettlePair
    <2>1. /\ UNCHANGED cursor /\ pc' = "idle"
          /\ \E h \in React, w \in Withdraw :
                /\ Ref[w] = h
                /\ \A x \in {h, w} :
                     row'[x] = [status |-> "skipped", target |-> NoTarget, content |-> Paired,
                                at |-> At[x], created |-> now]
                /\ \A u \in Sources : u \notin {h, w} => work'[u] = work[u]
      BY <1>1, PairFacts
    <2>2. PICK h \in React, w \in Withdraw :
                /\ Ref[w] = h
                /\ row'[h].content = Paired /\ row'[w].content = Paired
                /\ \A u \in Sources : u \notin {h, w} => work'[u] = work[u]
      BY <2>1
    <2>3. w \notin React
      BY KindSets, GraphFacts
    <2>4. Owed(e)' => e \notin {h, w}
      BY <2>2, <2>3 DEF Owed, Finished, Superseded
    <2> QED
      BY <2>1, <2>2, <2>4, CoverKept
  <1>2. CASE Return /\ Len(stack) > 1
    <2>1. pc = "return" /\ pc' = "reserve" /\ UNCHANGED <<row, cursor, work, snap>>
      BY <1>2 DEF Return, ledgerVars
    <2>2. Missed(e)' = Missed(e)
      BY <2>1 DEF Missed
    <2> QED
      BY <2>1, <2>2, CoverKept
  <1>3. CASE Return /\ ~ (Len(stack) > 1)
    <2>1. /\ pc = "return" /\ pc \in Busy /\ pc' = "idle" /\ UNCHANGED cursor
          /\ work' = [work EXCEPT ![Top.src] = NotHeld]
      BY <1>3 DEF Return, EndSlice, ledgerVars, Busy
    <2>2. PICK d \in Sources : d = Top.src
      BY <2>1, TopFrame DEF OutletInv
    <2>3. \A u \in Sources : u # d => work'[u] = work[u]
      BY <2>1, <2>2 DEF OutletInv, TypeOK
    <2>4. Finished(d) \/ Moot(d)
      <3>1. \/ row[d].status = "acked"
            \/ d \in Edit /\ (row[d].status = "skipped" \/ ~ LatestEdit(d))
        BY <2>1, <2>2 DEF OutletInv, StepOK
      <3>2. d \in Withdraw /\ row[d].status = "acked" => row[Ref[d]].status = "removed"
        BY DEF OutletInv, EventOK, ReactionOK
      <3> QED
        BY <3>1, <3>2, GraphFacts DEF Finished, Moot
    <2>5. Owed(e)' => e # d
      BY <2>4 DEF Owed
    <2> QED
      BY <2>1, <2>3, <2>5, CoverKept
  <1> QED
    BY <1>1, <1>2, <1>3

\* No step loses an event behind the cursor.
LEMMA CoverStep ==
    ASSUME OutletInv, Next, NEW e \in Sources
    PROVE  CoverOK(e)'
  <1>0. TypeOK
    BY DEF OutletInv
  <1>1. CASE \E p \in Sources : Publish(p)
    BY <1>1, CoverPublished
  <1>2. CASE ~ \E p \in Sources : Publish(p)
    <2>1. UNCHANGED relay
      <3>1. ASSUME NEW q \in wire, Land(q) PROVE UNCHANGED relay
        BY <3>1 DEF Land
      <3>2. CASE Resolve
        BY <3>2, ResolveCases
      <3>3. CASE Tick \/ ReadHistory \/ Capture \/ SettlePair \/ Start \/ NothingDue \/ Failure
        BY <3>3 DEF Tick, ReadHistory, Capture, SettlePair, Start, NothingDue, Failure, ReadFails,
                    Refuse, LoseAnswer, Crash
      <3>4. CASE Attempt /\ ~ Resolve
        BY <3>4 DEF Attempt, Enter, OutOfScope, Unresolved, ReserveMessage, ReserveReaction,
                    MarkUnknown, Readback, Call, Reply, Acknowledge, Return
      <3> QED
        BY <1>2, <3>1, <3>2, <3>3, <3>4 DEF Next, Slice
    <2>2. Owed(e)' => Owed(e)
      BY <2>1, OwedBefore
    <2>3. ASSUME UNCHANGED <<cursor, work>>,
                 \/ pc' = "idle"
                 \/ /\ UNCHANGED snap /\ pc # "idle"
                    /\ pc # "capture" /\ pc' # "capture"
                    /\ \A a \in Sources : row'[a].status = "acked" => row[a].status = "acked"
          PROVE  CoverOK(e)'
      <3>1. pc' # "idle" => Missed(e)' = Missed(e)
        BY <2>3 DEF Missed
      <3> QED
        BY <2>2, <2>3, <3>1, CoverKept
    <2>4. CASE Tick \/ \E q \in wire : Land(q)
      <3>1. UNCHANGED <<row, cursor, work, pc, snap>>
        BY <2>4 DEF Tick, Land, ledgerVars, queueVars, controlVars
      <3>2. Missed(e)' = Missed(e)
        BY <3>1 DEF Missed
      <3>3. pc = "idle" \/ pc # "idle"
        OBVIOUS
      <3> QED
        BY <2>2, <3>1, <3>2, <3>3, CoverKept
    <2>5. CASE ReadHistory
      BY <2>2, <2>5, CoverRead
    <2>6. CASE Capture
      BY <2>2, <2>6, CoverCaptured
    <2>7. CASE Start
      <3>1. PICK h \in Held :
              /\ work' = [work EXCEPT
                    ![h].attempts = IF @ < AttemptCap THEN @ + 1 ELSE @,
                    ![h].retryAt  = now + Lease(work[h].attempts)]
              /\ pc = "choose" /\ pc' = "enter" /\ UNCHANGED <<row, cursor, snap>>
        BY <2>7 DEF Start, ledgerVars
      <3>2. work'[e].held = work[e].held
        <4>1. CASE e = h
          <5>1. work'[h] = [work[h] EXCEPT !.attempts = IF @ < AttemptCap THEN @ + 1 ELSE @,
                                           !.retryAt  = now + Lease(work[h].attempts)]
            BY <1>0, <3>1, <4>1 DEF TypeOK
          <5> QED
            BY <1>0, <4>1, <5>1 DEF TypeOK
        <4>2. CASE e # h
          BY <1>0, <3>1, <4>2 DEF TypeOK
        <4> QED
          BY <4>1, <4>2
      <3>3. Missed(e)' = Missed(e)
        BY <3>1, <3>2 DEF Missed
      <3> QED
        BY <2>2, <3>1, <3>2, <3>3, CoverKept
    <2>8. CASE SettlePair \/ Return
      BY <2>2, <2>8, CoverReleased
    <2>9. CASE Acknowledge
      BY <2>2, <2>9, CoverAcked
    <2>10. CASE ReserveMessage \/ ReserveReaction \/ MarkUnknown
      <3>0. /\ pc \in Busy /\ UNCHANGED <<cursor, work>>
            /\ pc' = "idle" \/ (pc' # "capture" /\ UNCHANGED snap)
        BY <2>10 DEF ReserveMessage, ReserveReaction, MarkUnknown, EndSlice, Busy, queueVars
      <3>1. PICK d \in Sources : d = Top.src
        BY <1>0, <3>0, TopFrame
      <3>2. \E s : Writes(d, s) /\ (s = "acked" => row[d].status = "acked")
        <4>1. CASE ReserveMessage
          BY <3>1, <4>1, ReserveMessageFacts
        <4>2. CASE ReserveReaction
          BY <3>1, <4>2, ReserveReactionFacts
        <4>3. CASE MarkUnknown
          BY <3>1, <4>3, MarkFacts
        <4> QED
          BY <2>10, <4>1, <4>2, <4>3
      <3>3. \A a \in Sources : row'[a].status = "acked" => row[a].status = "acked"
        BY <3>2 DEF Writes
      <3> QED
        BY <2>3, <3>0, <3>3 DEF Busy
    <2>11. CASE Resolve
      <3>1. pc = "resolve" /\ pc' \in {"reserve", "enter", "return"} /\ UNCHANGED <<row, cursor, work, snap>>
        BY <2>11, ResolveCases DEF Resolve, ledgerVars, queueVars
      <3> QED
        BY <2>3, <3>1
    <2>12. CASE NothingDue \/ Enter \/ OutOfScope \/ Unresolved \/ Readback \/ Call \/ Reply \/ Failure
      <3>1. UNCHANGED <<cursor, work>>
        BY <2>12 DEF NothingDue, Enter, OutOfScope, Unresolved, Readback, Call, Reply, Failure,
                     ReadFails, Refuse, LoseAnswer, Crash, ledgerVars, queueVars
      <3>2. CASE pc' = "idle"
        BY <2>3, <3>1, <3>2
      <3>3. CASE pc' # "idle"
        <4>1. Enter \/ Readback \/ Call \/ Reply
          BY <2>12, <3>3 DEF NothingDue, OutOfScope, Unresolved, Failure, ReadFails, Refuse,
                             LoseAnswer, Crash, EndSlice
        <4>2. UNCHANGED <<row, snap>> /\ pc \in Busy /\ pc' # "capture"
          BY <3>3, <4>1 DEF Enter, Readback, Call, Reply, EndSlice, Busy, ledgerVars
        <4> QED
          BY <2>3, <3>1, <4>2 DEF Busy
      <3> QED
        BY <3>2, <3>3
    <2> QED
      BY <1>2, <2>4, <2>5, <2>6, <2>7, <2>8, <2>9, <2>10, <2>11, <2>12 DEF Next, Slice, Attempt
  <1> QED
    BY <1>1, <1>2

-----------------------------------------------------------------------------
(* The cards. *)

\* A step that sends no edit and shows none.
LEMMA CardKept ==
    ASSUME OutletInv, UNCHANGED card, relay \subseteq relay',
           LateLanding = FALSE => \A q \in wire' : q.current,
           pc' \in {"call", "wait"} => \/ pc \in {"call", "wait"} /\ Top' = Top
                                       \/ Top'.src \notin Edit
    PROVE  CardOK'
  <1>1. CardOK
    BY DEF OutletInv
  <1>2. \A m \in Text : card'[m] # None => card'[m] \in relay' /\ Ref[card'[m]] = m
    BY <1>1 DEF CardOK
  <1>3. ASSUME LateLanding = FALSE, pc' \in {"call", "wait"}, Top'.src \in Edit
        PROVE  card'[Ref[Top'.src]] \in {None, Top'.src} \/ Newer(Top'.src, card'[Ref[Top'.src]])
    <2>1. pc \in {"call", "wait"} /\ Top' = Top
      BY <1>3
    <2> HIDE DEF Top
    <2> QED
      BY <1>1, <1>3, <2>1 DEF CardOK
  <1> HIDE DEF Top
  <1> QED
    BY <1>2, <1>3 DEF CardOK, Newer

\* The latest edit is newer than what its card shows.
LEMMA CardReserved ==
    ASSUME OutletInv, ReserveMessage
    PROVE  CardOK'
  <1>0. /\ pc \in Busy /\ CardOK /\ TypeOK /\ UNCHANGED <<card, relay, wire>>
    BY DEF ReserveMessage, Busy, OutletInv, feishuVars
  <1>1. PICK e \in Sources : e = Top.src
    BY <1>0, TopFrame
  <1>2. pc' \in {"call", "wait"} => UNCHANGED stack /\ (e \in Edit => LatestEdit(e))
    BY <1>1, ReserveMessageFacts DEF EndSlice
  <1>3. ASSUME e \in Edit, LatestEdit(e), card[Ref[e]] # None
        PROVE  card[Ref[e]] = e \/ Newer(e, card[Ref[e]])
    <2>1. Ref[e] \in Text
      BY <1>3, GraphFacts
    <2>2. PICK f \in Edit : f = card[Ref[e]]
      BY <1>0, <1>3, <2>1 DEF TypeOK
    <2>3. f \in relay /\ Ref[f] = Ref[e]
      BY <1>0, <1>3, <2>1, <2>2 DEF CardOK
    <2>4. ~ Newer(f, e)
      BY <1>3, <2>3 DEF LatestEdit
    <2>5. f \in Sources /\ f \in Nat /\ e \in Nat /\ At[f] \in Nat /\ At[e] \in Nat
      BY KindSets, GraphFacts
    <2> QED
      BY <2>2, <2>4, <2>5 DEF Newer
  <1>4. CASE pc' \notin {"call", "wait"}
    <2>1. LateLanding = FALSE => \A q \in wire' : q.current
      BY <1>0 DEF CardOK
    <2> QED
      BY <1>0, <1>4, <2>1, CardKept
  <1>5. CASE pc' \in {"call", "wait"}
    <2>1. Top'.src = e /\ (e \in Edit => LatestEdit(e))
      BY <1>1, <1>2, <1>5 DEF Top
    <2> HIDE DEF Top
    <2> QED
      BY <1>0, <1>3, <2>1 DEF CardOK, Newer
  <1> QED
    BY <1>4, <1>5

\* An edit that takes effect is what its card shows.
LEMMA CardLanded ==
    ASSUME OutletInv, NEW q \in wire, Land(q)
    PROVE  CardOK'
  <1>0. /\ CardOK /\ TypeOK /\ WireOK(q) /\ q.src \in Sources /\ Top' = Top
        /\ wire' = wire \ {q} /\ UNCHANGED <<pc, relay>>
        /\ card' = IF q.src \in Edit THEN [card EXCEPT ![Ref[q.src]] = q.src] ELSE card
    BY DEF OutletInv, TypeOK, Land, controlVars, Top
  <1>1. LateLanding = FALSE => \A x \in wire' : x.current
    BY <1>0 DEF CardOK
  <1>2. CASE q.src \notin Edit
    <2>1. UNCHANGED card
      BY <1>0, <1>2
    <2> HIDE DEF Top
    <2> QED
      BY <1>0, <1>1, <2>1, CardKept
  <1>3. CASE q.src \in Edit
    <2>1. PICK e \in Sources : e = q.src
      BY <1>0
    <2>2. Ref[e] \in Text /\ e \in relay /\ card \in [Text -> Edit \cup {None}]
      BY <1>0, <1>3, <2>1, GraphFacts DEF WireOK, OutletInv, EventOK, RowOK, TypeOK
    <2>3. card' = [card EXCEPT ![Ref[e]] = e]
      BY <1>0, <1>3, <2>1
    <2>4. \A m \in Text : card'[m] # None => card'[m] \in relay' /\ Ref[card'[m]] = m
      BY <1>0, <2>2, <2>3 DEF CardOK
    <2>5. LateLanding = FALSE /\ pc' \in {"call", "wait"} => Top'.src = e
      BY <1>0, <2>1 DEF CardOK, WireOK
    <2>6. card'[Ref[e]] = e
      BY <2>2, <2>3
    <2> HIDE DEF Top
    <2> QED
      BY <1>1, <2>4, <2>5, <2>6 DEF CardOK, Newer
  <1> QED
    BY <1>2, <1>3

\* Every step keeps what the cards show in order.
LEMMA CardStep ==
    ASSUME OutletInv, Next
    PROVE  CardOK'
  <1>0. /\ CardOK /\ TypeOK /\ StepOK /\ (LateLanding = FALSE => \A q \in wire : q.current)
    BY DEF OutletInv, CardOK
  <1>1. ASSUME NEW e \in Sources, Publish(e) PROVE CardOK'
    <2>1. UNCHANGED <<card, wire, pc, stack>> /\ relay \subseteq relay' /\ Top' = Top
      BY <1>1 DEF Publish, controlVars, feishuVars, Top
    <2> HIDE DEF Top
    <2> QED
      BY <1>0, <2>1, CardKept
  <1>2. CASE Tick
    <2>1. UNCHANGED <<card, pc, stack, relay>> /\ wire' \subseteq wire /\ Top' = Top
      BY <1>2 DEF Tick, controlVars, feishuVars, Top
    <2> HIDE DEF Top
    <2> QED
      BY <1>0, <2>1, CardKept
  <1>3. CASE Resolve
    <2>1. UNCHANGED <<card, relay, wire>> /\ pc' \notin {"call", "wait"}
      BY <1>3, ResolveCases DEF feishuVars
    <2> QED
      BY <1>0, <2>1, CardKept
  <1>4. CASE MarkUnknown
    <2>1. UNCHANGED <<card, relay, wire>> /\ Top' = Top /\ pc = "mark" /\ pc \in Busy
      BY <1>4 DEF MarkUnknown, feishuVars, Top, Busy
    <2>2. Top.src \notin Edit
      <3>1. Top.src \in React \cup Withdraw /\ Top.src \in Sources
        BY <1>0, <2>1, TopFrame DEF StepOK
      <3> QED
        BY <3>1, GraphFacts
    <2> HIDE DEF Top
    <2> QED
      BY <1>0, <2>1, <2>2, CardKept
  <1>5. CASE Call
    <2>1. /\ UNCHANGED <<card, relay>> /\ Top' = Top /\ pc = "call"
          /\ wire' = wire \cup {[src |-> Top.src, by |-> Top.t0 + Margin, current |-> TRUE]}
      BY <1>5 DEF Call, feishuVars, Top
    <2>2. LateLanding = FALSE => \A q \in wire' : q.current
      BY <1>0, <2>1
    <2> HIDE DEF Top
    <2> QED
      BY <2>1, <2>2, CardKept
  <1>6. CASE \/ ReadHistory \/ Capture \/ SettlePair \/ Start \/ NothingDue \/ Enter \/ OutOfScope
             \/ Unresolved \/ ReserveReaction \/ Readback \/ Reply \/ Acknowledge \/ Return \/ ReadFails
    <2>1. UNCHANGED <<card, relay, wire>> /\ pc' \notin {"call", "wait"}
      BY <1>6 DEF ReadHistory, Capture, SettlePair, Start, NothingDue, Enter, OutOfScope, Unresolved,
                  ReserveReaction, Readback, Reply, Acknowledge, Return, ReadFails, EndSlice, feishuVars
    <2> QED
      BY <1>0, <2>1, CardKept
  <1>7. CASE Refuse \/ LoseAnswer \/ Crash
    <2>1. UNCHANGED <<card, relay>> /\ pc' = "idle"
      BY <1>7 DEF Refuse, LoseAnswer, Crash, EndSlice, feishuVars
    <2>2. LateLanding = FALSE => wire' \subseteq wire
      BY <1>7 DEF Refuse, LoseAnswer, Crash, Abandoned
    <2> QED
      BY <1>0, <2>1, <2>2, CardKept
  <1> QED
    BY <1>1, <1>2, <1>3, <1>4, <1>5, <1>6, <1>7, CardLanded, CardReserved
    DEF Next, Slice, Attempt, Failure

-----------------------------------------------------------------------------
(* The invariant. *)

LEMMA OutletTypes == OutletInv /\ Next => TypeOK'
  <1> SUFFICES ASSUME OutletInv, Next PROVE TypeOK'
    OBVIOUS
  <1>1. TypeOK
    BY DEF OutletInv
  <1> QED
    BY <1>1, EnvironmentTypes, SliceTypes, AttemptTypes, FailureTypes DEF Next, Slice

\* A step of nothing.
LEMMA OutletStutter == OutletInv /\ UNCHANGED vars => OutletInv'
  <1> SUFFICES ASSUME OutletInv, UNCHANGED vars PROVE OutletInv'
    OBVIOUS
  <1>1. /\ UNCHANGED <<row, receipt, cursor, work, turns, pc, snap, stack, sighted>>
        /\ UNCHANGED <<copies, firstAt, card, now, relay, wire, faults>>
    BY DEF vars, ledgerVars, queueVars, feishuVars, controlVars
  <1>2. /\ TypeOK /\ StackOK /\ StepOK /\ TimeOK /\ CardOK /\ now \in Nat
        /\ stack \in Seq(Frame)
    BY TimesAreNat DEF OutletInv, TypeOK, Frame
  <1>3. TypeOK'
    BY <1>1, <1>2 DEF TypeOK, LedgerTypeOK
  <1>4. ASSUME NEW e \in Sources PROVE EventOK(e)'
    BY <1>1, <1>2, EventKept DEF OutletInv
  <1>5. ASSUME NEW e \in Sources PROVE CoverOK(e)'
    <2>1. Owed(e)' = Owed(e) /\ Missed(e)' = Missed(e)
      BY <1>1 DEF Owed, Missed, Finished, Superseded, Moot, LatestEdit
    <2>2. CoverOK(e)
      BY DEF OutletInv
    <2> QED
      BY <1>1, <2>1, <2>2 DEF CoverOK, Within
  <1>6. ASSUME NEW q \in wire' PROVE WireOK(q)'
    <2>1. q \in wire /\ WireOK(q)
      BY <1>1 DEF OutletInv
    <2> QED
      BY <1>1, <2>1, WireSame DEF WireOK
  <1>7. StackOK'
    <2>1. \A i \in 1 .. Len(stack) : now' <= stack[i].t0 + Margin
      BY <1>1, <1>2 DEF StackOK, FrameOK
    <2> QED
      BY <1>1, <1>2, <2>1, StackKept
  <1>8. StepOK'
    BY <1>1, <1>2, StepKept DEF StepOK
  <1>9. TimeOK'
    BY <1>1, <1>2 DEF TimeOK
  <1>10. CardOK'
    <2>1. Top' = Top /\ (LateLanding = FALSE => \A q \in wire' : q.current)
      BY <1>1, <1>2 DEF CardOK, Top
    <2> HIDE DEF Top
    <2> QED
      BY <1>1, <2>1, CardKept
  <1> QED
    BY <1>3, <1>4, <1>5, <1>6, <1>7, <1>8, <1>9, <1>10 DEF OutletInv

LEMMA OutletStep == OutletInv /\ [Next]_vars => OutletInv'
  <1> SUFFICES ASSUME OutletInv, Next PROVE OutletInv'
    BY OutletStutter
  <1>1. TypeOK'
    BY OutletTypes
  <1> QED
    BY <1>1, EventsStep, CoverStep, WireStep, StackStep, StepStep, TimeStep, CardStep DEF OutletInv

LEMMA OutletStart == Init => OutletInv
  <1> SUFFICES ASSUME Init PROVE OutletInv
    OBVIOUS
  <1>1. /\ row = [s \in Sources |-> NoRow] /\ receipt = [s \in Sources |-> NoTarget]
        /\ cursor = NoCursor /\ now = 0 /\ relay = {} /\ snap = {} /\ stack = <<>> /\ wire = {}
        /\ pc = "idle" /\ copies = [e \in Sources |-> 0] /\ card = [e \in Text |-> None]
    BY DEF Init, LedgerInit
  <1>2. TypeOK
    <2>1. LedgerTypeOK
      BY <1>1, NoRowType DEF LedgerTypeOK
    <2>2. 0 \in Times /\ 0 \in 0 .. AgingTurns /\ 0 \in 0 .. MaxFaults
      BY TimesAreNat, ConstantFacts
    <2>3. NotHeld \in [held : BOOLEAN, attempts : 0 .. AttemptCap, retryAt : Nat]
      BY DEF NotHeld, AttemptCap
    <2>4. stack \in Seq(Frame)
      BY <1>1
    <2>5. 0 \in 0 .. MaxCopies
      BY DEF MaxCopies
    <2> QED
      BY <1>1, <2>1, <2>2, <2>3, <2>4, <2>5 DEF Init, TypeOK, Busy, Frame
  <1>3. ASSUME NEW e \in Sources PROVE EventOK(e)
    <2>1. row[e] = NoRow /\ copies[e] = 0 /\ receipt[e] = NoTarget
      BY <1>1
    <2>2. row[e].status = "absent" /\ row[e].content = NoContent
      BY <2>1 DEF NoRow
    <2> QED
      BY <2>1, <2>2, ConstantFacts DEF EventOK, RowOK, MessageOK, ReactionOK
  <1>4. ASSUME NEW e \in Sources PROVE CoverOK(e)
    BY <1>1 DEF CoverOK, Owed
  <1>5. StackOK /\ StepOK /\ TimeOK /\ CardOK
    BY <1>1 DEF StackOK, StepOK, TimeOK, CardOK, NoCursor
  <1> QED
    BY <1>1, <1>2, <1>3, <1>4, <1>5 DEF OutletInv

LEMMA OutletInvariant == Spec => []OutletInv
  <1>1. Init => OutletInv
    BY OutletStart
  <1>2. OutletInv /\ [Next]_vars => OutletInv'
    BY OutletStep
  <1> QED
    BY <1>1, <1>2, PTL DEF Spec

\* Everything holds that the outlet must never break: each variable keeps its
\* type and no message or reaction is performed twice, whatever is lost, late
\* or repeated and wherever the process crashes (outlet.py:357-363, 450-477).
THEOREM OutletIsSafe == Spec => []OutletSafe
  <1>1. OutletInv => OutletSafe
    BY DEF OutletInv, EventOK, MessageOK, ReactionOK, OutletSafe, AtMostOnce, Text, React
  <1> QED
    BY <1>1, OutletInvariant, PTL

\* The ledger never says delivered of what the group does not show, nor
\* removed of a reaction that is still there (outlet.py:388, 457-494).
THEOREM AcksAreReal == Spec => []AckedIsReal
  <1>1. OutletInv => AckedIsReal
    <2> SUFFICES ASSUME OutletInv, NEW e \in Sources
                 PROVE  /\ row[e].status = "acked"
                             => copies[e] > 0 \/ (e \in Withdraw /\ ~ Visible(Ref[e]))
                        /\ e \in React /\ row[e].status = "removed" => ~ Visible(e)
      BY DEF AckedIsReal
    <2>1. EventOK(e)
      BY DEF OutletInv
    <2>2. e \in Withdraw /\ row[e].status = "acked" => ~ Visible(Ref[e])
      <3>1. ASSUME e \in Withdraw, row[e].status = "acked" PROVE ~ Visible(Ref[e])
        <4>1. Ref[e] \in React /\ Ref[e] \in Sources
          BY <3>1, GraphFacts
        <4>2. EventOK(Ref[e])
          BY <4>1 DEF OutletInv
        <4> QED
          BY <2>1, <3>1, <4>1, <4>2 DEF EventOK, ReactionOK
      <3> QED
        BY <3>1
    <2> QED
      BY <2>1, <2>2 DEF EventOK, RowOK, ReactionOK
  <1> QED
    BY <1>1, OutletInvariant, PTL

\* A reply is in the group only after the message it replies to
\* (outlet.py:277-283, 319-328).
THEOREM RepliesFollowParents == Spec => []ReplyAfterParent
  <1>1. OutletInv => ReplyAfterParent
    BY KindSets DEF OutletInv, EventOK, MessageOK, ReplyAfterParent
  <1> QED
    BY <1>1, OutletInvariant, PTL

\* Every eligible event of the relay is finished, asks for nothing, or is
\* covered by the next history read (outlet.py:619-622, 704-710).
THEOREM NothingIsLost == Spec => []NothingLost
  <1>1. OutletInv => NothingLost
    <2> SUFFICES ASSUME OutletInv, NEW e \in relay, At[e] >= InitialSince, ~ Finished(e), ~ Moot(e)
                 PROVE  SinceCovers(At[e])
      BY DEF NothingLost
    <2>1. e \in Sources /\ Owed(e)
      BY DEF OutletInv, TypeOK, Owed
    <2> QED
      BY <2>1, ReadCovers
  <1> QED
    BY <1>1, OutletInvariant, PTL

\* Without late landings a card never goes back to an older edit
\* (outlet.py:350-356).
THEOREM EditsNeverRegress ==
    ASSUME LateLanding = FALSE
    PROVE  Spec => NoEditRegression
  <1>1. ASSUME OutletInv, [Next]_vars, NEW m \in Text, card[m] # None, card'[m] # card[m]
        PROVE  Newer(card'[m], card[m])
    <2>1. CASE \E q \in wire : Land(q)
      <3>1. PICK q \in wire : Land(q)
        BY <2>1
      <3>2. /\ q.src \in Edit
            /\ card' = [card EXCEPT ![Ref[q.src]] = q.src]
        BY <1>1, <3>1 DEF Land
      <3>3. q.src = Top.src /\ pc = "wait"
        BY <1>1 DEF OutletInv, CardOK, WireOK
      <3>4. card \in [Text -> Edit \cup {None}]
        BY <1>1 DEF OutletInv, TypeOK
      <3>5. m = Ref[Top.src] /\ card'[m] = Top.src
        BY <1>1, <3>2, <3>3, <3>4
      <3> HIDE DEF Top
      <3>6. card[m] \in {None, Top.src} \/ Newer(Top.src, card[m])
        BY <1>1, <3>2, <3>3, <3>5 DEF OutletInv, CardOK
      <3> QED
        BY <1>1, <3>5, <3>6
    <2>2. CASE Resolve
      BY <1>1, <2>2, ResolveCases DEF feishuVars
    <2>3. CASE ~ Resolve /\ ~ \E q \in wire : Land(q)
      <3>1. UNCHANGED card
        BY <1>1, <2>3
        DEF Next, Slice, Attempt, Failure, Publish, Tick, ReadHistory, Capture, SettlePair, Start,
            NothingDue, Enter, OutOfScope, Unresolved, ReserveMessage, ReserveReaction,
            MarkUnknown, Readback, Call, Reply, Acknowledge, Return, ReadFails, Refuse,
            LoseAnswer, Crash, feishuVars, vars
      <3> QED
        BY <1>1, <3>1
    <2> QED
      BY <2>1, <2>2, <2>3
  <1>2. OutletInv /\ [Next]_vars
          => [\A m \in Text : card[m] # None /\ card'[m] # card[m] => Newer(card'[m], card[m])]_vars
    BY <1>1
  <1> QED
    BY <1>2, OutletInvariant, PTL DEF Spec, NoEditRegression

-----------------------------------------------------------------------------
(* The outlet keeps SourceDelivery's promise. *)

\* The events the promise is about.
Items == Text \cup React
Fates == [e \in Items |-> Fate(e)]

\* Where an event stands depends on its row and on its effects.
LEMMA FateKept ==
    ASSUME NEW e \in Items,
           \/ row'[e].status = row[e].status
           \/ {row[e].status, row'[e].status} \cap {"acked", "removed", "skipped"} = {}
           \/ {row[e].status, row'[e].status} \subseteq {"acked", "removed"},
           copies[e] > 0 <=> copies'[e] > 0
    PROVE  Fate(e)' = Fate(e)
  BY DEF Fate

\* No event of the promise moved.
LEMMA PromiseStutters ==
    ASSUME \A e \in Items : Fate(e)' = Fate(e)
    PROVE  Fates' = Fates
  BY DEF Fates

\* One event of the promise moved.
LEMMA PromiseMoves ==
    ASSUME NEW e \in Items, NEW f, NEW t, Fate(e) = f, Fate(e)' = t,
           \A u \in Items : u # e => Fate(u)' = Fate(u)
    PROVE  Fates[e] = f /\ Fates' = [Fates EXCEPT ![e] = t]
  BY DEF Fates

\* A step sends, confirms or drops one event, or moves none.
LEMMA PromiseStep ==
    ASSUME OutletInv, [Next]_vars
    PROVE  \/ Fates' = Fates
           \/ \E e \in Items :
                \/ Fates[e] = "open" /\ Fates' = [Fates EXCEPT ![e] = "sent"]
                \/ Fates[e] = "sent" /\ Fates' = [Fates EXCEPT ![e] = "confirmed"]
                \/ Fates[e] = "open" /\ Fates' = [Fates EXCEPT ![e] = "dropped"]
  <1>0. /\ TypeOK /\ StepOK /\ Items \subseteq Sources
        /\ \A e \in Items : e \notin Edit /\ e \notin Withdraw
        /\ \A e \in Sources : copies[e] \in Nat
    BY KindSets, GraphFacts, CopiesAreNat DEF OutletInv, Items
  <1>1. ASSUME UNCHANGED <<row, copies>> PROVE Fates' = Fates
    BY <1>1, FateKept, PromiseStutters
  <1>2. ASSUME NEW q \in wire, Land(q)
        PROVE  \/ Fates' = Fates
               \/ \E e \in Items : Fates[e] = "open" /\ Fates' = [Fates EXCEPT ![e] = "sent"]
    <2>1. /\ UNCHANGED row /\ WireOK(q) /\ copies'[q.src] > 0
          /\ \A u \in Sources : u # q.src => copies'[u] = copies[u]
      BY <1>2, LandFacts DEF ledgerVars
    <2>2. \A u \in Items : u # q.src => Fate(u)' = Fate(u)
      BY <1>0, <2>1, FateKept
    <2>3. CASE q.src \notin Items
      BY <2>2, <2>3, PromiseStutters
    <2>4. CASE q.src \in Items /\ copies[q.src] > 0
      BY <2>1, <2>2, <2>4, FateKept, PromiseStutters
    <2>5. CASE q.src \in Items /\ copies[q.src] = 0
      <3>1. EventOK(q.src) /\ row[q.src].status \notin {"acked", "removed", "skipped"}
        BY <1>0, <2>1, <2>5 DEF OutletInv, EventOK, RowOK, WireOK, Items
      <3>2. Fate(q.src) = "open" /\ Fate(q.src)' = "sent"
        BY <2>1, <2>5, <3>1 DEF Fate
      <3> QED
        BY <2>2, <2>5, <3>2, PromiseMoves
    <2>6. q.src \in Sources
      BY <1>0 DEF TypeOK
    <2> QED
      BY <1>0, <2>3, <2>4, <2>5, <2>6
  <1>3. CASE ReserveMessage \/ ReserveReaction \/ MarkUnknown \/ Refuse
    <2>0. pc \in Busy /\ UNCHANGED copies
      BY <1>3 DEF ReserveMessage, ReserveReaction, MarkUnknown, Refuse, Busy, feishuVars
    <2>1. PICK e \in Sources : e = Top.src
      BY <1>0, <2>0, TopFrame
    <2>2. PICK s : /\ Writes(e, s)
                   /\ \/ s = row[e].status
                      \/ e \notin Items
                      \/ {row[e].status, s} \cap {"acked", "removed", "skipped"} = {}
      <3>1. CASE ReserveMessage
        <4>1. \/ Writes(e, row[e].status)
              \/ Writes(e, "skipped") /\ e \in Edit
              \/ Writes(e, "pending") /\ row[e].status \in {"absent", "pending", "failed"}
              \/ Writes(e, IF row[e].status = "absent" THEN "pending" ELSE row[e].status)
          BY <2>1, <3>1, ReserveMessageFacts
        <4>2. CASE row[e].status = "absent"
          BY <1>0, <4>1, <4>2
        <4> QED
          BY <1>0, <4>1, <4>2
      <3>2. CASE ReserveReaction
        BY <2>1, <3>2, ReserveReactionFacts
      <3>3. CASE MarkUnknown
        BY <2>1, <3>3, MarkFacts
      <3>4. CASE Refuse
        BY <2>1, <3>4, RefuseFacts DEF Sending
      <3> QED
        BY <1>3, <3>1, <3>2, <3>3, <3>4
    <2>3. ASSUME NEW u \in Items PROVE Fate(u)' = Fate(u)
      <3>1. u # e => row'[u] = row[u]
        BY <1>0, <2>2 DEF Writes
      <3>2. row'[e].status = s
        BY <2>2 DEF Writes
      <3> QED
        BY <2>0, <2>2, <3>1, <3>2, FateKept
    <2> QED
      BY <2>3, PromiseStutters
  <1>4. CASE SettlePair
    <2>1. UNCHANGED copies
      BY <1>4, PairFacts DEF feishuVars
    <2>2. PICK h \in React, w \in Withdraw :
            /\ row[h].status = "absent"
            /\ row'[h] = [status |-> "skipped", target |-> NoTarget, content |-> Paired,
                          at |-> At[h], created |-> now]
            /\ \A u \in Sources : u \notin {h, w} => row'[u] = row[u]
      BY <1>4, PairFacts
    <2>3. h \in Items /\ w \notin Items
      BY <1>0 DEF Items
    <2>4. Fate(h) = "open" /\ Fate(h)' = "dropped"
      <3>1. copies[h] = 0
        BY <1>0, <2>2, <2>3 DEF OutletInv, EventOK, RowOK
      <3> QED
        BY <2>1, <2>2, <3>1 DEF Fate
    <2>5. ASSUME NEW u \in Items, u # h PROVE Fate(u)' = Fate(u)
      BY <1>0, <2>1, <2>2, <2>3, <2>5, FateKept
    <2> QED
      BY <2>3, <2>4, <2>5, PromiseMoves
  <1>5. CASE Acknowledge
    <2>0. pc = "ack" /\ pc \in Busy /\ UNCHANGED copies
      BY <1>5 DEF Acknowledge, Busy, feishuVars
    <2>1. PICK e \in Sources : e = Top.src
      BY <1>0, <2>0, TopFrame
    <2>2. /\ row[e].status = Sending(e) /\ row'[e].status = "acked"
          /\ \A u \in Sources : u # e /\ ~ (e \in Withdraw /\ u = Ref[e]) => row'[u] = row[u]
          /\ e \in Withdraw => /\ row[Ref[e]].status \in {"acked", "removed"}
                               /\ row'[Ref[e]].status = "removed"
      BY <1>5, <2>1, AckFacts
    <2>3. ASSUME NEW u \in Items, u # e PROVE Fate(u)' = Fate(u)
      <3>1. CASE e \in Withdraw /\ u = Ref[e]
        BY <2>0, <2>2, <3>1, FateKept
      <3>2. CASE ~ (e \in Withdraw /\ u = Ref[e])
        BY <1>0, <2>0, <2>2, <2>3, <3>2, FateKept
      <3> QED
        BY <3>1, <3>2
    <2>4. CASE e \notin Items
      BY <2>3, <2>4, PromiseStutters
    <2>5. CASE e \in Items
      <3>1. copies[e] > 0
        BY <1>0, <2>0, <2>1, <2>5 DEF StepOK
      <3>2. Fate(e) = "sent" /\ Fate(e)' = "confirmed"
        BY <2>2, <3>1 DEF Fate, Sending
      <3> QED
        BY <2>3, <2>5, <3>2, PromiseMoves
    <2> QED
      BY <2>4, <2>5
  <1>6. CASE Resolve
    BY <1>1, <1>6, ResolveCases DEF ledgerVars, feishuVars
  <1>7. CASE (\E e \in Sources : Publish(e)) \/ Tick \/ UNCHANGED vars
    <2>1. UNCHANGED <<row, copies>>
      BY <1>7 DEF Publish, Tick, vars, ledgerVars, feishuVars
    <2> QED
      BY <1>1, <2>1
  <1>8. CASE ReadHistory \/ Capture \/ Start \/ NothingDue \/ Enter \/ OutOfScope \/ Unresolved
             \/ Readback \/ Call \/ Reply \/ Return \/ ReadFails \/ LoseAnswer \/ Crash
    <2>1. UNCHANGED <<row, copies>>
      BY <1>8 DEF ReadHistory, Capture, Start, NothingDue, Enter, OutOfScope, Unresolved,
                  Readback, Call, Reply, Return, ReadFails, LoseAnswer, Crash, ledgerVars, feishuVars
    <2> QED
      BY <1>1, <2>1
  <1> QED
    BY <1>2, <1>3, <1>4, <1>5, <1>6, <1>7, <1>8 DEF Next, Slice, Attempt, Failure

\* The outlet implements SourceDelivery: every message and reaction is sent
\* once, confirmed only after it was sent and dropped only if it never was
\* (outlet.py:330-388, 425-494, reaction_supersession.py).
THEOREM PromiseIsKept == Spec => PromiseKept
  <1>1. Init => SD!PromiseInit
    <2> SUFFICES ASSUME Init PROVE SD!PromiseInit
      OBVIOUS
    <2>1. ASSUME NEW e \in Text \cup React PROVE Fate(e) = "open"
      <3>1. row[e].status = "absent" /\ copies[e] = 0
        BY KindSets DEF Init, LedgerInit, NoRow
      <3> QED
        BY <3>1 DEF Fate
    <2> QED
      BY <2>1 DEF SD!PromiseInit
  <1>2. OutletInv /\ [Next]_vars
          => [SD!PromiseNext]_([e \in Text \cup React |-> Fate(e)])
    <2> SUFFICES ASSUME OutletInv, [Next]_vars
                 PROVE  [SD!PromiseNext]_([e \in Text \cup React |-> Fate(e)])
      OBVIOUS
    <2>1. \/ Fates' = Fates
          \/ \E e \in Items :
                \/ Fates[e] = "open" /\ Fates' = [Fates EXCEPT ![e] = "sent"]
                \/ Fates[e] = "sent" /\ Fates' = [Fates EXCEPT ![e] = "confirmed"]
                \/ Fates[e] = "open" /\ Fates' = [Fates EXCEPT ![e] = "dropped"]
      BY PromiseStep
    <2>2. ASSUME NEW e \in Items, NEW f, NEW t, Fates[e] = f, Fates' = [Fates EXCEPT ![e] = t]
          PROVE  SD!Move(e, f, t)
      BY <2>2 DEF Fates, Items, SD!Move
    <2> QED
      BY <2>1, <2>2 DEF Fates, Items, SD!PromiseNext, SD!Send, SD!Confirm, SD!Drop
  <1> QED
    BY <1>1, <1>2, OutletInvariant, PTL DEF Spec, PromiseKept, SD!Promise

-----------------------------------------------------------------------------
(* Turns. *)

\* A head is passed over at most once for each turn of the count.
TurnInv ==
    /\ turns \in 0 .. AgingTurns
    /\ passed \in [Sources -> Nat]
    /\ \A h \in Sources : passed[h] <= turns

\* Age is a strict order, and retries by their time are retries by age.
LEMMA AgeOrder ==
    ASSUME TypeOK, NEW g \in Sources, NEW h \in Sources, Older(g, h)
    PROVE  g # h => ~ Older(h, g)
  <1>1. \A x \in Sources : x \in Nat /\ At[x] \in Nat /\ Since(x) \in Nat
    BY GraphFacts DEF TypeOK, Since
  <1> QED
    BY <1>1 DEF Older, Newer

\* The chosen head is the oldest when the count ends, and among retried
\* reactions too.
LEMMA OldestChosen ==
    ASSUME TypeOK, NEW g \in Sources, Chosen(g), Aging \/ Rank(g) = 4,
           NEW h \in Heads \ {g}
    PROVE  Older(g, h)
  <1>1. CASE Aging
    BY <1>1 DEF Chosen
  <1>2. CASE ~ Aging
    <2>1. Preferred(g, h) /\ h \in Sources
      BY <1>2 DEF Chosen, Heads, Held
    <2>2. /\ Rank(g) = 4 /\ Rank(h) \in 1 .. 4
          /\ work[g].attempts \in Nat /\ work[h].attempts \in Nat
      BY <1>2, <2>1 DEF Rank, TypeOK
    <2>3. Rank(h) = 4 /\ Sooner(g, h) /\ work[g].attempts # 0 /\ work[h].attempts # 0
      BY <2>1, <2>2 DEF Preferred, Rank
    <2> QED
      BY <2>2, <2>3 DEF Sooner, Older, Since
  <1> QED
    BY <1>1, <1>2

\* Two heads that are both preferred are of one rank.
LEMMA OneRank ==
    ASSUME NEW g, NEW h, Chosen(g), Chosen(h), ~ Aging
    PROVE  Rank(g) = Rank(h)
  <1>1. Rank(g) \in Int /\ Rank(h) \in Int
    BY DEF Rank
  <1>2. g # h => Preferred(g, h) /\ Preferred(h, g)
    BY DEF Chosen
  <1> QED
    BY <1>1, <1>2 DEF Preferred

\* A turn that is used up passes every older head once more, or none.
LEMMA TurnStep ==
    ASSUME TypeOK, TurnInv, Chooses, Counted
    PROVE  TurnInv'
  <1>1. PICK h \in Held : Chosen(h) /\ turns' = TurnAfter(h)
    BY DEF Chooses, SettlePair, Start
  <1>2. PICK g \in Held : Chosen(g) /\ passed' = PassedOver(g)
    BY DEF Counted
  <1>3. g \in Sources /\ h \in Sources /\ turns \in Nat /\ AgingTurns \in Nat
    BY OutletAssumption DEF OutletAssumption, Held, TurnInv
  <1>4. \A x \in Sources : passed[x] \in Nat /\ passed[x] <= turns
    BY DEF TurnInv
  <1>5. passed' \in [Sources -> Nat]
    BY <1>2, <1>4 DEF PassedOver
  <1>6. CASE Aging \/ Rank(h) = 4
    <2>1. Aging \/ Rank(g) = 4
      BY <1>1, <1>2, <1>6, OneRank
    <2>2. \A x \in Heads \ {g} : x \in Sources /\ ~ Older(x, g)
      BY <1>2, <1>3, <2>1, OldestChosen, AgeOrder DEF Heads, Held
    <2>3. turns' = 0 /\ \A x \in Sources : passed'[x] = 0
      BY <1>1, <1>2, <1>6, <2>2 DEF TurnAfter, PassedOver
    <2> QED
      BY <1>3, <1>5, <2>3 DEF TurnInv
  <1>7. CASE ~ (Aging \/ Rank(h) = 4)
    <2>1. turns' = turns + 1 /\ turns < AgingTurns
      BY <1>1, <1>3, <1>7 DEF TurnAfter, Aging
    <2>2. \A x \in Sources : passed'[x] <= turns + 1
      BY <1>2, <1>3, <1>4 DEF PassedOver
    <2> QED
      BY <1>3, <1>5, <2>1, <2>2 DEF TurnInv
  <1> QED
    BY <1>6, <1>7

\* No other step touches the count of turns.
LEMMA TurnsStay ==
    ASSUME [Next]_vars, ~ Chooses
    PROVE  turns' = turns
  BY DEF Next, Slice, Attempt, Failure, Chooses, vars, queueVars,
         Publish, Tick, Land, ReadHistory, Capture, NothingDue, Enter, OutOfScope, Resolve,
         Unresolved, ReserveMessage, ReserveReaction, MarkUnknown, Readback, Call, Reply,
         Acknowledge, Return, ReadFails, Refuse, LoseAnswer, Crash

\* An old head is passed over at most AgingTurns times, however many fresher
\* topics arrive (outlet_work.py:107-123).
THEOREM OldHeadsHaveTheirTurn == TurnsSpec => []OldHeadsTurn
  <1>1. TurnsInit => TurnInv
    BY OutletAssumption DEF OutletAssumption, TurnsInit, Init, TurnInv
  <1>2. TypeOK /\ TurnInv /\ [TurnsNext]_turnVars => TurnInv'
    <2> SUFFICES ASSUME TypeOK, TurnInv, [TurnsNext]_turnVars PROVE TurnInv'
      OBVIOUS
    <2>1. CASE TurnsNext /\ Chooses
      BY <2>1, TurnStep DEF TurnsNext
    <2>2. CASE TurnsNext /\ ~ Chooses
      <3>1. turns' = turns /\ passed' = passed
        BY <2>2, TurnsStay DEF TurnsNext, Counted
      <3> QED
        BY <3>1 DEF TurnInv
    <2>3. CASE UNCHANGED turnVars
      BY <2>3 DEF turnVars, vars, queueVars, TurnInv
    <2> QED
      BY <2>1, <2>2, <2>3
  <1>3. TurnInv => OldHeadsTurn
    <2> SUFFICES ASSUME TurnInv, NEW h \in Sources PROVE passed[h] <= AgingTurns
      BY DEF OldHeadsTurn
    <2> QED
      BY OutletAssumption DEF OutletAssumption, TurnInv
  <1>4. TurnsInit => Init
    BY DEF TurnsInit
  <1>5. [TurnsNext]_turnVars => [Next]_vars
    BY DEF TurnsNext, turnVars
  <1>6. OutletInv => TypeOK
    BY DEF OutletInv
  <1> QED
    BY <1>1, <1>2, <1>3, <1>4, <1>5, <1>6, OutletInvariant, PTL DEF TurnsSpec, Spec
=============================================================================
