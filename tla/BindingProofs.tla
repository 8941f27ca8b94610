------------------------------ MODULE BindingProofs ------------------------------
(***************************************************************************)
(* What the two phases of a binding's round promise, and the reads they    *)
(* rest on, each for every value of its constants.                         *)
(*                                                                         *)
(* The read of the relay's history skips nothing and fails only for a      *)
(* cause.                                                                  *)
(*                                                                         *)
(* The Buzz phase: nobody's message is posted twice or before the root of  *)
(* its thread, no save is refused, and the saved cursor never passes an    *)
(* event that is not settled, under any number of faults and crashes.      *)
(*                                                                         *)
(* The Feishu phase: a message of the group is one event in Buzz at most,  *)
(* none is passed over, none is forgotten before it was decided, and a     *)
(* call to an agent waits for the words before it.                         *)
(***************************************************************************)
EXTENDS RelayHistory, BuzzPhase, FeishuIngest, DataLemmas, FiniteSetTheorems, SequenceTheorems

-----------------------------------------------------------------------------
(* What the relay's answer says. *)

\* An answer shorter than its limit is everything that matches.
LEMMA ShortAnswer ==
    ASSUME NEW R, NEW a, NEW b, NEW l \in Int,
           Answer(R, a, b, l), Cardinality(R) < l
    PROVE  R = Between(shown, a, b)
  BY DEF Answer

\* Half of a limit is a limit.
LEMMA HalvedRange ==
    ASSUME NEW l \in 1 .. MaxPageSize
    PROVE  Halved(l) \in 1 .. MaxPageSize
  BY HistoryAssumption DEF Halved, HistoryAssumption

-----------------------------------------------------------------------------
(* Types. *)

\* The types are inductive: a limit stays between one and the largest page
\* (relay_history.py:169-183).
THEOREM HistoryTyped == HistorySpec => []HistoryTypeOK
  <1>1. ASSUME HistoryInit PROVE HistoryTypeOK
    <2>1. single \in BOOLEAN /\ excused \in BOOLEAN
      BY <1>1 DEF HistoryInit
    <2>2. /\ high \in Int
          /\ pageLimit \in 1 .. MaxPageSize /\ limit \in 1 .. MaxPageSize
          /\ priorFull \in 0 .. MaxPageSize
      BY <1>1, HistoryAssumption DEF HistoryInit, HistoryAssumption
    <2> QED
      BY <1>1, <2>1, <2>2 DEF HistoryInit, HistoryTypeOK
  <1>2. HistoryTypeOK /\ [HistoryNext]_historyVars => HistoryTypeOK'
    <2> SUFFICES ASSUME HistoryTypeOK, [HistoryNext]_historyVars PROVE HistoryTypeOK'
      OBVIOUS
    <2> USE HistoryAssumption
        DEF HistoryTypeOK, HistoryAssumption, secondVars, readVars
    <2>1. CASE LastPage
      BY <2>1 DEF LastPage
    <2>2. CASE FullPage
      BY <2>2 DEF FullPage
    <2>3. CASE WholeSecond
      <3>1. PICK t \in Since .. Until, R \in SUBSET shown :
               /\ all' = all \cup {e \in full : RowAt[e] > t} \cup R
               /\ high' = BelowSecond(t)
               /\ rd' = IF BelowSecond(t) < Since THEN "done" ELSE "page"
        BY <2>3 DEF WholeSecond
      <3> QED
        BY <2>3, <3>1 DEF WholeSecond, BelowSecond
    <2>4. CASE ChangedSecond
      BY <2>4 DEF ChangedSecond
    <2>5. CASE FullSecond
      BY <2>5 DEF FullSecond, DenseAt
    <2>6. CASE TooLarge
      <3>1. rd' \in {"page", "second", "done", "failed"}
        BY <2>6 DEF TooLarge, Reading
      <3>2. pageLimit' \in 1 .. MaxPageSize /\ limit' \in 1 .. MaxPageSize
        BY <2>6, HalvedRange DEF TooLarge, Reading
      <3> QED
        BY <2>6, <3>1, <3>2 DEF TooLarge
    <2>7. CASE Abort
      BY <2>7 DEF Abort
    <2>8. ASSUME NEW e \in Rows, Appear(e) PROVE HistoryTypeOK'
      BY <2>8 DEF Appear
    <2>9. ASSUME NEW e \in Rows, Vanish(e) PROVE HistoryTypeOK'
      BY <2>9 DEF Vanish
    <2>10. CASE UNCHANGED historyVars
      BY <2>10 DEF historyVars
    <2> QED
      BY <2>1, <2>2, <2>3, <2>4, <2>5, <2>6, <2>7, <2>8, <2>9, <2>10
      DEF HistoryNext, ReadStep
  <1> QED
    BY <1>1, <1>2, PTL DEF HistorySpec

-----------------------------------------------------------------------------
(* Nothing is skipped. *)

\* What is above the part left to read has been read.
ReadAbove == \A e \in steady : RowAt[e] > high => e \in all

\* The full page holds the newest rows of what is left to read.
PageIsNewest ==
    \A e \in steady, f \in full : RowAt[e] <= high /\ e \notin full => RowAt[e] <= RowAt[f]

\* NothingSkipped speaks of the end only; on the way there the read has
\* everything above `high`, and a full page everything above its oldest second.
CoverInv ==
    /\ Reading => ReadAbove
    /\ rd = "second" => PageIsNewest
    /\ NothingSkipped

\* A step that reads nothing leaves what was covered covered: the steady rows
\* become fewer at most.
LEMMA CoverKept ==
    ASSUME CoverInv, UNCHANGED <<high, full, all>>, steady' \subseteq steady,
           rd' = rd \/ rd' = "failed"
    PROVE  CoverInv'
  BY DEF CoverInv, Reading, ReadAbove, PageIsNewest, NothingSkipped

\* A read begins with every row still ahead of it.
LEMMA CoverInit == HistoryInit => CoverInv
  BY HistoryAssumption
  DEF HistoryInit, CoverInv, Reading, ReadAbove, NothingSkipped, HistoryAssumption

\* Every step keeps the cover (relay_history.py:157-183).
LEMMA CoverStep == HistoryTypeOK /\ CoverInv /\ [HistoryNext]_historyVars => CoverInv'
  <1> SUFFICES ASSUME HistoryTypeOK, CoverInv, [HistoryNext]_historyVars PROVE CoverInv'
    OBVIOUS
  <1>0. /\ \A e \in steady : RowAt[e] \in Since .. Until /\ e \in shown
        /\ Since \in Int /\ Until \in Int /\ high \in Int
        /\ pageLimit \in Int /\ limit \in Int
    BY HistoryAssumption DEF HistoryTypeOK, HistoryAssumption
  <1>1. CASE LastPage
    <2>1. PICK R \in SUBSET shown :
             /\ Answer(R, Since, high, pageLimit) /\ Cardinality(R) < pageLimit
             /\ all' = all \cup R
      BY <1>1 DEF LastPage
    <2>2. R = Between(shown, Since, high)
      BY <2>1, <1>0, ShortAnswer
    <2>3. steady \subseteq all'
      BY <1>0, <1>1, <2>1, <2>2 DEF LastPage, Between, CoverInv, ReadAbove, Reading
    <2> QED
      BY <1>1, <2>3 DEF LastPage, CoverInv, Reading, NothingSkipped
  <1>2. CASE FullPage
    <2>1. PICK R \in SUBSET shown : Answer(R, Since, high, pageLimit) /\ full' = R
      BY <1>2 DEF FullPage
    <2>2. PageIsNewest'
      BY <1>0, <1>2, <2>1 DEF FullPage, PageIsNewest, Answer, Between
    <2> QED
      BY <1>2, <2>2 DEF FullPage, CoverInv, Reading, ReadAbove, NothingSkipped
  <1>3. CASE WholeSecond
    <2>1. PICK t \in Since .. Until, R \in SUBSET shown :
             /\ IsOldest(full, t)
             /\ Answer(R, t, t, limit) /\ SecondComplete(R)
             /\ all' = all \cup {e \in full : RowAt[e] > t} \cup R
             /\ high' = BelowSecond(t)
             /\ rd' = IF BelowSecond(t) < Since THEN "done" ELSE "page"
      BY <1>3 DEF WholeSecond
    <2>2. R = Between(shown, t, t)
      BY <2>1, <1>0, ShortAnswer DEF SecondComplete
    <2>3. ASSUME NEW e \in steady, RowAt[e] >= t PROVE e \in all'
      <3>1. CASE RowAt[e] > high
        BY <1>3, <2>1, <3>1 DEF WholeSecond, CoverInv, Reading, ReadAbove
      <3>2. CASE e \in full
        BY <1>0, <2>1, <2>2, <2>3, <3>2 DEF Between
      <3>3. CASE e \notin full /\ ~ (RowAt[e] > high)
        <4>1. PICK f \in full : RowAt[f] = t
          BY <2>1 DEF IsOldest
        <4>2. RowAt[e] <= t
          BY <1>0, <1>3, <3>3, <4>1 DEF WholeSecond, CoverInv, PageIsNewest
        <4> QED
          BY <1>0, <2>1, <2>2, <2>3, <4>2 DEF Between
      <3> QED
        BY <3>1, <3>2, <3>3
    <2>4. steady' = steady
      BY <1>3 DEF WholeSecond
    <2>5. ReadAbove'
      BY <1>0, <2>1, <2>3, <2>4 DEF ReadAbove, BelowSecond
    <2>6. NothingSkipped'
      BY <1>0, <2>1, <2>3, <2>4 DEF NothingSkipped, BelowSecond
    <2> QED
      BY <2>1, <2>5, <2>6 DEF CoverInv
  <1>4. CASE ChangedSecond
    BY <1>4, CoverKept DEF ChangedSecond, secondVars
  <1>5. CASE FullSecond
    BY <1>5, CoverKept DEF FullSecond
  <1>6. CASE TooLarge
    BY <1>6, CoverKept DEF TooLarge
  <1>7. CASE Abort
    BY <1>7, CoverKept DEF Abort, secondVars
  <1>8. ASSUME NEW e \in Rows, Appear(e) PROVE CoverInv'
    BY <1>8, CoverKept DEF Appear, readVars, secondVars
  <1>9. ASSUME NEW e \in Rows, Vanish(e) PROVE CoverInv'
    BY <1>9, CoverKept DEF Vanish, readVars, secondVars
  <1>10. CASE UNCHANGED historyVars
    BY <1>10, CoverKept DEF historyVars, readVars, secondVars
  <1> QED
    BY <1>1, <1>2, <1>3, <1>4, <1>5, <1>6, <1>7, <1>8, <1>9, <1>10
    DEF HistoryNext, ReadStep

\* A read that returns has every row that was served throughout, for every
\* interval and page size (relay_history.py:157-183).
THEOREM ReadsAreWhole == HistorySpec => []NothingSkipped
  <1>1. CoverInv => NothingSkipped
    BY DEF CoverInv
  <1> QED
    BY <1>1, CoverInit, CoverStep, HistoryTyped, PTL DEF HistorySpec

-----------------------------------------------------------------------------
(* Failures have a cause. *)

\* In an undisturbed read the rows of the full page are still served, and a
\* limit is larger than the one that was full before.
CalmInv ==
    /\ ~ excused /\ rd = "second" => full \subseteq shown /\ priorFull < limit
    /\ FailsForCause

\* Every step keeps CalmInv: the boundary second of an undisturbed read is
\* complete, or full, or as large as a page can be (relay_history.py:169-183).
LEMMA CalmStep == HistoryTypeOK /\ CalmInv /\ [HistoryNext]_historyVars => CalmInv'
  <1> SUFFICES ASSUME HistoryTypeOK, CalmInv, [HistoryNext]_historyVars PROVE CalmInv'
    OBVIOUS
  <1>0. /\ limit \in Int /\ pageLimit \in Int /\ pageLimit > 0
        /\ priorFull \in Int /\ MaxPageSize \in Int /\ limit > 0
        /\ rd \in {"page", "second", "done", "failed"}
    BY HistoryAssumption DEF HistoryTypeOK, HistoryAssumption
  <1>1. CASE LastPage
    BY <1>1 DEF LastPage, CalmInv, FailsForCause
  <1>2. CASE FullPage
    <2>1. full' \subseteq shown' /\ priorFull' < limit'
      BY <1>0, <1>2 DEF FullPage
    <2> QED
      BY <1>2, <2>1 DEF FullPage, CalmInv, FailsForCause
  <1>3. CASE WholeSecond
    <2>1. rd' \in {"done", "page"}
      BY <1>3 DEF WholeSecond
    <2> QED
      BY <2>1 DEF CalmInv, FailsForCause
  <1>4. CASE ChangedSecond
    <2>1. PICK t \in Since .. Until, R \in SUBSET shown :
             /\ Answer(R, t, t, limit) /\ SecondComplete(R)
             /\ ~ Between(full, t, t) \subseteq R
      BY <1>4 DEF ChangedSecond
    <2>2. R = Between(shown, t, t)
      BY <2>1, <1>0, ShortAnswer DEF SecondComplete
    <2>3. ~ full \subseteq shown
      BY <2>1, <2>2 DEF Between
    <2>4. excused
      BY <1>4, <2>3 DEF ChangedSecond, CalmInv
    <2> QED
      BY <1>4, <2>4 DEF ChangedSecond, CalmInv, FailsForCause
  <1>5. CASE FullSecond
    <2>1. CASE excused
      BY <1>5, <2>1 DEF FullSecond, CalmInv, FailsForCause
    <2>2. CASE ~ excused /\ DenseAt
      <3>1. MaxPageSize <= limit
        BY <1>0, <1>5, <2>2 DEF FullSecond, DenseAt, CalmInv
      <3>2. PICK t \in Since .. Until, R \in SUBSET shown :
               Answer(R, t, t, limit) /\ Cardinality(R) = limit
        BY <1>5 DEF FullSecond
      <3>3. IsFiniteSet(Between(shown, t, t))
        BY HistoryAssumption, FS_Subset
        DEF HistoryTypeOK, HistoryAssumption, Between
      <3>4. Cardinality(R) <= Cardinality(Between(shown, t, t))
        BY <3>2, <3>3, FS_Subset DEF Answer
      <3>5. Cardinality(Between(shown, t, t)) \in Int
        BY <3>3, FS_CardinalityType
      <3>6. Cardinality(Between(shown, t, t)) >= MaxPageSize
        BY <1>0, <3>1, <3>2, <3>4, <3>5
      <3>7. shown' = shown /\ rd' = "failed"
        BY <1>5, <2>2 DEF FullSecond
      <3> QED
        BY <3>6, <3>7 DEF CalmInv, FailsForCause, Between
    <2>3. CASE ~ excused /\ ~ DenseAt
      <3>1. /\ limit < MaxPageSize
            /\ priorFull' = limit
            /\ limit' = IF 2 * limit < MaxPageSize THEN 2 * limit ELSE MaxPageSize
            /\ rd' = rd /\ rd = "second"
            /\ UNCHANGED <<shown, full>>
        BY <1>0, <1>5, <2>3 DEF FullSecond, DenseAt
      <3>2. priorFull' < limit'
        BY <1>0, <3>1
      <3> QED
        BY <2>3, <3>1, <3>2 DEF CalmInv, FailsForCause
    <2> QED
      BY <2>1, <2>2, <2>3
  <1>6. CASE TooLarge
    BY <1>6 DEF TooLarge, CalmInv, FailsForCause
  <1>7. CASE Abort
    BY <1>7 DEF Abort, CalmInv, FailsForCause
  <1>8. ASSUME NEW e \in Rows, Appear(e) PROVE CalmInv'
    BY <1>8 DEF Appear, CalmInv, FailsForCause
  <1>9. ASSUME NEW e \in Rows, Vanish(e) PROVE CalmInv'
    BY <1>9 DEF Vanish, CalmInv, FailsForCause
  <1>10. CASE UNCHANGED historyVars
    BY <1>10 DEF historyVars, readVars, secondVars, CalmInv, FailsForCause, Between
  <1> QED
    BY <1>1, <1>2, <1>3, <1>4, <1>5, <1>6, <1>7, <1>8, <1>9, <1>10
    DEF HistoryNext, ReadStep

\* A read that nothing disturbed fails only over a second that holds as many
\* rows as the largest page, or when it was to be one response
\* (relay_history.py:176).
THEOREM FailuresHaveCauses == HistorySpec => []FailsForCause
  <1>1. HistoryInit => CalmInv
    BY DEF HistoryInit, CalmInv, FailsForCause
  <1>2. CalmInv => FailsForCause
    BY DEF CalmInv
  <1> QED
    BY <1>1, <1>2, CalmStep, HistoryTyped, PTL DEF HistorySpec

\* Every read is whole or failed for a cause, whatever the relay does between
\* its answers (relay_history.py:157-183).
THEOREM HistoriesAreSafe == HistorySpec => []HistorySafe
  BY HistoryTyped, ReadsAreWhole, FailuresHaveCauses, PTL DEF HistorySafe

-----------------------------------------------------------------------------
(* The buzz phase. *)

StateRecord ==
    [mark : [Notes -> [kind : Kinds, first : Clock]], f2b : SUBSET Notes, unresolved : SUBSET Notes,
     tries : [Notes -> 0 .. MaxTries], since : Clock, row : [Notes -> RowStates]]

Posts == [of : Notes, key : {0}, at : Nat]
InPhase == {"loop", "post", "answered"}

RootIn(e) == RootOf[e] = e \/ InFeishu(RootOf[e])

\* The relay holds the event or may still accept it.
Wanted(e) == NoteAt[e] >= Floor /\ (e \in arrived \/ clock <= NoteAt[e] + Overlap)

\* What a state says of an event is so: a sent one is in Feishu, and the root
\* of one that was ever tried is; an open attempt began in the past.
Truthful(s) ==
    /\ s \in StateRecord
    /\ \A e \in Notes :
          /\ Terminal(s.mark[e]) => e \notin s.unresolved
          /\ ~ Terminal(s.mark[e]) => s.tries[e] < MaxTries
          /\ s.mark[e].kind = "sent" => InFeishu(e)
          /\ s.mark[e].kind # "none" => RootIn(e)
          /\ e \in s.f2b => s.mark[e].kind = "sent"
          /\ OpenAttempt(s.mark[e]) => s.mark[e].first <= clock

\* A wanted event that is not settled is in the retries or after the cursor,
\* or left behind.
Covered(s, from, left) ==
    \A e \in Notes : Wanted(e) /\ ~ Terminal(s.mark[e]) =>
        e \in s.unresolved \/ from <= NoteAt[e] + Overlap \/ e \in left

\* The round's state is ahead of what is saved: no outcome is taken back, and
\* no first attempt is dated anew.
Ahead(s) ==
    /\ s.since = disk.since
    /\ \A e \in Notes :
          /\ s.mark[e].kind = "none" => disk.mark[e].kind = "none"
          /\ disk.mark[e].kind = "sent" => s.mark[e].kind = "sent"
          /\ disk.mark[e].kind = "unknown" => s.mark[e].kind \in {"unknown", "sent"}
          /\ disk.mark[e].kind = "failed" => s.mark[e].kind \in {"failed", "sent"}
          /\ OpenAttempt(s.mark[e]) /\ OpenAttempt(disk.mark[e]) =>
                s.mark[e].first = disk.mark[e].first

Carried(s) == Truthful(s) /\ Ahead(s) /\ Covered(s, s.since, passed)

\* A save keeps every mark, and an open one with its first attempt.
MarksKept ==
    \A e \in Notes : disk.mark[e].kind # "none" =>
        /\ disk'.mark[e].kind # "none"
        /\ OpenAttempt(disk'.mark[e]) =>
              OpenAttempt(disk.mark[e]) /\ disk'.mark[e].first = disk.mark[e].first

\* The ledger row that a saved mark stands for.
RowOf(kind) ==
    CASE kind = "none" -> "absent"
      [] kind = "pending" -> "pending"
      [] kind = "sent" -> "acked"
      [] kind = "retry" -> "failed"
      [] kind = "unknown" -> "unknown"
      [] kind = "failed" -> "abandoned"

DiskOK ==
    /\ saved = TRUE
    /\ Truthful(disk) /\ Covered(disk, disk.since, passed) /\ disk.since <= clock
    /\ \A e \in Notes : disk.row[e] = RowOf(disk.mark[e].kind)

Typed ==
    /\ clock \in Clock /\ now \in Clock /\ now <= clock /\ Floor <= clock
    /\ copies \subseteq Posts /\ inAir \subseteq Posts
    /\ arrived \subseteq Notes /\ todo \subseteq arrived
    /\ skipped \subseteq arrived /\ passed \subseteq arrived
    /\ \A e \in arrived : NoteAt[e] >= Floor
    /\ stage \in {"idle", "read", "loop", "post", "answered", "broken"}
    /\ item \in Notes \cup {Nobody} /\ (stage \in {"post", "answered"}) = (item # Nobody)
    /\ listed \in [Notes -> {"unread", "found", "absent"}]

\* What the round works on, and that it visits, keeps or skips every wanted
\* event.  A post is within the retry window of the first one.
RoundOK ==
    /\ stage = "idle" => memo = Empty
    /\ stage # "idle" => Carried(memo) /\ clock <= now + MaxRound
    /\ stage \in InPhase =>
          \A e \in arrived : ~ Terminal(memo.mark[e]) =>
              e \in todo \/ e \in memo.unresolved \/ now <= NoteAt[e] + Overlap \/ e \in skipped \cup passed
    /\ stage = "post" => now <= memo.mark[item].first + RetryWindow
    /\ stage \in {"post", "answered"} =>
          /\ memo.mark[item].kind = "pending" /\ item \in memo.unresolved
          /\ disk.mark[item].kind = "pending"
    /\ stage = "answered" /\ reply = "ok" => InFeishu(item)

\* Every post of an event that is open is younger than its first attempt, and
\* so is every copy; a post in the air is at most a retry window and a round
\* older than any copy of its event.
CopiesOK ==
    /\ \A e \in Notes : listed[e] = "found" => InFeishu(e)
    /\ \A f \in inAir : f.at <= clock /\ clock <= f.at + MaxDelay
    /\ \A f \in inAir : disk.mark[f.of].kind # "none"
    /\ \A c \in copies : disk.mark[c.of].kind # "none"
    /\ \A c \in copies : OpenAttempt(disk.mark[c.of]) => disk.mark[c.of].first <= c.at
    /\ \A c \in copies, f \in inAir : c.of = f.of => f.at <= c.at + RetryWindow + MaxRound
    /\ \A c, d \in copies : c.of = d.of => c = d

BuzzInv == Typed /\ DiskOK /\ RoundOK /\ CopiesOK

-----------------------------------------------------------------------------
(* Numbers and cursors. *)

\* The bounds are numbers, and Feishu remembers a key for as long as the retries,
\* the last round and a late post last.
LEMMA BuzzNumbers ==
    /\ Overlap \in Nat /\ RetryWindow \in Nat /\ KeyWindow \in Nat /\ MaxDelay \in Nat
    /\ MaxRound \in Nat /\ Discovery \in Nat /\ MaxTries \in Nat /\ MaxTries >= 1
    /\ Floor \in Nat /\ MaxClock \in Nat /\ Floor <= MaxClock
    /\ RetryWindow + MaxRound + MaxDelay <= KeyWindow
    /\ IsFiniteSet(Notes) /\ NoteAt \in [Notes -> Nat] /\ RootOf \in [Notes -> Notes]
    /\ Nobody \notin Notes
  BY BuzzAssumption

\* _advance_cursor never goes back, and beyond the old cursor no further than
\* the candidate.
LEMMA Advancing ==
    ASSUME NEW old \in Nat, NEW c \in Nat, NEW r
    PROVE  /\ Advanced(old, c, r) \in Nat
           /\ Advanced(old, c, r) = old \/ Advanced(old, c, r) <= c
           /\ c = old => Advanced(old, c, r) = old
  <1> DEFINE B == {Max({0, NoteAt[e] - 1}) : e \in Blocking(r)}
             held == {c} \cup B
  <1>1. \A e \in Notes : Max({0, NoteAt[e] - 1}) \in Int
    <2> SUFFICES ASSUME NEW e \in Notes PROVE Max({0, NoteAt[e] - 1}) \in Int
      OBVIOUS
    <2>1. NoteAt[e] - 1 \in Int /\ 0 \in Int
      BY BuzzNumbers
    <2> QED
      BY <2>1, MaxOfTwo
  <1>2. Blocking(r) \subseteq Notes /\ IsFiniteSet(Blocking(r))
    <2>1. Blocking(r) \subseteq Notes
      BY DEF Blocking
    <2> QED
      BY <2>1, BuzzNumbers, FS_Subset
  <1>3. IsFiniteSet(B) /\ B \subseteq Int
    <2> DEFINE f == [e \in Notes |-> Max({0, NoteAt[e] - 1})]
    <2>1. IsFiniteSet(B)
      <3>1. IsFiniteSet({f[e] : e \in Blocking(r)})
        BY <1>2, ImageIsFinite
      <3>2. B = {f[e] : e \in Blocking(r)}
        BY <1>2
      <3> QED
        BY <3>1, <3>2
    <2> QED
      BY <1>1, <1>2, <2>1
  <1> HIDE DEF B
  <1>4. IsFiniteSet(held) /\ held \subseteq Int /\ held # {} /\ c \in held
    <2>1. IsFiniteSet(B \cup {c}) /\ B \cup {c} = held
      BY <1>3, FS_AddElement
    <2> QED
      BY <1>3, <2>1
  <1>5. Min(held) \in Int /\ Min(held) <= c
    BY <1>4, MinIsLeast
  <1>6. Advanced(old, c, r) = Max({old, Min(held)})
    BY DEF Advanced, B
  <1> HIDE DEF held
  <1>7. Advanced(old, c, r) = IF old >= Min(held) THEN old ELSE Min(held)
    BY <1>5, <1>6, MaxOfTwo
  <1> QED
    BY <1>5, <1>7

\* A read begins no later than an event that is in the retries or after the
\* cursor.
LEMMA ReadCovers ==
    ASSUME NEW s, s.since \in Nat, s.unresolved \subseteq Notes,
           NEW e \in Notes, NoteAt[e] >= Floor,
           e \in s.unresolved \/ s.since <= NoteAt[e] + Overlap
    PROVE  ReadSince(s) <= NoteAt[e]
  <1> DEFINE U == {NoteAt[f] : f \in s.unresolved}
             starts == {s.since - Overlap} \cup U
  <1>1. IsFiniteSet(U) /\ U \subseteq Int
    <2>1. IsFiniteSet(s.unresolved)
      BY BuzzNumbers, FS_Subset
    <2> QED
      BY <2>1, BuzzNumbers, ImageIsFinite
  <1>2. e \in s.unresolved => NoteAt[e] \in U
    OBVIOUS
  <1> HIDE DEF U
  <1>3. s.since - Overlap \in Int /\ NoteAt[e] \in Nat
    BY BuzzNumbers
  <1>4. IsFiniteSet(starts) /\ starts \subseteq Int /\ starts # {}
    <2>1. IsFiniteSet(U \cup {s.since - Overlap}) /\ U \cup {s.since - Overlap} = starts
      BY <1>1, FS_AddElement
    <2> QED
      BY <1>1, <1>3, <2>1
  <1>5. Min(starts) \in Int /\ \A x \in starts : Min(starts) <= x
    BY <1>4, MinIsLeast
  <1>6. Min(starts) <= NoteAt[e]
    <2>1. CASE e \in s.unresolved
      BY <1>2, <1>5, <2>1
    <2>2. CASE s.since <= NoteAt[e] + Overlap
      <3>1. Min(starts) <= s.since - Overlap
        BY <1>5
      <3> QED
        BY <1>3, <1>5, <2>2, <3>1, BuzzNumbers
    <2> QED
      BY <2>1, <2>2
  <1> HIDE DEF starts
  <1> DEFINE bounds == {Floor, 0, Min(starts)}
  <1>7. ReadSince(s) = Max(bounds)
    BY DEF ReadSince, starts, U
  <1>8. IsFiniteSet(bounds) /\ bounds \subseteq Int /\ bounds # {}
    <2>1. IsFiniteSet(({} \cup {Floor}) \cup {0})
      BY FS_EmptySet, FS_AddElement
    <2>2. IsFiniteSet((({} \cup {Floor}) \cup {0}) \cup {Min(starts)})
      BY <2>1, FS_AddElement
    <2>3. (({} \cup {Floor}) \cup {0}) \cup {Min(starts)} = bounds
      OBVIOUS
    <2> QED
      BY <1>5, <2>2, <2>3, BuzzNumbers
  <1>9. \A x \in bounds : x <= NoteAt[e]
    BY <1>3, <1>6, BuzzNumbers
  <1> QED
    BY <1>7, <1>8, <1>9, MaxIsGreatest

-----------------------------------------------------------------------------
(* The round's state. *)

\* The mark of an event.
LEMMA MarkTyped ==
    ASSUME NEW s \in StateRecord, NEW e \in Notes
    PROVE  /\ s.mark[e] \in [kind : Kinds, first : Clock]
           /\ s.mark[e].kind \in Kinds /\ s.mark[e].first \in Clock
           /\ s.tries[e] \in 0 .. MaxTries
  BY DEF StateRecord

\* A round's state in which only the event e changed, and in no way that takes
\* an outcome back, forgets it, dates it anew or claims more than Feishu holds.
LEMMA CarriedOn ==
    ASSUME NEW s, Carried(s), NEW e \in Notes, NEW t \in StateRecord,
           t.since = s.since,
           \A f \in Notes \ {e} : /\ t.mark[f] = s.mark[f] /\ t.tries[f] = s.tries[f]
                                  /\ f \in t.unresolved <=> f \in s.unresolved
                                  /\ f \in t.f2b <=> f \in s.f2b,
           Terminal(t.mark[e]) => e \notin t.unresolved,
           ~ Terminal(t.mark[e]) => t.tries[e] < MaxTries /\ e \in t.unresolved,
           t.mark[e].kind = "sent" => InFeishu(e),
           t.mark[e].kind # "none" => RootIn(e),
           e \in t.f2b => t.mark[e].kind = "sent",
           OpenAttempt(t.mark[e]) => t.mark[e].first <= clock,
           OpenAttempt(t.mark[e]) /\ OpenAttempt(s.mark[e]) => t.mark[e].first = s.mark[e].first,
           t.mark[e].kind = "none" => s.mark[e].kind = "none",
           s.mark[e].kind = "sent" => t.mark[e].kind = "sent",
           s.mark[e].kind = "unknown" => t.mark[e].kind \in {"unknown", "sent"},
           s.mark[e].kind = "failed" => t.mark[e].kind \in {"failed", "sent"}
    PROVE  Carried(t)
  <1>1. /\ s \in StateRecord /\ s.since = disk.since
        /\ \A f \in Notes :
              /\ Terminal(s.mark[f]) => f \notin s.unresolved
              /\ ~ Terminal(s.mark[f]) => s.tries[f] < MaxTries
              /\ s.mark[f].kind = "sent" => InFeishu(f)
              /\ s.mark[f].kind # "none" => RootIn(f)
              /\ f \in s.f2b => s.mark[f].kind = "sent"
              /\ OpenAttempt(s.mark[f]) => s.mark[f].first <= clock
              /\ s.mark[f].kind = "none" => disk.mark[f].kind = "none"
              /\ disk.mark[f].kind = "sent" => s.mark[f].kind = "sent"
              /\ disk.mark[f].kind = "unknown" => s.mark[f].kind \in {"unknown", "sent"}
              /\ disk.mark[f].kind = "failed" => s.mark[f].kind \in {"failed", "sent"}
              /\ OpenAttempt(s.mark[f]) /\ OpenAttempt(disk.mark[f]) =>
                    s.mark[f].first = disk.mark[f].first
              /\ Wanted(f) /\ ~ Terminal(s.mark[f]) =>
                    f \in s.unresolved \/ s.since <= NoteAt[f] + Overlap \/ f \in passed
    BY DEF Carried, Truthful, Ahead, Covered
  <1>2. Truthful(t)
    BY <1>1 DEF Truthful
  <1>3. OpenAttempt(t.mark[e]) /\ OpenAttempt(disk.mark[e]) => t.mark[e].first = disk.mark[e].first
    <2>1. SUFFICES ASSUME OpenAttempt(t.mark[e]), OpenAttempt(disk.mark[e])
                   PROVE  OpenAttempt(s.mark[e])
      BY <1>1
    <2>2. s.mark[e].kind \in Kinds
      BY <1>1, MarkTyped
    <2> QED
      BY <1>1, <2>1, <2>2 DEF OpenAttempt, Kinds
  <1>4. Ahead(t)
    BY <1>1, <1>3 DEF Ahead
  <1>5. Covered(t, t.since, passed)
    BY <1>1 DEF Covered
  <1> QED
    BY <1>2, <1>4, <1>5 DEF Carried

\* The event is in Feishu and its mark says so.
LEMMA SentCarried ==
    ASSUME NEW s, Carried(s), NEW e \in Notes, InFeishu(e), RootIn(e)
    PROVE  /\ Carried(Sent(s, e))
           /\ Sent(s, e).mark[e].kind = "sent"
           /\ \A f \in Notes \ {e} : /\ Sent(s, e).mark[f] = s.mark[f]
                                     /\ f \in Sent(s, e).unresolved <=> f \in s.unresolved
  <1> DEFINE k == [kind |-> "sent", first |-> 0]
             t == [s EXCEPT !.mark[e] = k, !.unresolved = @ \ {e}]
  <1>1. s \in StateRecord
    BY DEF Carried, Truthful
  <1>2. k \in [kind : Kinds, first : Clock] /\ k.kind = "sent"
    BY BuzzNumbers DEF Kinds, Clock
  <1>0. Sent(s, e) = t
    BY DEF Sent
  <1> HIDE DEF k
  <1>3. /\ t \in StateRecord /\ t.since = s.since /\ t.tries = s.tries /\ t.f2b = s.f2b
        /\ t.mark = [s.mark EXCEPT ![e] = k] /\ t.unresolved = s.unresolved \ {e}
    BY <1>1, <1>2 DEF StateRecord
  <1> HIDE DEF t
  <1>4. t.mark[e] = k /\ \A f \in Notes \ {e} : t.mark[f] = s.mark[f]
    BY <1>1, <1>3 DEF StateRecord
  <1>5. Terminal(t.mark[e]) /\ ~ OpenAttempt(t.mark[e])
    BY <1>2, <1>4 DEF Terminal, OpenAttempt
  <1>6. Carried(t)
    BY <1>2, <1>3, <1>4, <1>5, CarriedOn
  <1> QED
    BY <1>0, <1>2, <1>3, <1>4, <1>6

\* _adopt of an event whose copy is in Feishu.
LEMMA AdoptedCarried ==
    ASSUME NEW s, Carried(s), NEW e \in Notes, InFeishu(e), RootIn(e)
    PROVE  /\ Carried(Adopted(s, e))
           /\ Adopted(s, e).mark[e].kind = "sent"
           /\ \A f \in Notes \ {e} : /\ Adopted(s, e).mark[f] = s.mark[f]
                                     /\ f \in Adopted(s, e).unresolved <=> f \in s.unresolved
  <1> DEFINE a == Sent(s, e)
             t == [a EXCEPT !.f2b = @ \cup {e}]
  <1>1. /\ Carried(a) /\ a.mark[e].kind = "sent"
        /\ \A f \in Notes \ {e} : /\ a.mark[f] = s.mark[f]
                                  /\ f \in a.unresolved <=> f \in s.unresolved
    BY SentCarried
  <1>2. Adopted(s, e) = t
    BY DEF Adopted
  <1> HIDE DEF a
  <1>3. /\ a \in StateRecord /\ Terminal(a.mark[e]) /\ e \notin a.unresolved
        /\ ~ OpenAttempt(a.mark[e])
    BY <1>1 DEF Carried, Truthful, Terminal, OpenAttempt
  <1>4. /\ t \in StateRecord /\ t.since = a.since /\ t.tries = a.tries
        /\ t.mark = a.mark /\ t.unresolved = a.unresolved /\ t.f2b = a.f2b \cup {e}
    BY <1>3 DEF StateRecord
  <1> HIDE DEF t
  <1>5. Carried(t)
    BY <1>1, <1>3, <1>4, CarriedOn
  <1> QED
    BY <1>1, <1>2, <1>4, <1>5

\* _thread_root_parent: the event waits in the retries.
LEMMA WaitingCarried ==
    ASSUME NEW s, Carried(s), NEW e \in Notes, ~ Terminal(s.mark[e])
    PROVE  /\ Carried(Waiting(s, e)) /\ Waiting(s, e).mark = s.mark
           /\ Waiting(s, e).unresolved = s.unresolved \cup {e}
  <1> DEFINE t == Waiting(s, e)
  <1>1. /\ s \in StateRecord /\ s.tries[e] < MaxTries
        /\ s.mark[e].kind = "sent" => InFeishu(e)
        /\ s.mark[e].kind # "none" => RootIn(e)
        /\ e \in s.f2b => s.mark[e].kind = "sent"
        /\ OpenAttempt(s.mark[e]) => s.mark[e].first <= clock
    BY DEF Carried, Truthful
  <1>2. /\ t \in StateRecord /\ t.since = s.since /\ t.tries = s.tries /\ t.f2b = s.f2b
        /\ t.mark = s.mark /\ t.unresolved = s.unresolved \cup {e}
    BY <1>1 DEF StateRecord, Waiting
  <1> HIDE DEF t
  <1>3. s.mark[e].kind \notin {"unknown", "failed", "sent"}
    BY DEF Terminal
  <1>4. Carried(t)
    BY <1>1, <1>2, <1>3, CarriedOn
  <1> QED
    BY <1>2, <1>4 DEF t

\* The mark of an event that was open is closed (_close).
LEMMA ClosedCarried ==
    ASSUME NEW s, Carried(s), NEW e \in Notes, OpenAttempt(s.mark[e])
    PROVE  LET t == [s EXCEPT !.mark[e] = Closed(@), !.unresolved = @ \ {e}]
           IN  /\ Carried(t) /\ Terminal(t.mark[e])
               /\ \A f \in Notes \ {e} : /\ t.mark[f] = s.mark[f]
                                         /\ f \in t.unresolved <=> f \in s.unresolved
  <1> DEFINE k == Closed(s.mark[e])
             t == [s EXCEPT !.mark[e] = Closed(@), !.unresolved = @ \ {e}]
  <1>1. /\ s \in StateRecord /\ s.tries[e] < MaxTries
        /\ s.mark[e].kind # "none" => RootIn(e)
        /\ e \notin s.f2b
    BY DEF Carried, Truthful, OpenAttempt, Terminal
  <1>2. k \in [kind : Kinds, first : Clock] /\ k.kind \in {"unknown", "failed"}
    BY <1>1, MarkTyped DEF Closed, Kinds
  <1> HIDE DEF k
  <1>3. /\ t \in StateRecord /\ t.since = s.since /\ t.tries = s.tries /\ t.f2b = s.f2b
        /\ t.mark = [s.mark EXCEPT ![e] = k] /\ t.unresolved = s.unresolved \ {e}
    <2>1. t = [s EXCEPT !.mark[e] = k, !.unresolved = @ \ {e}]
      BY DEF k
    <2> HIDE DEF t
    <2> QED
      BY <1>1, <1>2, <2>1 DEF StateRecord
  <1> HIDE DEF t
  <1>4. t.mark[e] = k /\ \A f \in Notes \ {e} : t.mark[f] = s.mark[f]
    BY <1>1, <1>3 DEF StateRecord
  <1>5. /\ Terminal(t.mark[e]) /\ ~ OpenAttempt(t.mark[e])
        /\ s.mark[e].kind \in {"pending", "retry"}
    BY <1>2, <1>4 DEF Terminal, OpenAttempt
  <1>6. Carried(t)
    BY <1>1, <1>2, <1>3, <1>4, <1>5, CarriedOn
  <1> QED
    BY <1>3, <1>4, <1>5, <1>6 DEF t

\* An event that is settled leaves the retries.
LEMMA SettledCarried ==
    ASSUME NEW s, Carried(s), NEW e \in Notes, Terminal(s.mark[e])
    PROVE  LET t == [s EXCEPT !.unresolved = @ \ {e}]
           IN  Carried(t) /\ t.mark = s.mark /\ t.unresolved = s.unresolved \ {e}
  <1> DEFINE t == [s EXCEPT !.unresolved = @ \ {e}]
  <1>1. /\ s \in StateRecord
        /\ s.mark[e].kind = "sent" => InFeishu(e)
        /\ s.mark[e].kind # "none" => RootIn(e)
        /\ e \in s.f2b => s.mark[e].kind = "sent"
    BY DEF Carried, Truthful
  <1>2. /\ t \in StateRecord /\ t.since = s.since /\ t.tries = s.tries /\ t.f2b = s.f2b
        /\ t.mark = s.mark /\ t.unresolved = s.unresolved \ {e}
        /\ ~ OpenAttempt(s.mark[e])
    BY <1>1 DEF StateRecord, Terminal, OpenAttempt
  <1> HIDE DEF t
  <1>3. Carried(t)
    BY <1>1, <1>2, CarriedOn
  <1> QED
    BY <1>2, <1>3 DEF t

\* The state that a visit saves before a post.
Sending(s, e) ==
    [s EXCEPT !.mark[e] = PendingMark(s.mark[e]), !.unresolved = @ \cup {e}]

\* The save before a post: the event is pending and in the retries.
LEMMA SendingCarried ==
    ASSUME NEW s, Carried(s), NEW e \in Notes, ~ Terminal(s.mark[e]), RootIn(e),
           now \in Clock, now <= clock,
           OpenAttempt(s.mark[e]) => now - s.mark[e].first <= RetryWindow
    PROVE  /\ Carried(Sending(s, e))
           /\ Sending(s, e).mark[e].kind = "pending" /\ e \in Sending(s, e).unresolved
           /\ now <= Sending(s, e).mark[e].first + RetryWindow
           /\ \A f \in Notes \ {e} : /\ Sending(s, e).mark[f] = s.mark[f]
                                     /\ f \in Sending(s, e).unresolved <=> f \in s.unresolved
  <1> DEFINE k == PendingMark(s.mark[e])
             t == [s EXCEPT !.mark[e] = k, !.unresolved = @ \cup {e}]
  <1>1. /\ s \in StateRecord /\ s.tries[e] < MaxTries /\ e \notin s.f2b
        /\ OpenAttempt(s.mark[e]) => s.mark[e].first <= clock
        /\ s.mark[e].kind \notin {"sent", "unknown", "failed"}
    BY DEF Carried, Truthful, Terminal
  <1>2. /\ k \in [kind : Kinds, first : Clock] /\ k.kind = "pending"
        /\ k.first <= clock /\ now <= k.first + RetryWindow
        /\ OpenAttempt(s.mark[e]) => k.first = s.mark[e].first
    <2>1. s.mark[e].first \in Clock
      BY <1>1, MarkTyped
    <2>2. now <= now + RetryWindow
      BY BuzzNumbers DEF Clock
    <2>3. OpenAttempt(s.mark[e]) => now <= s.mark[e].first + RetryWindow
      BY <2>1, BuzzNumbers DEF Clock
    <2> QED
      BY <1>1, <2>1, <2>2, <2>3 DEF PendingMark, Kinds
  <1>3. Sending(s, e) = t
    BY DEF Sending
  <1> HIDE DEF k
  <1>4. /\ t \in StateRecord /\ t.since = s.since /\ t.tries = s.tries /\ t.f2b = s.f2b
        /\ t.mark = [s.mark EXCEPT ![e] = k] /\ t.unresolved = s.unresolved \cup {e}
    BY <1>1, <1>2 DEF StateRecord
  <1> HIDE DEF t
  <1>5. t.mark[e] = k /\ \A f \in Notes \ {e} : t.mark[f] = s.mark[f]
    BY <1>1, <1>4 DEF StateRecord
  <1>6. ~ Terminal(t.mark[e])
    BY <1>2, <1>5 DEF Terminal
  <1>7. Carried(t)
    BY <1>1, <1>2, <1>4, <1>5, <1>6, CarriedOn
  <1> QED
    BY <1>2, <1>3, <1>4, <1>5, <1>7

\* _refused: one more try is used up; after the last the event has failed.
LEMMA RefusedCarried ==
    ASSUME NEW s, Carried(s), NEW e \in Notes, s.mark[e].kind = "pending", e \in s.unresolved
    PROVE  /\ Carried(AfterRefusal(s, e))
           /\ \A f \in Notes \ {e} : /\ AfterRefusal(s, e).mark[f] = s.mark[f]
                                     /\ f \in AfterRefusal(s, e).unresolved <=> f \in s.unresolved
           /\ Terminal(AfterRefusal(s, e).mark[e]) \/ e \in AfterRefusal(s, e).unresolved
  <1> DEFINE n == s.tries[e] + 1
             last == [s EXCEPT !.tries[e] = @ + 1, !.mark[e].kind = "failed", !.unresolved = @ \ {e}]
             again == [s EXCEPT !.tries[e] = @ + 1, !.mark[e].kind = "retry"]
  <1>1. /\ s \in StateRecord /\ s.tries[e] < MaxTries /\ RootIn(e) /\ e \notin s.f2b
        /\ s.mark[e].first <= clock
        /\ s.tries[e] \in 0 .. MaxTries /\ n \in 0 .. MaxTries
        /\ s.mark[e] \in [kind : Kinds, first : Clock]
    <2>1. /\ s \in StateRecord /\ s.tries[e] < MaxTries /\ RootIn(e) /\ e \notin s.f2b
          /\ s.mark[e].first <= clock
      BY DEF Carried, Truthful, Terminal, OpenAttempt
    <2> QED
      BY <2>1, MarkTyped, BuzzNumbers
  <1>2. CASE n >= MaxTries
    <2> DEFINE k == [s.mark[e] EXCEPT !.kind = "failed"]
    <2>1. AfterRefusal(s, e) = last
      BY <1>2 DEF AfterRefusal
    <2>2. k \in [kind : Kinds, first : Clock] /\ k.kind = "failed"
      BY <1>1 DEF Kinds
    <2>3. /\ last \in StateRecord /\ last.since = s.since /\ last.f2b = s.f2b
          /\ last.tries = [s.tries EXCEPT ![e] = n]
          /\ last.mark = [s.mark EXCEPT ![e] = k] /\ last.unresolved = s.unresolved \ {e}
      BY <1>1, <2>2 DEF StateRecord
    <2> HIDE DEF k, last, n
    <2>4. /\ last.mark[e] = k /\ \A f \in Notes \ {e} : last.mark[f] = s.mark[f]
          /\ \A f \in Notes \ {e} : last.tries[f] = s.tries[f]
      BY <1>1, <2>3 DEF StateRecord
    <2>5. Terminal(last.mark[e]) /\ ~ OpenAttempt(last.mark[e])
      BY <2>2, <2>4 DEF Terminal, OpenAttempt
    <2>6. /\ e \notin last.unresolved /\ e \notin last.f2b
          /\ last.mark[e].kind \notin {"sent", "none"}
          /\ s.mark[e].kind \notin {"sent", "unknown", "failed"}
          /\ \A f \in Notes \ {e} : /\ f \in last.unresolved <=> f \in s.unresolved
                                    /\ f \in last.f2b <=> f \in s.f2b
      BY <1>1, <2>2, <2>3, <2>4
    <2>7. Carried(last)
      BY <1>1, <2>3, <2>4, <2>5, <2>6, CarriedOn
    <2> QED
      BY <2>1, <2>4, <2>5, <2>6, <2>7
  <1>3. CASE ~ (n >= MaxTries)
    <2> DEFINE k == [s.mark[e] EXCEPT !.kind = "retry"]
    <2>1. AfterRefusal(s, e) = again
      BY <1>3 DEF AfterRefusal
    <2>2. /\ k \in [kind : Kinds, first : Clock] /\ k.kind = "retry"
          /\ k.first = s.mark[e].first
      BY <1>1 DEF Kinds
    <2>3. /\ again \in StateRecord /\ again.since = s.since /\ again.f2b = s.f2b
          /\ again.tries = [s.tries EXCEPT ![e] = n]
          /\ again.mark = [s.mark EXCEPT ![e] = k] /\ again.unresolved = s.unresolved
      BY <1>1, <2>2 DEF StateRecord
    <2>4. n < MaxTries
      BY <1>1, <1>3, BuzzNumbers
    <2> HIDE DEF k, again, n
    <2>5. /\ again.mark[e] = k /\ again.tries[e] = n
          /\ \A f \in Notes \ {e} : again.mark[f] = s.mark[f] /\ again.tries[f] = s.tries[f]
      BY <1>1, <2>3 DEF StateRecord
    <2>6. /\ ~ Terminal(again.mark[e]) /\ again.mark[e].kind = "retry"
          /\ again.tries[e] < MaxTries /\ e \in again.unresolved
          /\ s.mark[e].kind \notin {"sent", "unknown", "failed"}
          /\ again.mark[e].first = s.mark[e].first /\ e \notin again.f2b
          /\ \A f \in Notes \ {e} : /\ f \in again.unresolved <=> f \in s.unresolved
                                    /\ f \in again.f2b <=> f \in s.f2b
      BY <1>1, <2>2, <2>3, <2>4, <2>5 DEF Terminal
    <2>7. Carried(again)
      BY <1>1, <2>3, <2>5, <2>6, CarriedOn
    <2> QED
      BY <2>1, <2>3, <2>5, <2>7
  <1> QED
    BY <1>2, <1>3

\* A delivery: the copy is there, and the tries are reset.
LEMMA DeliveredCarried ==
    ASSUME NEW s, Carried(s), NEW e \in Notes, InFeishu(e), RootIn(e)
    PROVE  LET t == [Sent(s, e) EXCEPT !.tries[e] = 0]
           IN  /\ Carried(t) /\ t.mark[e].kind = "sent"
               /\ \A f \in Notes \ {e} : /\ t.mark[f] = s.mark[f]
                                         /\ f \in t.unresolved <=> f \in s.unresolved
  <1> DEFINE a == Sent(s, e)
             t == [a EXCEPT !.tries[e] = 0]
  <1>1. /\ Carried(a) /\ a.mark[e].kind = "sent"
        /\ \A f \in Notes \ {e} : /\ a.mark[f] = s.mark[f]
                                  /\ f \in a.unresolved <=> f \in s.unresolved
    BY SentCarried
  <1> HIDE DEF a
  <1>2. /\ a \in StateRecord /\ Terminal(a.mark[e]) /\ e \notin a.unresolved
        /\ ~ OpenAttempt(a.mark[e])
    BY <1>1 DEF Carried, Truthful, Terminal, OpenAttempt
  <1>3. /\ t \in StateRecord /\ t.since = a.since /\ t.tries = [a.tries EXCEPT ![e] = 0]
        /\ t.f2b = a.f2b
        /\ t.mark = a.mark /\ t.unresolved = a.unresolved
    <2>1. 0 \in 0 .. MaxTries
      BY BuzzNumbers
    <2> QED
      BY <1>2, <2>1 DEF StateRecord
  <1> HIDE DEF t
  <1>4. \A f \in Notes \ {e} : t.tries[f] = a.tries[f]
    BY <1>2, <1>3 DEF StateRecord
  <1>5. Carried(t)
    BY <1>1, <1>2, <1>3, <1>4, CarriedOn
  <1> QED
    BY <1>1, <1>3, <1>5 DEF t, a

\* A round begins on what is saved, with the stale retries closed.
LEMMA GivenUpCarried ==
    ASSUME DiskOK
    PROVE  Carried(GivenUp(disk))
  <1> DEFINE stale   == {e \in disk.unresolved : disk.mark[e].kind # "none" /\ clock - NoteAt[e] > Discovery}
             closing == [e \in Notes |-> IF e \in stale THEN Closed(disk.mark[e]) ELSE disk.mark[e]]
             t       == [disk EXCEPT !.mark = closing, !.unresolved = @ \ stale]
  <1>1. /\ disk \in StateRecord
        /\ \A e \in Notes :
              /\ Terminal(disk.mark[e]) => e \notin disk.unresolved
              /\ ~ Terminal(disk.mark[e]) => disk.tries[e] < MaxTries
              /\ disk.mark[e].kind = "sent" => InFeishu(e)
              /\ disk.mark[e].kind # "none" => RootIn(e)
              /\ e \in disk.f2b => disk.mark[e].kind = "sent"
              /\ OpenAttempt(disk.mark[e]) => disk.mark[e].first <= clock
              /\ Wanted(e) /\ ~ Terminal(disk.mark[e]) =>
                    e \in disk.unresolved \/ disk.since <= NoteAt[e] + Overlap \/ e \in passed
    BY DEF DiskOK, Truthful, Covered
  <1>2. GivenUp(disk) = t
    BY DEF GivenUp
  <1>3. ASSUME NEW e \in stale
        PROVE  /\ e \in Notes /\ disk.mark[e].kind \in {"pending", "retry"}
               /\ Closed(disk.mark[e]) \in [kind : Kinds, first : Clock]
               /\ Closed(disk.mark[e]).kind \in {"unknown", "failed"}
    <2>1. e \in Notes /\ e \in disk.unresolved /\ disk.mark[e].kind # "none"
      BY <1>1 DEF StateRecord
    <2>2. disk.mark[e] \in [kind : Kinds, first : Clock] /\ disk.mark[e].kind \in Kinds
      BY <1>1, <2>1, MarkTyped
    <2>3. disk.mark[e].kind \notin {"sent", "unknown", "failed"}
      BY <1>1, <2>1 DEF Terminal
    <2> QED
      BY <2>1, <2>2, <2>3 DEF Closed, Kinds
  <1>4. \A e \in Notes : disk.mark[e] \in [kind : Kinds, first : Clock]
    BY <1>1, MarkTyped
  <1> HIDE DEF stale
  <1>5. closing \in [Notes -> [kind : Kinds, first : Clock]]
    BY <1>3, <1>4
  <1>6. \A e \in Notes : closing[e] = IF e \in stale THEN Closed(disk.mark[e]) ELSE disk.mark[e]
    OBVIOUS
  <1> HIDE DEF closing
  <1>7. /\ t \in StateRecord /\ t.since = disk.since /\ t.tries = disk.tries /\ t.f2b = disk.f2b
        /\ t.mark = closing /\ t.unresolved = disk.unresolved \ stale
    BY <1>1, <1>5 DEF StateRecord
  <1> HIDE DEF t
  <1>8. ASSUME NEW e \in stale
        PROVE  /\ Terminal(t.mark[e]) /\ e \notin t.unresolved
               /\ ~ OpenAttempt(t.mark[e]) /\ e \notin t.f2b
               /\ t.mark[e].kind \in {"unknown", "failed"} /\ RootIn(e)
               /\ disk.mark[e].kind \in {"pending", "retry"}
    BY <1>1, <1>3, <1>6, <1>7 DEF Terminal, OpenAttempt
  <1>9. ASSUME NEW e \in Notes \ stale
        PROVE  t.mark[e] = disk.mark[e] /\ (e \in t.unresolved <=> e \in disk.unresolved)
    BY <1>6, <1>7
  <1>10. Truthful(t)
    BY <1>1, <1>7, <1>8, <1>9 DEF Truthful
  <1>11. Ahead(t)
    BY <1>7, <1>8, <1>9 DEF Ahead
  <1>12. Covered(t, t.since, passed)
    BY <1>1, <1>7, <1>8, <1>9 DEF Covered
  <1> QED
    BY <1>2, <1>10, <1>11, <1>12 DEF Carried

-----------------------------------------------------------------------------
(* A save. *)

\* The row a mark leaves is the one it stands for, unless it would take back
\* an outcome.
LEMMA RowLeft ==
    ASSUME NEW s, Carried(s), DiskOK, NEW e \in Notes
    PROVE  /\ RowFor(s.mark[e].kind, disk.row[e]) = RowOf(s.mark[e].kind)
           /\ RowOf(s.mark[e].kind) \in RowStates
  <1>1. /\ s.mark[e].kind \in Kinds /\ disk.mark[e].kind \in Kinds
        /\ disk.row[e] = RowOf(disk.mark[e].kind)
        /\ s.mark[e].kind = "none" => disk.mark[e].kind = "none"
        /\ disk.mark[e].kind = "sent" => s.mark[e].kind = "sent"
    BY MarkTyped DEF Carried, Truthful, Ahead, DiskOK
  <1>2. disk.row[e] = "acked" => disk.mark[e].kind = "sent"
    BY <1>1 DEF Kinds, RowOf
  <1> QED
    BY <1>1, <1>2 DEF Kinds, RowStates, RowOf, RowFor

\* The ledger accepts what the round hands it, and what is saved covers every
\* wanted event when the cursor it commits does (StateAdapter._save).
LEMMA Saving ==
    ASSUME DiskOK, NEW s, Carried(s), NEW c \in Clock, c <= clock, clock \in Clock,
           c = disk.since \/ Covered(s, c, passed'),
           \A f \in passed : f \in passed' \/ f \in s.unresolved,
           Persist(s, c), UNCHANGED <<clock, arrived, copies>>
    PROVE  /\ DiskOK' /\ disk'.mark = s.mark /\ MarksKept
           /\ c = disk.since => disk'.since = disk.since
  <1> DEFINE r == [e \in Notes |-> RowFor(s.mark[e].kind, disk.row[e])]
             n == Advanced(disk.since, c, r)
  <1>1. /\ disk \in StateRecord /\ disk.since \in Nat /\ c \in Nat /\ clock \in Nat
        /\ s \in StateRecord /\ s.since = disk.since /\ disk.since <= clock /\ saved = TRUE
    BY BuzzNumbers DEF DiskOK, Carried, Truthful, Ahead, StateRecord, Clock
  <1>2. ~ Refused(s, disk.row)
    <2>1. ASSUME NEW e \in Notes, s.mark[e].kind = "pending", disk.row[e] \in {"acked", "unknown"}
          PROVE  FALSE
      <3>1. disk.mark[e].kind \in Kinds /\ disk.row[e] = RowOf(disk.mark[e].kind)
        BY <1>1, MarkTyped DEF DiskOK
      <3>2. disk.mark[e].kind \in {"sent", "unknown"}
        BY <2>1, <3>1 DEF Kinds, RowOf
      <3> QED
        BY <2>1, <3>2 DEF Carried, Ahead
    <2>2. ASSUME NEW e \in Notes, s.mark[e].kind = "failed", disk.row[e] = "acked"
          PROVE  FALSE
      <3>1. disk.mark[e].kind \in Kinds /\ disk.row[e] = RowOf(disk.mark[e].kind)
        BY <1>1, MarkTyped DEF DiskOK
      <3>2. disk.mark[e].kind = "sent"
        BY <2>2, <3>1 DEF Kinds, RowOf
      <3> QED
        BY <2>2, <3>2 DEF Carried, Ahead
    <2> QED
      BY <2>1, <2>2 DEF Refused
  <1>3. saved' = TRUE /\ disk' = [s EXCEPT !.row = r, !.since = n]
    BY <1>1, <1>2 DEF Persist, Saved
  <1>4. r \in [Notes -> RowStates] /\ \A e \in Notes : r[e] = RowOf(s.mark[e].kind)
    BY RowLeft
  <1> HIDE DEF r
  <1>5. /\ n \in Nat
        /\ n = disk.since \/ n <= c
        /\ c = disk.since => n = disk.since
    BY <1>1, Advancing
  <1> HIDE DEF n
  <1>6. n \in Clock /\ n <= clock
    BY <1>1, <1>5, BuzzNumbers DEF Clock
  <1>7. /\ disk' \in StateRecord /\ disk'.mark = s.mark /\ disk'.tries = s.tries
        /\ disk'.unresolved = s.unresolved /\ disk'.row = r /\ disk'.since = n
        /\ disk'.f2b = s.f2b
    BY <1>1, <1>3, <1>4, <1>6 DEF StateRecord
  <1>8. Covered(s, n, passed')
    <2>1. CASE n = disk.since
      <3>1. Covered(s, n, passed)
        BY <1>1, <2>1 DEF Carried
      <3> QED
        BY <3>1 DEF Covered
    <2>2. CASE n # disk.since
      <3>1. n <= c /\ Covered(s, c, passed')
        BY <1>5, <2>2
      <3> QED
        BY <1>1, <1>5, <3>1, BuzzNumbers DEF Covered
    <2> QED
      BY <2>1, <2>2
  <1>9. (Truthful(disk))'
    BY <1>7 DEF Carried, Truthful, InFeishu, RootIn, Terminal, OpenAttempt
  <1>10. (Covered(disk, disk.since, passed))'
    BY <1>7, <1>8 DEF Covered, Wanted, Terminal
  <1>11. MarksKept
    <2>1. \A e \in Notes : disk.mark[e].kind \in Kinds
      BY <1>1, MarkTyped
    <2> QED
      BY <1>7, <2>1 DEF MarksKept, Carried, Ahead, OpenAttempt, Kinds
  <1> QED
    BY <1>3, <1>4, <1>5, <1>6, <1>7, <1>9, <1>10, <1>11 DEF DiskOK

\* After a save the round's state is ahead of what was saved.
LEMMA Resaved ==
    ASSUME DiskOK', NEW s, NEW t, Carried(t), t.mark = s.mark, disk'.mark = s.mark,
           \A f \in passed : f \in passed' \/ f \in t.unresolved,
           disk'.since = disk.since, UNCHANGED <<clock, arrived, copies>>
    PROVE  Carried(t)'
  <1>1. Truthful(t) /\ t.since = disk.since /\ Covered(t, t.since, passed)
    BY DEF Carried, Ahead
  <1>2. Truthful(t)'
    BY <1>1 DEF Truthful, InFeishu, RootIn
  <1>3. Ahead(t)'
    BY <1>1 DEF Ahead
  <1>4. Covered(t, t.since, passed)'
    BY <1>1 DEF Covered, Wanted
  <1> QED
    BY <1>2, <1>3, <1>4 DEF Carried

-----------------------------------------------------------------------------
(* Steps that save nothing. *)

\* Feishu forgets no copy, so what a state says stays true; no new event is
\* wanted.
LEMMA CarriedKept ==
    ASSUME NEW s, Carried(s), UNCHANGED <<disk, passed>>, copies \subseteq copies',
           clock \in Nat, clock' \in Nat, clock <= clock',
           \A e \in Notes : Wanted(e)' => Wanted(e)
    PROVE  Carried(s)'
  <1>2. Truthful(s)'
    <2>1. Truthful(s) /\ \A e \in Notes : s.mark[e].first \in Nat
      BY MarkTyped DEF Carried, Truthful, Clock
    <2> QED
      BY <2>1 DEF Truthful, InFeishu, RootIn
  <1>3. Ahead(s)'
    BY DEF Carried, Ahead
  <1>4. Covered(s, s.since, passed)'
    BY DEF Carried, Covered
  <1> QED
    BY <1>2, <1>3, <1>4 DEF Carried

\* What is saved stays true for the same reasons.
LEMMA DiskKept ==
    ASSUME DiskOK, UNCHANGED <<disk, saved, passed>>, copies \subseteq copies',
           clock \in Nat, clock' \in Nat, clock <= clock',
           \A e \in Notes : Wanted(e)' => Wanted(e)
    PROVE  DiskOK'
  <1>2. Truthful(disk)'
    <2>1. Truthful(disk) /\ \A e \in Notes : disk.mark[e].first \in Nat
      BY MarkTyped DEF DiskOK, Truthful, Clock
    <2> QED
      BY <2>1 DEF Truthful, Terminal, OpenAttempt, InFeishu, RootIn
  <1>3. Covered(disk, disk.since, passed)'
    BY DEF DiskOK, Covered, Terminal
  <1>4. (disk.since <= clock)'
    BY DEF DiskOK, Truthful, StateRecord, Clock
  <1> QED
    BY <1>2, <1>3, <1>4 DEF DiskOK

\* The relay is unchanged and the clock does not go back.
LEMMA WantedKept ==
    ASSUME UNCHANGED arrived, clock \in Nat, clock' \in Nat, clock <= clock'
    PROVE  \A e \in Notes : Wanted(e)' => Wanted(e)
  <1> SUFFICES ASSUME NEW e \in Notes, Wanted(e)' PROVE Wanted(e)
    OBVIOUS
  <1>1. NoteAt[e] \in Nat /\ Overlap \in Nat
    BY BuzzNumbers
  <1> QED
    BY <1>1 DEF Wanted

\* The clock and the round's time are numbers.
LEMMA ClockTyped == Typed => clock \in Nat /\ now \in Nat
  BY BuzzNumbers DEF Typed, Clock

\* A copy is of an event that was tried, and so its root is in Feishu.
LEMMA RootOfCopy ==
    ASSUME DiskOK, CopiesOK, NEW e \in Notes, InFeishu(e)
    PROVE  RootIn(e)
  <1>1. PICK c \in copies : c.of = e
    BY DEF InFeishu
  <1>2. disk.mark[e].kind # "none"
    BY <1>1 DEF CopiesOK
  <1> QED
    BY <1>2 DEF DiskOK, Truthful

-----------------------------------------------------------------------------
(* The steps of the round that read and send. *)

\* A save disturbs nothing that is known of the copies.
LEMMA CopiesStay ==
    ASSUME Typed, CopiesOK, MarksKept, UNCHANGED <<clock, copies, inAir>>,
           \A e \in Notes : listed'[e] = "found" => InFeishu(e)'
    PROVE  CopiesOK'
  <1>1. (\A c \in copies : c.of \in Notes) /\ (\A f \in inAir : f.of \in Notes)
    BY DEF Typed, Posts
  <1>2. /\ \A f \in inAir' : f.at <= clock' /\ clock' <= f.at + MaxDelay
        /\ \A f \in inAir' : disk'.mark[f.of].kind # "none"
        /\ \A c \in copies' : disk'.mark[c.of].kind # "none"
    BY <1>1 DEF CopiesOK, MarksKept
  <1>3. \A c \in copies' : OpenAttempt(disk'.mark[c.of]) => disk'.mark[c.of].first <= c.at
    BY <1>1 DEF CopiesOK, MarksKept
  <1>4. /\ \A c \in copies', f \in inAir' : c.of = f.of => f.at <= c.at + RetryWindow + MaxRound
        /\ \A c, d \in copies' : c.of = d.of => c = d
    BY DEF CopiesOK
  <1> QED
    BY <1>2, <1>3, <1>4 DEF CopiesOK

\* What a visit hands on: the state t that was saved, if it saved, and the
\* state n of the round after it.
LEMMA VisitOutcome ==
    ASSUME BuzzInv, stage = "loop", NEW e \in Notes, NEW t, NEW n,
           Carried(t), Carried(n), t.mark = n.mark,
           Persist(t, memo.since) \/ UNCHANGED <<disk, saved, passed>>,
           passed' = passed \/ (passed' = passed \ {e} /\ e \in t.unresolved /\ e \in n.unresolved),
           memo' = n, todo' = todo \ {e}, UNCHANGED <<now, clock, arrived, copies, inAir>>,
           skipped \subseteq skipped',
           Terminal(n.mark[e]) \/ e \in n.unresolved \/ e \in skipped',
           \A f \in Notes \ {e} : ~ Terminal(n.mark[f]) =>
                /\ ~ Terminal(memo.mark[f])
                /\ f \in memo.unresolved => f \in n.unresolved
    PROVE  /\ DiskOK' /\ Carried(memo)'
           /\ Persist(t, memo.since) => disk'.mark = t.mark
           /\ \A f \in arrived' : ~ Terminal(memo'.mark[f]) =>
                 \/ f \in todo' \/ f \in memo'.unresolved
                 \/ now' <= NoteAt[f] + Overlap \/ f \in skipped' \cup passed'
           /\ MarksKept
  <1>1. Carried(memo) /\ memo.since = disk.since /\ DiskOK
    BY DEF BuzzInv, RoundOK, Carried, Ahead
  <1>2. disk.since \in Clock /\ disk.since <= clock /\ clock \in Clock
    BY <1>1 DEF DiskOK, Truthful, StateRecord, BuzzInv, Typed
  <1>3. ASSUME NEW f \in arrived', ~ Terminal(memo'.mark[f])
        PROVE  \/ f \in todo' \/ f \in memo'.unresolved
               \/ now' <= NoteAt[f] + Overlap \/ f \in skipped' \cup passed'
    <2>1. f \in Notes /\ f \in arrived
      BY <1>3 DEF BuzzInv, Typed
    <2>2. CASE f = e
      BY <1>3, <2>2
    <2>3. CASE f # e
      <3>1. ~ Terminal(memo.mark[f]) /\ (f \in memo.unresolved => f \in n.unresolved)
        BY <1>3, <2>1, <2>3
      <3>2. f \in todo \/ f \in memo.unresolved \/ now <= NoteAt[f] + Overlap \/ f \in skipped \cup passed
        BY <2>1, <3>1 DEF BuzzInv, RoundOK, InPhase
      <3> QED
        BY <2>3, <3>1, <3>2
    <2> QED
      BY <2>2, <2>3
  <1>4. CASE Persist(t, memo.since)
    <2>1. DiskOK' /\ disk'.mark = t.mark /\ disk'.since = disk.since /\ MarksKept
      BY <1>1, <1>2, <1>4, Saving
    <2>2. Carried(n)'
      BY <2>1, Resaved
    <2> QED
      BY <1>3, <2>1, <2>2
  <1>5. CASE UNCHANGED <<disk, saved, passed>>
    <2>1. \A f \in Notes : Wanted(f)' => Wanted(f)
      BY DEF Wanted
    <2>2. clock \in Nat
      BY ClockTyped DEF BuzzInv
    <2>3. Carried(n)'
      BY <1>5, <2>1, <2>2, CarriedKept
    <2>4. DiskOK'
      BY <1>1, <1>5, <2>1, <2>2, DiskKept
    <2>5. Persist(t, memo.since) => disk'.mark = t.mark
      BY <1>1, <1>2, Saving
    <2>6. MarksKept
      BY <1>5 DEF MarksKept
    <2> QED
      BY <1>3, <2>3, <2>4, <2>5, <2>6
  <1> QED
    BY <1>4, <1>5

\* A visit ends with the event settled, kept in the retries, skipped or ready to
\* be posted; it is ready only within the retry window of its first attempt.
LEMMA VisitStep ==
    ASSUME BuzzInv, NEW e \in Notes, Visit(e)
    PROVE  BuzzInv'
  <1> DEFINE found == memo.mark[e].kind # "sent" /\ Listing(e) = "found"
             m == IF found THEN Adopted(memo, e) ELSE memo
             old == m.mark[e]
             root == RootOf[e]
             ready == WithRoot(m, e)
             goes == [ready EXCEPT !.mark[e] = PendingMark(old), !.unresolved = @ \cup {e}]
             settled == [m EXCEPT !.unresolved = @ \ {e}]
             closed == [m EXCEPT !.mark[e] = Closed(@), !.unresolved = @ \ {e}]
             Outcome == /\ DiskOK' /\ Carried(memo)'
                        /\ \A f \in arrived' : ~ Terminal(memo'.mark[f]) =>
                              \/ f \in todo' \/ f \in memo'.unresolved
                              \/ now' <= NoteAt[f] + Overlap \/ f \in skipped' \cup passed'
                        /\ MarksKept
             Goes == \/ stage' = stage /\ item' = item /\ reply' = reply
                     \/ /\ stage' = "post" /\ item' = e
                        /\ memo'.mark[e].kind = "pending" /\ disk'.mark[e].kind = "pending"
                        /\ now <= memo'.mark[e].first + RetryWindow
                        /\ e \in memo'.unresolved
  <1>1. /\ stage = "loop" /\ e \in todo
        /\ UNCHANGED <<now, clock, arrived, copies, inAir, crashes>>
    BY DEF Visit, Oldest, feishuVars
  <1>2. Typed /\ DiskOK /\ RoundOK /\ CopiesOK /\ Carried(memo) /\ root \in Notes
    BY <1>1, BuzzNumbers DEF BuzzInv, RoundOK
  <1>3. \A f \in Notes : Listing(f) = "found" => InFeishu(f)
    BY <1>2 DEF Listing, CopiesOK
  <1>4. /\ Carried(m)
        /\ \A f \in Notes \ {e} : /\ m.mark[f] = memo.mark[f]
                                  /\ f \in m.unresolved <=> f \in memo.unresolved
        /\ old.kind = IF found THEN "sent" ELSE memo.mark[e].kind
        /\ ~ found => m = memo
    <2>1. CASE found
      <3>1. InFeishu(e) /\ RootIn(e)
        BY <1>2, <1>3, <2>1, RootOfCopy
      <3> QED
        BY <1>2, <2>1, <3>1, AdoptedCarried
    <2>2. CASE ~ found
      BY <1>2, <2>2
    <2> QED
      BY <2>1, <2>2
  <1>5. /\ listed' \in [Notes -> {"unread", "found", "absent"}]
        /\ \A f \in Notes : listed'[f] = listed[f] \/ listed'[f] = Listing(f)
    <2>1. listed' = [f \in Notes |->
             IF f = e /\ memo.mark[e].kind # "sent" THEN Listing(e)
             ELSE IF /\ f = root /\ root # e /\ old.kind = "none"
                     /\ m.mark[root].kind # "sent"
                  THEN Listing(root)
             ELSE listed[f]]
      BY DEF Visit
    <2>2. \A f \in Notes : listed[f] \in {"unread", "found", "absent"}
                          /\ Listing(f) \in {"unread", "found", "absent"}
      BY <1>2 DEF Typed, Listing
    <2> HIDE DEF m, old, root
    <2> QED
      BY <2>1, <2>2
  <1>6. \/ /\ Terminal(old)
           /\ IF found THEN Persist(m, memo.since) ELSE UNCHANGED <<disk, saved>>
           /\ Handled(e, settled)
           /\ UNCHANGED <<skipped, passed>>
        \/ /\ ~ Terminal(old) /\ OpenAttempt(old)
           /\ Handled(e, closed)
           /\ UNCHANGED <<disk, saved, skipped, passed>>
        \/ /\ ~ Terminal(old)
           /\ Persist(Waiting(m, e), memo.since)
           /\ Handled(e, Waiting(m, e))
           /\ passed' = passed \ {e} /\ UNCHANGED skipped
        \/ /\ ReadsParent(ready, e)
           /\ IF FindsRoot(m, e) THEN Persist(ready, memo.since) ELSE UNCHANGED <<disk, saved>>
           /\ Handled(e, ready)
           /\ skipped' = skipped \cup {e} /\ UNCHANGED passed
        \/ /\ ~ Terminal(old) /\ (OpenAttempt(old) => now - old.first <= RetryWindow)
           /\ RootReady(m, e)
           /\ Persist(goes, memo.since) /\ memo' = goes
           /\ item' = e /\ todo' = todo \ {e}
           /\ stage' = IF saved' THEN "post" ELSE "broken"
           /\ passed' = passed \ {e} /\ UNCHANGED skipped
    BY DEF Visit
  <1>20. FindsRoot(m, e) => root # e /\ InFeishu(root) /\ RootIn(root)
    BY <1>2, <1>3, RootOfCopy DEF FindsRoot
  <1>21. /\ Carried(ready) /\ ready.mark[e] = old
         /\ \A f \in Notes \ {e} : ~ Terminal(ready.mark[f]) =>
               /\ ~ Terminal(memo.mark[f])
               /\ f \in memo.unresolved => f \in ready.unresolved
         /\ ~ FindsRoot(m, e) => ready = m
    <2> HIDE DEF m
    <2>1. CASE FindsRoot(m, e)
      <3>1. ready = Adopted(m, root)
        BY <2>1 DEF WithRoot
      <3>2. /\ Carried(ready) /\ ready.mark[root].kind = "sent"
            /\ \A f \in Notes \ {root} : /\ ready.mark[f] = m.mark[f]
                                         /\ f \in ready.unresolved <=> f \in m.unresolved
        BY <1>2, <1>4, <1>20, <2>1, <3>1, AdoptedCarried
      <3>3. Terminal(ready.mark[root])
        BY <3>2 DEF Terminal
      <3>4. ready.mark[e] = old
        BY <1>20, <2>1, <3>2
      <3> HIDE DEF ready, root
      <3>5. ASSUME NEW f \in Notes \ {e}, ~ Terminal(ready.mark[f])
            PROVE  /\ ~ Terminal(memo.mark[f])
                   /\ f \in memo.unresolved => f \in ready.unresolved
        <4>1. f # root
          BY <3>3, <3>5
        <4> QED
          BY <1>4, <3>2, <3>5, <4>1
      <3> QED
        BY <2>1, <3>2, <3>4, <3>5
    <2>2. CASE ~ FindsRoot(m, e)
      <3>1. ready = m
        BY <2>2 DEF WithRoot
      <3> HIDE DEF ready
      <3> QED
        BY <1>4, <3>1
    <2> QED
      BY <2>1, <2>2
  <1> HIDE DEF found, m, old, ready, settled, closed
  <1>7. ASSUME /\ Terminal(old)
               /\ IF found THEN Persist(m, memo.since) ELSE UNCHANGED <<disk, saved>>
               /\ Handled(e, settled)
               /\ UNCHANGED <<skipped, passed>>
        PROVE  Outcome /\ Goes
    <2>1. /\ Carried(settled) /\ settled.mark = m.mark
          /\ settled.unresolved = m.unresolved \ {e}
      BY <1>4, <1>7, SettledCarried DEF settled, old
    <2>2. /\ memo' = settled /\ todo' = todo \ {e} /\ UNCHANGED <<stage, item, reply>>
      BY <1>7 DEF Handled
    <2>3. Persist(m, memo.since) \/ UNCHANGED <<disk, saved, passed>>
      BY <1>7
    <2>4. /\ Terminal(settled.mark[e])
          /\ \A f \in Notes \ {e} : ~ Terminal(settled.mark[f]) =>
                /\ ~ Terminal(memo.mark[f])
                /\ f \in memo.unresolved => f \in settled.unresolved
      BY <1>4, <1>7, <2>1 DEF old
    <2>5. Outcome
      BY <1>1, <1>4, <1>7, <2>1, <2>2, <2>3, <2>4, VisitOutcome
    <2> QED
      BY <2>2, <2>5
  <1>8. ASSUME /\ ~ Terminal(old) /\ OpenAttempt(old)
               /\ Handled(e, closed)
               /\ UNCHANGED <<disk, saved, skipped, passed>>
        PROVE  Outcome /\ Goes
    <2>0. Carried(m) /\ OpenAttempt(m.mark[e])
      BY <1>4, <1>8 DEF old
    <2>1. /\ Carried(closed) /\ Terminal(closed.mark[e])
          /\ \A f \in Notes \ {e} : /\ closed.mark[f] = m.mark[f]
                                    /\ f \in closed.unresolved <=> f \in m.unresolved
      <3> HIDE DEF m
      <3> QED
        BY <2>0, ClosedCarried DEF closed
    <2>2. /\ memo' = closed /\ todo' = todo \ {e} /\ UNCHANGED <<stage, item, reply>>
      BY <1>8 DEF Handled
    <2>3. /\ \A f \in Notes \ {e} : ~ Terminal(closed.mark[f]) =>
                /\ ~ Terminal(memo.mark[f])
                /\ f \in memo.unresolved => f \in closed.unresolved
      BY <1>4, <2>1
    <2>4. Outcome
      BY <1>1, <1>4, <1>8, <2>1, <2>2, <2>3, VisitOutcome
    <2> QED
      BY <2>2, <2>4
  <1>9. ASSUME /\ ~ Terminal(old)
               /\ Persist(Waiting(m, e), memo.since)
               /\ Handled(e, Waiting(m, e))
               /\ passed' = passed \ {e} /\ UNCHANGED skipped
        PROVE  Outcome /\ Goes
    <2> DEFINE t == Waiting(m, e)
    <2>1. Carried(t) /\ t.mark = m.mark /\ t.unresolved = m.unresolved \cup {e}
      BY <1>4, <1>9, WaitingCarried DEF old
    <2>2. /\ memo' = t /\ todo' = todo \ {e} /\ UNCHANGED <<stage, item, reply>>
      BY <1>9 DEF Handled
    <2>3. Persist(t, memo.since)
      BY <1>9
    <2> HIDE DEF t
    <2>4. /\ e \in t.unresolved
          /\ \A f \in Notes \ {e} : ~ Terminal(t.mark[f]) =>
                /\ ~ Terminal(memo.mark[f])
                /\ f \in memo.unresolved => f \in t.unresolved
      BY <1>4, <2>1
    <2>5. Outcome
      BY <1>1, <1>9, <2>1, <2>2, <2>3, <2>4, VisitOutcome
    <2> QED
      BY <2>2, <2>5
  <1>10. ASSUME /\ IF FindsRoot(m, e) THEN Persist(ready, memo.since) ELSE UNCHANGED <<disk, saved>>
                /\ Handled(e, ready)
                /\ skipped' = skipped \cup {e} /\ UNCHANGED passed
         PROVE  Outcome /\ Goes
    <2>1. /\ memo' = ready /\ todo' = todo \ {e} /\ UNCHANGED <<stage, item, reply>>
      BY <1>10 DEF Handled
    <2>2. Persist(ready, memo.since) \/ UNCHANGED <<disk, saved, passed>>
      BY <1>10
    <2>3. skipped \subseteq skipped' /\ e \in skipped'
      BY <1>10
    <2>4. Outcome
      BY <1>1, <1>10, <1>21, <2>1, <2>2, <2>3, VisitOutcome
    <2> QED
      BY <2>1, <2>4
  <1>11. ASSUME /\ ~ Terminal(old) /\ (OpenAttempt(old) => now - old.first <= RetryWindow)
                /\ RootReady(m, e)
                /\ Persist(goes, memo.since) /\ memo' = goes
                /\ item' = e /\ todo' = todo \ {e}
                /\ stage' = IF saved' THEN "post" ELSE "broken"
                /\ passed' = passed \ {e} /\ UNCHANGED skipped
         PROVE  Outcome /\ Goes
    <2>1. RootIn(e)
      <3>1. root = e \/ OpenAttempt(old) \/ m.mark[root].kind = "sent" \/ FindsRoot(m, e)
        BY <1>11 DEF RootReady, old
      <3>2. OpenAttempt(old) => RootIn(e)
        <4>1. Truthful(m)
          BY <1>4 DEF Carried
        <4>2. OpenAttempt(old) => m.mark[e].kind # "none"
          BY DEF OpenAttempt, old
        <4> QED
          BY <4>1, <4>2 DEF Truthful
      <3>3. m.mark[root].kind = "sent" => InFeishu(root)
        BY <1>2, <1>4 DEF Carried, Truthful
      <3> QED
        BY <1>2, <1>20, <3>1, <3>2, <3>3 DEF RootIn
    <2>2. /\ Carried(goes) /\ goes.mark[e].kind = "pending" /\ e \in goes.unresolved
          /\ now <= goes.mark[e].first + RetryWindow
          /\ \A f \in Notes \ {e} : /\ goes.mark[f] = ready.mark[f]
                                    /\ f \in goes.unresolved <=> f \in ready.unresolved
      <3>1. goes = Sending(ready, e)
        BY <1>21 DEF Sending
      <3>2. /\ now \in Clock /\ now <= clock /\ ~ Terminal(ready.mark[e])
            /\ OpenAttempt(ready.mark[e]) => now - ready.mark[e].first <= RetryWindow
        BY <1>2, <1>11, <1>21 DEF Typed
      <3> HIDE DEF goes
      <3> QED
        BY <1>21, <2>1, <3>1, <3>2, SendingCarried
    <2> HIDE DEF goes
    <2>3. ASSUME NEW f \in Notes \ {e}, ~ Terminal(goes.mark[f])
          PROVE  /\ ~ Terminal(memo.mark[f])
                 /\ f \in memo.unresolved => f \in goes.unresolved
      <3>1. ~ Terminal(ready.mark[f]) /\ (f \in goes.unresolved <=> f \in ready.unresolved)
        BY <2>2, <2>3
      <3> QED
        BY <1>21, <3>1
    <2>4. Outcome /\ disk'.mark = goes.mark
      BY <1>1, <1>11, <2>2, <2>3, VisitOutcome
    <2>5. stage' = "post"
      BY <1>11, <2>4 DEF DiskOK
    <2> QED
      BY <1>11, <2>2, <2>4, <2>5
  <1>12. Outcome /\ Goes
    BY <1>6, <1>7, <1>8, <1>9, <1>10, <1>11
  <1>13. todo' \subseteq todo /\ skipped' \subseteq arrived /\ passed' \subseteq arrived
    BY <1>1, <1>2, <1>6 DEF Handled, Typed
  <1>14. Typed'
    <2>1. item = Nobody /\ e # Nobody
      BY <1>1, <1>2, BuzzNumbers DEF Typed
    <2> QED
      BY <1>1, <1>2, <1>5, <1>12, <1>13, <2>1 DEF Typed
  <1>15. RoundOK'
    BY <1>1, <1>2, <1>12 DEF RoundOK, InPhase
  <1>16. CopiesOK'
    <2>1. \A f \in Notes : listed'[f] = "found" => InFeishu(f)'
      BY <1>1, <1>2, <1>3, <1>5 DEF CopiesOK, InFeishu
    <2> QED
      BY <1>1, <1>2, <1>12, <2>1, CopiesStay
  <1> QED
    BY <1>12, <1>14, <1>15, <1>16 DEF BuzzInv

-----------------------------------------------------------------------------
(* The other steps. *)

\* What is saved and what the round works on stay true while Feishu forgets no
\* copy and the relay wants no other event.
LEMMA StillTrue ==
    ASSUME BuzzInv, UNCHANGED <<disk, saved, memo, passed>>, copies \subseteq copies',
           clock' \in Nat, clock <= clock',
           \A e \in Notes : Wanted(e)' => Wanted(e)
    PROVE  DiskOK' /\ (Carried(memo) => Carried(memo)')
  <1>1. DiskOK /\ clock \in Nat
    BY ClockTyped DEF BuzzInv
  <1>2. DiskOK'
    BY <1>1, DiskKept
  <1>3. Carried(memo) => Carried(memo)'
    BY <1>1, CarriedKept
  <1> QED
    BY <1>2, <1>3

\* A key that Feishu remembers admits no second copy.
LEMMA ReachesOnce ==
    ASSUME Typed, CopiesOK, NEW e \in Notes, Reaches(e, 0),
           \A c \in copies : c.of = e => clock <= c.at + KeyWindow
    PROVE  /\ copies' \subseteq Posts /\ copies \subseteq copies'
           /\ \A c, d \in copies' : c.of = d.of => c = d
           /\ \A c \in copies' : c \in copies \/ (c.of = e /\ c.at = clock)
           /\ InFeishu(e)'
  <1>1. /\ copies \subseteq Posts /\ clock \in Nat
        /\ \A c, d \in copies : c.of = d.of => c = d
    BY BuzzNumbers DEF Typed, CopiesOK, Clock
  <1>2. \A c \in copies : c.key = 0 /\ c.at \in Nat
    BY <1>1 DEF Posts
  <1>3. CASE \E c \in copies : c.of = e
    <2>1. PICK c \in copies : c.of = e
      BY <1>3
    <2>2. clock - c.at <= KeyWindow
      BY <1>1, <1>2, <2>1, BuzzNumbers
    <2>3. copies' = copies
      BY <1>2, <2>1, <2>2 DEF Reaches
    <2> QED
      BY <1>1, <2>1, <2>3 DEF InFeishu
  <1>4. CASE ~ \E c \in copies : c.of = e
    <2> DEFINE p == [of |-> e, key |-> 0, at |-> clock]
    <2>1. copies' = copies \cup {p}
      BY <1>4 DEF Reaches
    <2>2. p \in Posts /\ p.of = e /\ p.at = clock
      BY <1>1 DEF Posts
    <2> HIDE DEF p
    <2> QED
      BY <1>1, <1>4, <2>1, <2>2 DEF InFeishu
  <1> QED
    BY <1>3, <1>4

\* A post that reaches Feishu leaves one copy of each event, in its order.
LEMMA Reaching ==
    ASSUME BuzzInv, NEW e \in Notes, Reaches(e, 0), disk.mark[e].kind # "none",
           \A c \in copies : c.of = e => clock <= c.at + KeyWindow,
           inAir' \subseteq inAir,
           UNCHANGED <<disk, saved, memo, clock, listed, arrived, passed>>
    PROVE  /\ CopiesOK' /\ DiskOK' /\ (Carried(memo) => Carried(memo)')
           /\ copies' \subseteq Posts /\ copies \subseteq copies' /\ InFeishu(e)'
  <1>1. Typed /\ CopiesOK /\ clock \in Nat /\ RetryWindow \in Nat /\ MaxRound \in Nat
    BY ClockTyped, BuzzNumbers DEF BuzzInv
  <1>2. /\ copies' \subseteq Posts /\ copies \subseteq copies'
        /\ \A c, d \in copies' : c.of = d.of => c = d
        /\ \A c \in copies' : c \in copies \/ (c.of = e /\ c.at = clock)
        /\ InFeishu(e)'
    BY <1>1, ReachesOnce
  <1>3. \A f \in Notes : Wanted(f)' => Wanted(f)
    BY DEF Wanted
  <1>4. DiskOK' /\ (Carried(memo) => Carried(memo)')
    BY <1>1, <1>2, <1>3, StillTrue
  <1>6. OpenAttempt(disk.mark[e]) => disk.mark[e].first <= clock
    BY DEF BuzzInv, DiskOK, Truthful
  <1>5. CopiesOK'
    <2>1. \A f \in Notes : listed'[f] = "found" => InFeishu(f)'
      BY <1>1, <1>2 DEF CopiesOK, InFeishu
    <2>2. /\ \A f \in inAir' : f.at <= clock' /\ clock' <= f.at + MaxDelay
          /\ \A f \in inAir' : disk'.mark[f.of].kind # "none"
          /\ \A c \in copies' : disk'.mark[c.of].kind # "none"
      BY <1>1, <1>2 DEF CopiesOK
    <2>3. ASSUME NEW c \in copies', OpenAttempt(disk'.mark[c.of])
          PROVE  disk'.mark[c.of].first <= c.at
      <3>1. CASE c \in copies
        BY <1>1, <2>3, <3>1 DEF CopiesOK
      <3>2. CASE c \notin copies
        BY <1>2, <1>6, <2>3, <3>2
      <3> QED
        BY <3>1, <3>2
    <2>4. ASSUME NEW c \in copies', NEW f \in inAir', c.of = f.of
          PROVE  f.at <= c.at + RetryWindow + MaxRound
      <3>1. f.at \in Nat /\ f.at <= clock
        BY <1>1 DEF CopiesOK, Typed, Posts
      <3> QED
        BY <1>1, <1>2, <2>4, <3>1 DEF CopiesOK
    <2> QED
      BY <1>2, <2>1, <2>2, <2>3, <2>4 DEF CopiesOK
  <1> QED
    BY <1>2, <1>4, <1>5

\* A post is answered, refused or lost, at once, late or never; a copy that
\* is there is no older than the first attempt.
LEMMA PostStep == BuzzInv /\ Post => BuzzInv'
  <1> SUFFICES ASSUME BuzzInv, Post PROVE BuzzInv'
    OBVIOUS
  <1>1. /\ stage = "post" /\ stage' = "answered"
        /\ UNCHANGED <<disk, memo, now, clock, todo, item, listed, skipped, arrived, saved, passed>>
    BY DEF Post
  <1>2. /\ Typed /\ DiskOK /\ RoundOK /\ CopiesOK /\ item \in Notes
        /\ Carried(memo) /\ disk.mark[item].kind = "pending" /\ memo.mark[item].kind = "pending"
        /\ clock \in Nat /\ now \in Nat /\ now <= clock /\ clock <= now + MaxRound
        /\ now <= memo.mark[item].first + RetryWindow
    BY <1>1, ClockTyped DEF BuzzInv, Typed, RoundOK
  <1>3. ASSUME NEW c \in copies, c.of = item
        PROVE  clock <= c.at + RetryWindow + MaxRound /\ clock <= c.at + KeyWindow
    <2>1. /\ c.at \in Nat /\ disk.mark[item].first \in Nat
          /\ OpenAttempt(disk.mark[item]) => disk.mark[item].first <= c.at
      <3>1. disk \in StateRecord
        BY <1>2 DEF DiskOK, Truthful
      <3> QED
        BY <1>2, <1>3, <3>1, MarkTyped DEF CopiesOK, Typed, Posts, Clock
    <2>2. memo.mark[item].first = disk.mark[item].first
      BY <1>2 DEF Carried, Ahead, OpenAttempt
    <2>3. disk.mark[item].first <= c.at
      BY <1>2, <2>1 DEF OpenAttempt
    <2> QED
      BY <1>2, <2>1, <2>2, <2>3, BuzzNumbers
  <1>4. ASSUME CopiesOK', DiskOK', Carried(memo)', copies' \subseteq Posts, inAir' \subseteq Posts,
               reply' = "ok" => \E c \in copies' : c.of = item
        PROVE  BuzzInv'
    <2>1. Typed'
      BY <1>1, <1>2, <1>4 DEF Typed
    <2>2. RoundOK'
      BY <1>1, <1>2, <1>4 DEF RoundOK, InPhase, InFeishu
    <2> QED
      BY <1>4, <2>1, <2>2 DEF BuzzInv
  <1>5. CASE Reaches(item, 0) /\ UNCHANGED inAir
    <2>1. /\ CopiesOK' /\ DiskOK' /\ Carried(memo)' /\ copies' \subseteq Posts
          /\ \E c \in copies' : c.of = item
      BY <1>1, <1>2, <1>3, <1>5, Reaching DEF InFeishu
    <2> QED
      BY <1>2, <1>4, <1>5, <2>1 DEF Typed
  <1>6. \A f \in Notes : Wanted(f)' => Wanted(f)
    BY <1>1 DEF Wanted
  <1>7. CASE UNCHANGED <<copies, inAir>> /\ reply' # "ok"
    <2>1. DiskOK' /\ Carried(memo)'
      BY <1>1, <1>2, <1>6, <1>7, StillTrue
    <2>2. CopiesOK'
      BY <1>1, <1>2, <1>7 DEF CopiesOK, InFeishu
    <2> QED
      BY <1>2, <1>4, <1>7, <2>1, <2>2 DEF Typed
  <1>8. CASE /\ UNCHANGED copies /\ reply' # "ok"
             /\ inAir' = inAir \cup {[of |-> item, key |-> 0, at |-> clock]}
    <2> DEFINE p == [of |-> item, key |-> 0, at |-> clock]
    <2>1. DiskOK' /\ Carried(memo)'
      BY <1>1, <1>2, <1>6, <1>8, StillTrue
    <2>2. p \in Posts /\ p.of = item /\ p.at = clock
      BY <1>2 DEF Posts
    <2>3. inAir' = inAir \cup {p}
      BY <1>8
    <2> HIDE DEF p
    <2>4. CopiesOK'
      <3>1. /\ \A f \in Notes : listed'[f] = "found" => InFeishu(f)'
            /\ \A c \in copies' : disk'.mark[c.of].kind # "none"
            /\ \A c, d \in copies' : c.of = d.of => c = d
        BY <1>1, <1>2, <1>8 DEF CopiesOK, InFeishu
      <3>2. \A c \in copies' : OpenAttempt(disk'.mark[c.of]) => disk'.mark[c.of].first <= c.at
        BY <1>1, <1>2, <1>8 DEF CopiesOK
      <3>3. clock <= clock + MaxDelay
        BY <1>2, BuzzNumbers
      <3>4. \A f \in inAir' : f.at <= clock' /\ clock' <= f.at + MaxDelay
        BY <1>1, <1>2, <2>2, <2>3, <3>3 DEF CopiesOK
      <3>5. \A f \in inAir' : disk'.mark[f.of].kind # "none"
        BY <1>1, <1>2, <2>2, <2>3 DEF CopiesOK
      <3>6. \A c \in copies', f \in inAir' : c.of = f.of => f.at <= c.at + RetryWindow + MaxRound
        BY <1>1, <1>2, <1>3, <1>8, <2>2, <2>3 DEF CopiesOK
      <3> QED
        BY <3>1, <3>2, <3>4, <3>5, <3>6 DEF CopiesOK
    <2> QED
      BY <1>2, <1>4, <1>8, <2>1, <2>2, <2>3, <2>4 DEF Typed
  <1> QED
    BY <1>5, <1>7, <1>8 DEF Post, Key, feishuVars

\* A late post is dropped when a copy is there: the key outlives the delay, the
\* retries and the round between the two.
LEMMA LateStep ==
    ASSUME BuzzInv, NEW f \in inAir, Late(f)
    PROVE  BuzzInv'
  <1>1. /\ inAir' = inAir \ {f} /\ Reaches(f.of, f.key)
        /\ UNCHANGED <<disk, memo, stage, now, todo, item, reply, listed, skipped, clock, arrived, saved, passed>>
    BY DEF Late, roundVars
  <1>2. /\ Typed /\ DiskOK /\ RoundOK /\ CopiesOK
        /\ f.of \in Notes /\ f.key = 0 /\ f.at \in Nat /\ clock \in Nat
        /\ clock <= f.at + MaxDelay /\ disk.mark[f.of].kind # "none"
    BY ClockTyped DEF BuzzInv, Typed, CopiesOK, Posts
  <1>3. ASSUME NEW c \in copies, c.of = f.of
        PROVE  clock <= c.at + KeyWindow
    <2>1. c.at \in Nat /\ f.at <= c.at + RetryWindow + MaxRound
      BY <1>2, <1>3 DEF CopiesOK, Typed, Posts
    <2> QED
      BY <1>2, <2>1, BuzzNumbers
  <1>4. /\ CopiesOK' /\ DiskOK' /\ (Carried(memo) => Carried(memo)')
        /\ copies' \subseteq Posts /\ copies \subseteq copies'
    BY <1>1, <1>2, <1>3, Reaching
  <1>5. Typed'
    BY <1>1, <1>2, <1>4 DEF Typed
  <1>6. RoundOK'
    BY <1>1, <1>2, <1>4 DEF RoundOK, InPhase, InFeishu
  <1> QED
    BY <1>4, <1>5, <1>6 DEF BuzzInv

\* The answer: a delivery is saved at once, a refusal or the lack of an answer
\* only remembered.
LEMMA AnsweredStep == BuzzInv /\ PostAnswered => BuzzInv'
  <1> SUFFICES ASSUME BuzzInv, PostAnswered PROVE BuzzInv'
    OBVIOUS
  <1>1. /\ stage = "answered" /\ stage' = "loop" /\ item' = Nobody /\ reply' = "none"
        /\ UNCHANGED <<now, clock, todo, listed, skipped, arrived, copies, inAir, passed>>
    BY DEF PostAnswered, feishuVars
  <1>2. /\ Typed /\ DiskOK /\ RoundOK /\ CopiesOK /\ item \in Notes
        /\ Carried(memo) /\ memo.since = disk.since
        /\ memo.mark[item].kind = "pending" /\ item \in memo.unresolved
        /\ RootIn(item) /\ clock \in Clock
        /\ disk.since \in Clock /\ disk.since <= clock
    <2>1. Typed /\ DiskOK /\ RoundOK /\ CopiesOK /\ item \in Notes
      BY <1>1 DEF BuzzInv, Typed
    <2>2. /\ Carried(memo) /\ memo.mark[item].kind = "pending" /\ item \in memo.unresolved
      BY <1>1, <2>1 DEF RoundOK
    <2> QED
      BY <2>1, <2>2 DEF Carried, Truthful, Ahead, DiskOK, StateRecord, Typed
  <1>3. ASSUME DiskOK', Carried(memo)',
               MarksKept,
               \A f \in Notes \ {item} : ~ Terminal(memo'.mark[f]) =>
                  /\ ~ Terminal(memo.mark[f])
                  /\ f \in memo.unresolved => f \in memo'.unresolved,
               Terminal(memo'.mark[item]) \/ item \in memo'.unresolved
        PROVE  BuzzInv'
    <2>1. Typed'
      BY <1>1, <1>2 DEF Typed
    <2>2. ASSUME NEW f \in arrived', ~ Terminal(memo'.mark[f])
          PROVE  \/ f \in todo' \/ f \in memo'.unresolved
                 \/ now' <= NoteAt[f] + Overlap \/ f \in skipped' \cup passed'
      <3>1. f \in Notes /\ f \in arrived
        BY <1>1, <1>2, <2>2 DEF Typed
      <3>2. CASE f = item
        BY <1>3, <2>2, <3>2
      <3>3. CASE f # item
        <4>1. ~ Terminal(memo.mark[f]) /\ (f \in memo.unresolved => f \in memo'.unresolved)
          BY <1>3, <2>2, <3>1, <3>3
        <4> QED
          BY <1>1, <1>2, <3>1, <4>1 DEF RoundOK, InPhase
      <3> QED
        BY <3>2, <3>3
    <2>3. RoundOK'
      BY <1>1, <1>2, <1>3, <2>2 DEF RoundOK, InPhase
    <2>4. CopiesOK'
      <3>1. \A f \in Notes : listed'[f] = "found" => InFeishu(f)'
        BY <1>1, <1>2 DEF CopiesOK, InFeishu
      <3> QED
        BY <1>1, <1>2, <1>3, <3>1, CopiesStay
    <2> QED
      BY <1>3, <2>1, <2>3, <2>4 DEF BuzzInv
  <1>4. ASSUME NEW m, m = [Sent(memo, item) EXCEPT !.tries[item] = 0],
               reply = "ok", memo' = m, Persist(m, memo.since)
        PROVE  BuzzInv'
    <2>1. InFeishu(item)
      BY <1>1, <1>2, <1>4 DEF RoundOK
    <2>2. /\ Carried(m) /\ m.mark[item].kind = "sent"
          /\ \A f \in Notes \ {item} : /\ m.mark[f] = memo.mark[f]
                                       /\ f \in m.unresolved <=> f \in memo.unresolved
      BY <1>2, <1>4, <2>1, DeliveredCarried
    <2>3. DiskOK' /\ disk'.mark = m.mark /\ disk'.since = disk.since /\ MarksKept
      BY <1>1, <1>2, <1>4, <2>2, Saving
    <2>4. Carried(m)'
      BY <1>1, <2>2, <2>3, Resaved
    <2>5. Terminal(m.mark[item])
      BY <2>2 DEF Terminal
    <2> QED
      BY <1>3, <1>4, <2>2, <2>3, <2>4, <2>5
  <1>5. ASSUME NEW m, m = memo \/ m = AfterRefusal(memo, item),
               memo' = m, UNCHANGED <<disk, saved>>
        PROVE  BuzzInv'
    <2>1. /\ Carried(m)
          /\ \A f \in Notes \ {item} : /\ m.mark[f] = memo.mark[f]
                                       /\ f \in m.unresolved <=> f \in memo.unresolved
          /\ Terminal(m.mark[item]) \/ item \in m.unresolved
      BY <1>2, <1>5, RefusedCarried
    <2>2. \A f \in Notes : Wanted(f)' => Wanted(f)
      BY <1>1 DEF Wanted
    <2>3. DiskOK'
      BY <1>1, <1>2, <1>5, <2>2, DiskKept, ClockTyped
    <2>4. Carried(m)'
      BY <1>1, <1>2, <1>5, <2>1, <2>2, CarriedKept, ClockTyped
    <2>5. MarksKept
      BY <1>5 DEF MarksKept
    <2> QED
      BY <1>3, <1>5, <2>1, <2>3, <2>4, <2>5
  <1> QED
    BY <1>4, <1>5 DEF PostAnswered

-----------------------------------------------------------------------------
(* The frame of the round. *)

\* A round begins.
LEMMA StartStep == BuzzInv /\ StartRound => BuzzInv'
  <1> SUFFICES ASSUME BuzzInv, StartRound PROVE BuzzInv'
    OBVIOUS
  <1>1. /\ memo' = GivenUp(disk) /\ now' = clock /\ stage = "idle" /\ stage' = "read"
        /\ listed' = [e \in Notes |-> "unread"]
        /\ UNCHANGED <<disk, clock, todo, item, reply, skipped, arrived, copies, inAir, saved, passed>>
    BY DEF StartRound, feishuVars
  <1>2. Typed /\ DiskOK /\ CopiesOK /\ clock \in Nat /\ MaxRound \in Nat
    BY ClockTyped, BuzzNumbers DEF BuzzInv
  <1>3. \A e \in Notes : Wanted(e)' => Wanted(e)
    BY <1>1 DEF Wanted
  <1>4. Carried(memo)'
    <2>1. Carried(GivenUp(disk))
      BY <1>2, GivenUpCarried
    <2>2. ASSUME NEW m, m = GivenUp(disk), Carried(m) PROVE Carried(memo)'
      <3>1. Carried(m)'
        BY <1>1, <1>2, <1>3, <2>2, CarriedKept
      <3> QED
        BY <1>1, <2>2, <3>1
    <2> QED
      BY <2>1, <2>2
  <1>5. DiskOK'
    BY <1>1, <1>2, <1>3, DiskKept
  <1>6. Typed'
    BY <1>1, <1>2 DEF Typed
  <1>7. RoundOK'
    BY <1>1, <1>2, <1>4 DEF RoundOK, InPhase
  <1>8. CopiesOK'
    <2>1. \A c \in copies : c.of \in Notes
      BY <1>2 DEF Typed, Posts
    <2> QED
      BY <1>1, <1>2, <2>1 DEF CopiesOK, InFeishu
  <1> QED
    BY <1>5, <1>6, <1>7, <1>8 DEF BuzzInv

\* The read takes up every wanted event that is neither settled nor passed.
LEMMA RelayReadStep == BuzzInv /\ ReadRelay => BuzzInv'
  <1> SUFFICES ASSUME BuzzInv, ReadRelay PROVE BuzzInv'
    OBVIOUS
  <1>1. /\ stage = "read" /\ stage' = "loop"
        /\ todo' = {e \in arrived : NoteAt[e] >= ReadSince(memo)}
        /\ UNCHANGED <<disk, memo, now, clock, item, reply, listed, skipped, arrived, copies, inAir, saved, passed>>
    BY DEF ReadRelay, feishuVars
  <1>2. Typed /\ DiskOK /\ RoundOK /\ CopiesOK /\ Carried(memo) /\ clock \in Nat
    BY <1>1, ClockTyped DEF BuzzInv, RoundOK
  <1>3. \A e \in Notes : Wanted(e)' => Wanted(e)
    BY <1>1 DEF Wanted
  <1>4. DiskOK' /\ Carried(memo)'
    BY <1>1, <1>2, <1>3, StillTrue
  <1>5. ASSUME NEW e \in arrived, ~ Terminal(memo.mark[e]), e \notin passed
        PROVE  e \in todo'
    <2>1. e \in Notes /\ Wanted(e) /\ NoteAt[e] >= Floor
      BY <1>2 DEF Typed, Wanted
    <2>2. /\ memo.since \in Nat /\ memo.unresolved \subseteq Notes
          /\ e \in memo.unresolved \/ memo.since <= NoteAt[e] + Overlap
      BY <1>2, <1>5, <2>1, BuzzNumbers DEF Carried, Truthful, Covered, StateRecord, Clock
    <2>3. ReadSince(memo) <= NoteAt[e]
      BY <2>1, <2>2, ReadCovers
    <2> QED
      BY <1>1, <2>3
  <1>6. Typed'
    BY <1>1, <1>2 DEF Typed
  <1>7. RoundOK'
    BY <1>1, <1>2, <1>4, <1>5 DEF RoundOK, InPhase
  <1>8. CopiesOK'
    BY <1>1, <1>2 DEF CopiesOK, InFeishu
  <1> QED
    BY <1>4, <1>6, <1>7, <1>8 DEF BuzzInv

\* A failed read only ends the phase.
LEMMA FailStep == BuzzInv /\ PhaseFails => BuzzInv'
  <1> SUFFICES ASSUME BuzzInv, PhaseFails PROVE BuzzInv'
    OBVIOUS
  <1>1. /\ stage \in {"read", "loop"} /\ stage' = "broken"
        /\ todo' = {}
        /\ UNCHANGED <<disk, memo, now, clock, item, reply, listed, skipped, arrived, copies, inAir, saved, passed>>
    BY DEF PhaseFails, feishuVars
  <1>2. Typed /\ RoundOK /\ CopiesOK /\ Carried(memo) /\ clock \in Nat
    BY <1>1, ClockTyped DEF BuzzInv, RoundOK
  <1>3. \A e \in Notes : Wanted(e)' => Wanted(e)
    BY <1>1 DEF Wanted
  <1>4. DiskOK' /\ Carried(memo)'
    BY <1>1, <1>2, <1>3, StillTrue
  <1>5. Typed'
    BY <1>1, <1>2 DEF Typed
  <1>6. RoundOK'
    BY <1>1, <1>2, <1>4 DEF RoundOK, InPhase
  <1>7. CopiesOK'
    BY <1>1, <1>2 DEF CopiesOK, InFeishu
  <1> QED
    BY <1>4, <1>5, <1>6, <1>7 DEF BuzzInv

\* A round that is over leaves what is saved, and nothing in memory.
LEMMA ForgottenStep ==
    ASSUME BuzzInv, Forgotten, DiskOK', MarksKept, UNCHANGED <<clock, arrived, copies, inAir>>,
           passed' \subseteq arrived
    PROVE  BuzzInv'
  <1>1. Typed /\ CopiesOK /\ Floor \in Clock
    BY BuzzNumbers DEF BuzzInv, Clock
  <1>2. /\ memo' = Empty /\ stage' = "idle" /\ now' = Floor /\ todo' = {}
        /\ item' = Nobody /\ listed' = [e \in Notes |-> "unread"] /\ skipped' = {}
    BY DEF Forgotten
  <1>3. Typed'
    BY <1>1, <1>2 DEF Typed
  <1>4. RoundOK'
    BY <1>2 DEF RoundOK, InPhase
  <1>5. CopiesOK'
    <2>1. \A e \in Notes : listed'[e] = "found" => InFeishu(e)'
      BY <1>2
    <2> QED
      BY <1>1, <2>1, CopiesStay
  <1> QED
    BY <1>3, <1>4, <1>5 DEF BuzzInv

\* A phase that is over commits its time only when nothing it read is open
\* outside the retries.
LEMMA EndStep == BuzzInv /\ EndPhase => BuzzInv'
  <1> SUFFICES ASSUME BuzzInv, EndPhase PROVE BuzzInv'
    OBVIOUS
  <1>1. PICK partial \in BOOLEAN :
           /\ stage = "broken" => partial
           /\ Persist(memo, EndCursor(partial))
           /\ passed' = passed \cup LeftBehind(partial)
    BY DEF EndPhase
  <1>2. /\ stage = "broken" \/ (stage = "loop" /\ todo = {})
        /\ Forgotten /\ UNCHANGED <<clock, arrived, copies, inAir>>
    BY DEF EndPhase, feishuVars
  <1>3. /\ Typed /\ DiskOK /\ RoundOK /\ Carried(memo) /\ memo.since = disk.since
        /\ disk.since \in Clock /\ disk.since <= clock
        /\ clock \in Clock /\ now \in Clock /\ now <= clock
    <2>1. Typed /\ DiskOK /\ RoundOK /\ Carried(memo)
      BY <1>2 DEF BuzzInv, RoundOK
    <2> QED
      BY <2>1 DEF Carried, Ahead, DiskOK, Truthful, StateRecord, Typed
  <1>4. DiskOK' /\ MarksKept
    <2>1. CASE partial
      <3>1. Persist(memo, disk.since)
        BY <1>1, <1>3, <2>1 DEF EndCursor
      <3> QED
        BY <1>1, <1>2, <1>3, <3>1, Saving
    <2>2. CASE ~ partial
      <3>1. stage = "loop" /\ todo = {} /\ Persist(memo, now)
        BY <1>1, <1>2, <2>2 DEF EndCursor
      <3>2. ASSUME NEW e \in Notes, Wanted(e), ~ Terminal(memo.mark[e])
            PROVE  e \in memo.unresolved \/ now <= NoteAt[e] + Overlap \/ e \in passed'
        <4>0. NoteAt[e] + Overlap \in Nat /\ now \in Nat
          BY <1>3, BuzzNumbers DEF Clock
        <4>1. CASE e \in arrived
          <5>1. e \in memo.unresolved \/ now <= NoteAt[e] + Overlap \/ e \in skipped \cup passed
            BY <1>3, <3>1, <3>2, <4>1 DEF RoundOK, InPhase
          <5> QED
            BY <1>1, <2>2, <4>0, <5>1 DEF LeftBehind
        <4>2. CASE e \notin arrived
          <5>1. clock <= NoteAt[e] + Overlap
            BY <3>2, <4>2 DEF Wanted
          <5>2. NoteAt[e] + Overlap \in Nat /\ clock \in Nat /\ now \in Nat
            BY <1>3, BuzzNumbers DEF Clock
          <5> QED
            BY <1>3, <5>1, <5>2
        <4> QED
          BY <4>1, <4>2
      <3>3. Covered(memo, now, passed')
        BY <3>2 DEF Covered
      <3> QED
        BY <1>1, <1>2, <1>3, <3>1, <3>3, Saving
    <2> QED
      BY <2>1, <2>2
  <1>5. passed' \subseteq arrived
    BY <1>1, <1>3 DEF Typed, LeftBehind
  <1> QED
    BY <1>2, <1>4, <1>5, ForgottenStep

\* A crash leaves what is saved.
LEMMA CrashStep == BuzzInv /\ CrashRound => BuzzInv'
  <1> SUFFICES ASSUME BuzzInv, CrashRound PROVE BuzzInv'
    OBVIOUS
  <1>1. Forgotten /\ UNCHANGED <<disk, saved, clock, arrived, copies, inAir, passed>>
    BY DEF CrashRound, feishuVars
  <1>2. \A e \in Notes : Wanted(e)' => Wanted(e)
    BY <1>1 DEF Wanted
  <1>3. DiskOK'
    BY <1>1, <1>2, DiskKept, ClockTyped DEF BuzzInv
  <1>4. MarksKept /\ passed' \subseteq arrived
    BY <1>1 DEF MarksKept, BuzzInv, Typed
  <1> QED
    BY <1>1, <1>3, <1>4, ForgottenStep

\* The relay takes an event that is not older than the overlap.
LEMMA ArriveStep ==
    ASSUME BuzzInv, NEW e \in Notes, Arrive(e)
    PROVE  BuzzInv'
  <1>1. /\ arrived' = arrived \cup {e} /\ NoteAt[e] >= Floor /\ clock <= NoteAt[e] + Overlap
        /\ UNCHANGED <<disk, memo, stage, now, todo, item, reply, listed, skipped, clock, copies, inAir, saved, passed>>
    BY DEF Arrive, roundVars, feishuVars
  <1>2. /\ Typed /\ RoundOK /\ CopiesOK /\ clock \in Nat /\ now \in Nat /\ now <= clock
        /\ NoteAt[e] + Overlap \in Nat
    BY ClockTyped, BuzzNumbers DEF BuzzInv, Typed
  <1>3. \A f \in Notes : Wanted(f)' => Wanted(f)
    BY <1>1 DEF Wanted
  <1>4. DiskOK' /\ (Carried(memo) => Carried(memo)')
    BY <1>1, <1>2, <1>3, StillTrue
  <1>5. Typed'
    BY <1>1, <1>2 DEF Typed
  <1>6. RoundOK'
    <2>1. now <= NoteAt[e] + Overlap
      BY <1>1, <1>2
    <2> QED
      BY <1>1, <1>2, <1>4, <2>1 DEF RoundOK, InPhase, InFeishu
  <1>7. CopiesOK'
    BY <1>1, <1>2 DEF CopiesOK, InFeishu
  <1> QED
    BY <1>4, <1>5, <1>6, <1>7 DEF BuzzInv

\* Time passes, in a round no longer than one lasts.
LEMMA TickStep == BuzzInv /\ Tick => BuzzInv'
  <1> SUFFICES ASSUME BuzzInv, Tick PROVE BuzzInv'
    OBVIOUS
  <1>1. /\ clock < MaxClock /\ clock' = clock + 1
        /\ stage # "idle" => clock - now < MaxRound
        /\ inAir' = {f \in inAir : clock < f.at + MaxDelay}
        /\ UNCHANGED <<disk, memo, stage, now, todo, item, reply, listed, skipped, arrived, copies, saved, passed>>
    BY DEF Tick, roundVars
  <1>2. /\ Typed /\ RoundOK /\ CopiesOK /\ clock \in Nat /\ now \in Nat /\ now <= clock
        /\ MaxRound \in Nat /\ MaxClock \in Nat /\ Floor \in Nat /\ Floor <= clock
    BY ClockTyped, BuzzNumbers DEF BuzzInv, Typed
  <1>3. clock' \in Nat /\ clock <= clock'
    BY <1>1, <1>2
  <1>4. \A f \in Notes : Wanted(f)' => Wanted(f)
    BY <1>1, <1>2, <1>3, WantedKept
  <1>5. DiskOK' /\ (Carried(memo) => Carried(memo)')
    BY <1>1, <1>3, <1>4, StillTrue
  <1>6. Typed'
    <2>1. clock' \in Clock /\ now' <= clock' /\ Floor <= clock'
      BY <1>1, <1>2 DEF Clock
    <2> QED
      BY <1>1, <1>2, <2>1 DEF Typed
  <1>7. RoundOK'
    <2>1. stage # "idle" => clock' <= now + MaxRound
      BY <1>1, <1>2
    <2> QED
      BY <1>1, <1>2, <1>5, <2>1 DEF RoundOK, InPhase, InFeishu
  <1>8. CopiesOK'
    <2>1. \A f \in inAir' : f.at <= clock' /\ clock' <= f.at + MaxDelay
      <3>1. /\ \A f \in inAir : f.at \in Nat /\ f.at <= clock
            /\ MaxDelay \in Nat
        BY <1>2, BuzzNumbers DEF CopiesOK, Typed, Posts
      <3> QED
        BY <1>1, <1>2, <3>1
    <2>2. inAir' \subseteq inAir
      BY <1>1
    <2> QED
      BY <1>1, <1>2, <2>1, <2>2 DEF CopiesOK, InFeishu
  <1> QED
    BY <1>5, <1>6, <1>7, <1>8 DEF BuzzInv

-----------------------------------------------------------------------------
(* The specification. *)

\* The binding begins with nothing recorded and nothing posted.
LEMMA BuzzStart == BuzzInit => BuzzInv
  <1> SUFFICES ASSUME BuzzInit PROVE BuzzInv
    OBVIOUS
  <1>1. /\ disk = Empty /\ memo = Empty /\ stage = "idle" /\ now = Floor /\ clock = Floor
        /\ todo = {} /\ item = Nobody /\ listed = [e \in Notes |-> "unread"]
        /\ skipped = {} /\ passed = {}
        /\ arrived = {} /\ copies = {} /\ inAir = {} /\ saved = TRUE
    BY DEF BuzzInit
  <1>2. Floor \in Nat /\ Floor \in Clock
    BY BuzzNumbers DEF Clock
  <1>3. /\ Empty \in StateRecord /\ Empty.since = Floor /\ Empty.f2b = {}
        /\ \A e \in Notes : /\ Empty.mark[e].kind = "none" /\ Empty.tries[e] = 0
                            /\ Empty.row[e] = "absent"
    <2>1. NoMark \in [kind : Kinds, first : Clock] /\ NoMark.kind = "none"
      BY BuzzNumbers DEF NoMark, Kinds, Clock
    <2>2. 0 \in 0 .. MaxTries /\ "absent" \in RowStates
      BY BuzzNumbers DEF RowStates
    <2> QED
      BY <1>2, <2>1, <2>2 DEF Empty, StateRecord
  <1>4. Typed
    BY <1>1, <1>2 DEF Typed
  <1>5. DiskOK
    <2>1. Truthful(disk)
      BY <1>1, <1>3, BuzzNumbers DEF Truthful, Terminal, OpenAttempt
    <2>2. Covered(disk, disk.since, passed)
      <3>1. \A e \in Notes : NoteAt[e] \in Nat /\ (NoteAt[e] >= Floor => Floor <= NoteAt[e] + Overlap)
        BY BuzzNumbers
      <3> QED
        BY <1>1, <1>3, <3>1 DEF Covered, Wanted
    <2>3. disk.since <= clock
      BY <1>1, <1>2, <1>3
    <2>4. \A e \in Notes : disk.row[e] = RowOf(disk.mark[e].kind)
      BY <1>1, <1>3 DEF RowOf
    <2> QED
      BY <1>1, <2>1, <2>2, <2>3, <2>4 DEF DiskOK
  <1>6. RoundOK
    BY <1>1 DEF RoundOK, InPhase
  <1>7. CopiesOK
    BY <1>1 DEF CopiesOK
  <1> QED
    BY <1>4, <1>5, <1>6, <1>7 DEF BuzzInv

\* A step that changes nothing.
LEMMA QuietStep == BuzzInv /\ UNCHANGED buzzVars => BuzzInv'
  <1> SUFFICES ASSUME BuzzInv, UNCHANGED buzzVars PROVE BuzzInv'
    OBVIOUS
  <1>1. UNCHANGED <<disk, memo, stage, now, todo, item, reply, listed, skipped, clock, arrived,
                    copies, inAir, saved, passed>>
    BY DEF buzzVars, roundVars, feishuVars
  <1>2. Typed /\ RoundOK /\ CopiesOK /\ clock \in Nat
    BY ClockTyped DEF BuzzInv
  <1>3. \A e \in Notes : Wanted(e)' => Wanted(e)
    BY <1>1 DEF Wanted
  <1>4. DiskOK' /\ (Carried(memo) => Carried(memo)')
    BY <1>1, <1>2, <1>3, StillTrue
  <1>5. Typed'
    BY <1>1, <1>2 DEF Typed
  <1>6. RoundOK'
    BY <1>1, <1>2, <1>4 DEF RoundOK, InPhase, InFeishu
  <1>7. CopiesOK'
    BY <1>1, <1>2 DEF CopiesOK, InFeishu
  <1> QED
    BY <1>4, <1>5, <1>6, <1>7 DEF BuzzInv

\* The invariant holds throughout.
LEMMA BuzzIsInvariant == BuzzSpec => []BuzzInv
  <1>1. BuzzInit => BuzzInv
    BY BuzzStart
  <1>2. BuzzInv /\ [BuzzNext]_buzzVars => BuzzInv'
    <2> SUFFICES ASSUME BuzzInv, [BuzzNext]_buzzVars PROVE BuzzInv'
      OBVIOUS
    <2>1. CASE StartRound
      BY <2>1, StartStep
    <2>2. CASE ReadRelay
      BY <2>2, RelayReadStep
    <2>3. CASE PhaseFails
      BY <2>3, FailStep
    <2>4. ASSUME NEW e \in Notes, Visit(e) PROVE BuzzInv'
      BY <2>4, VisitStep
    <2>5. CASE Post
      BY <2>5, PostStep
    <2>6. CASE PostAnswered
      BY <2>6, AnsweredStep
    <2>7. CASE EndPhase
      BY <2>7, EndStep
    <2>8. CASE CrashRound
      BY <2>8, CrashStep
    <2>9. CASE Tick
      BY <2>9, TickStep
    <2>10. ASSUME NEW e \in Notes, Arrive(e) PROVE BuzzInv'
      BY <2>10, ArriveStep
    <2>11. ASSUME NEW f \in inAir, Late(f) PROVE BuzzInv'
      BY <2>11, LateStep
    <2>12. CASE UNCHANGED buzzVars
      BY <2>12, QuietStep
    <2> QED
      BY <2>1, <2>2, <2>3, <2>4, <2>5, <2>6, <2>7, <2>8, <2>9, <2>10, <2>11, <2>12
         DEF BuzzNext, RoundStep
  <1> QED
    BY <1>1, <1>2, PTL DEF BuzzSpec

\* A carried state is a well-formed one.
LEMMA StateIsOK ==
    ASSUME NEW s, Truthful(s)
    PROVE  StateOK(s)
  BY DEF Truthful, StateRecord, StateOK

\* What Feishu holds and what is saved of it agree: at most one copy of each
\* event, a root before its replies, no save refused, and no copy without a row
\* (buzz_feishu_group_sync.py buzz_to_feishu, delivery_mapping.py, state_store.py).
THEOREM BuzzIsSafe == BuzzSpec => []BuzzSafe
  <1>1. BuzzInv => BuzzSafe
    <2> SUFFICES ASSUME BuzzInv PROVE BuzzSafe
      OBVIOUS
    <2>1. Typed /\ DiskOK /\ RoundOK /\ CopiesOK
      BY DEF BuzzInv
    <2>2. BuzzTypeOK
      <3>1. StateOK(disk)
        BY <2>1, StateIsOK DEF DiskOK
      <3>2. StateOK(memo)
        <4>1. CASE stage = "idle"
          <5>1. NoMark \in [kind : Kinds, first : Clock] /\ 0 \in 0 .. MaxTries /\ Floor \in Clock
            BY BuzzNumbers DEF NoMark, Kinds, Clock
          <5> QED
            BY <2>1, <4>1, <5>1 DEF RoundOK, Empty, StateOK, RowStates
        <4>2. CASE stage # "idle"
          BY <2>1, <4>2, StateIsOK DEF RoundOK, Carried
        <4> QED
          BY <4>1, <4>2
      <3> QED
        BY <2>1, <3>1, <3>2 DEF Typed, BuzzTypeOK
    <2>3. OneCopy
      <3> SUFFICES ASSUME NEW e \in Notes
                   PROVE  Cardinality({c \in copies : c.of = e}) <= 1
        BY DEF OneCopy
      <3>1. \A c, d \in {c \in copies : c.of = e} : c = d
        BY <2>1 DEF CopiesOK
      <3>2. CASE {c \in copies : c.of = e} = {}
        BY <3>2, FS_EmptySet
      <3>3. CASE {c \in copies : c.of = e} # {}
        <4>1. PICK c : {d \in copies : d.of = e} = {c}
          BY <3>1, <3>3
        <4>2. Cardinality({c}) = 1
          BY FS_Singleton
        <4> QED
          BY <4>1, <4>2
      <3> QED
        BY <3>2, <3>3
    <2>4. RootBeforeReply
      BY <2>1, RootOfCopy DEF RootBeforeReply, RootIn
    <2>5. SaveAccepted
      <3>1. ASSUME NEW e \in Notes, InFeishu(e)
            PROVE  disk.row[e] # "absent"
        <4>1. disk.mark[e].kind # "none" /\ disk.mark[e].kind \in Kinds
          BY <2>1, <3>1, MarkTyped DEF CopiesOK, InFeishu, DiskOK, Truthful
        <4> QED
          BY <2>1, <4>1 DEF DiskOK, RowOf, Kinds
      <3> QED
        BY <2>1, <3>1 DEF SaveAccepted, DiskOK, Truthful
    <2> QED
      BY <2>2, <2>3, <2>4, <2>5 DEF BuzzSafe
  <1> QED
    BY <1>1, BuzzIsInvariant, PTL

\* The saved cursor and retries never lose an event that is not settled, but
\* for a reply that was skipped when older than the overlap
\* (_advance_cursor, buzz_since and the unresolved retries).
THEOREM NoEventIsMissed == BuzzSpec => []NothingMissed
  <1>1. BuzzInv => NothingMissed
    <2> SUFFICES ASSUME BuzzInv, NEW e \in Notes \ passed, NoteAt[e] >= Floor,
                        e \in arrived \/ clock <= NoteAt[e] + Overlap,
                        ~ Terminal(disk.mark[e])
                 PROVE  NoteAt[e] >= ReadSince(disk)
      BY DEF NothingMissed
    <2>1. /\ disk.since \in Nat /\ disk.unresolved \subseteq Notes
          /\ e \in disk.unresolved \/ disk.since <= NoteAt[e] + Overlap
      BY BuzzNumbers DEF BuzzInv, DiskOK, Truthful, Covered, Wanted, StateRecord, Clock
    <2>2. ReadSince(disk) <= NoteAt[e]
      BY <2>1, ReadCovers
    <2> QED
      BY <2>2
  <1> QED
    BY <1>1, BuzzIsInvariant, PTL

-----------------------------------------------------------------------------
(* The Feishu phase. *)

RowKinds  == {"absent", "new", "leased", "due", "done"}
MarkKinds == {"none", "pending", "retry", "sent", "unknown", "failed"}
Marks     == [kind : MarkKinds, first : Nat]
Events    == [of : Messages, first : Nat, text : Nat]
Scans     == [scope : Nat, start : Times, end : Times, token : Messages \cup {0}, complete : BOOLEAN]
Working   == {"publish", "accepted", "refused"}
Phases    == {"idle", "page", "first", "drain"} \cup Working

IngestTypes ==
    /\ visible \subseteq Messages /\ waits \subseteq Messages /\ context \subseteq Messages
    /\ time \in Times /\ since \in Times /\ at \in Times
    /\ names \in Nat /\ query \in Nat /\ trouble \in Nat
    /\ scan \in Scans
    /\ row \in [Messages -> RowKinds]
    /\ due \in Seq(Messages) /\ leases \in Seq(Messages) /\ batch \in Seq(Messages)
    /\ mark \in [Messages -> Marks] /\ tries \in [Messages -> 0 .. Attempts]
    /\ sealed \in [Messages -> Events \cup {NoEvent}] /\ sending \in Events \cup {NoEvent}
    /\ relay \subseteq Events /\ coming \subseteq Events
    /\ phase \in Phases

\* The rows, the order of their leases and the batch agree.
QueueOK ==
    /\ IsInjective(due) /\ ToSet(due) = {m \in Messages : row[m] = "due"}
    /\ IsInjective(leases) /\ ToSet(leases) = {m \in Messages : row[m] = "leased"}
    /\ IsInjective(batch) /\ \A m \in ToSet(batch) : row[m] \in {"new", "due"}
    /\ Cardinality(Pending) <= Capacity

\* What waits has a row, and while that is pending a round knows of it.
WaitOK ==
    /\ \A m \in waits : row[m] # "absent"
    /\ phase # "idle" => waits \cap Pending \subseteq context

\* The event on its way was decided and sealed under a lease; every event that
\* was ever sent is the one its delivery was sealed with.
SealOK ==
    /\ (sending # NoEvent) = (phase \in Working)
    /\ phase \in Working => /\ row[sending.of] = "leased"
                            /\ mark[sending.of].kind = "pending"
                            /\ sealed[sending.of] = sending
    /\ \A e \in relay \cup coming : sealed[e.of] = e

\* What a mark says, and what it keeps of the first attempt.
MarkOK(m) ==
    /\ row[m] = "done" => ClosedMark(m)
    /\ ~ ClosedMark(m) => tries[m] < Attempts
    /\ sealed[m] # NoEvent => sealed[m].of = m /\ sealed[m].text <= names
    /\ sealed[m] # NoEvent /\ ~ ClosedMark(m) => OpenMark(m) /\ mark[m].first = sealed[m].first
    /\ mark[m].kind = "unknown" => names > 0 \/ time - SentAt[m] > GiveUpAfter

\* The history shows m or may show it yet, and nothing is known of it.
Unread(m) ==
    /\ SentAt[m] >= ScanFloor
    /\ m \in visible \/ time <= SentAt[m] + Lag[m]
    /\ row[m] = "absent" /\ ~ ClosedMark(m)

\* The interval behind the cursor is read; an unread message is in the rest of
\* the scan or late enough for the next.
ReadOK ==
    /\ scan.start <= scan.end /\ scan.end <= time /\ since <= scan.end
    /\ ScanFloor <= time
    /\ \A m \in visible : SentAt[m] <= time
    /\ \A m \in Messages :
          Unread(m) => \/ ~ scan.complete /\ InScan(m, scan)
                       \/ SentAt[m] >= AfterComplete(scan)

IngestInv == IngestTypes /\ QueueOK /\ WaitOK /\ SealOK /\ (\A m \in Messages : MarkOK(m)) /\ ReadOK

\* What the constants are.
LEMMA IngestFacts ==
    /\ IsFiniteSet(Messages) /\ \A m \in Messages : m \in Nat /\ m >= 1
    /\ \A m \in Messages : SentAt[m] \in Nat /\ ThreadOf[m] \in Messages
    /\ \A m \in Messages : Lag[m] \in Nat /\ Lag[m] <= ScanOverlap
    /\ ScanOverlap \in Nat /\ ContextWindow \in Nat /\ GiveUpAfter \in Nat /\ ScanFloor \in Nat
    /\ LastTime \in Nat /\ MaxNames \in Nat /\ MaxTrouble \in Nat /\ ScanFloor <= LastTime
    /\ PageRows \in Nat /\ PageRows >= 1 /\ Drain \in Nat /\ Drain >= 1
    /\ Capacity \in Nat /\ Capacity >= 1 /\ Attempts \in Nat /\ Attempts >= 1
    /\ Times \subseteq Nat /\ ScanFloor \in Times
  BY IngestAssumption DEF IngestAssumption, Times

\* A set of messages is finite.
LEMMA MessageSets ==
    ASSUME NEW S, S \subseteq Messages
    PROVE  IsFiniteSet(S) /\ Cardinality(S) \in Nat /\ S \subseteq Int
  <1>1. IsFiniteSet(S)
    BY IngestFacts, FS_Subset
  <1> QED
    BY <1>1, IngestFacts, FS_CardinalityType

-----------------------------------------------------------------------------
(* The order of the history. *)

Sorts(s, S) == /\ s \in [1 .. Cardinality(S) -> S]
               /\ \A i, j \in DOMAIN s : i < j => s[i] < s[j]

\* A finite set of numbers has its order.
LEMMA SortExists ==
    ASSUME NEW S, S \subseteq Int, IsFiniteSet(S)
    PROVE  \E s : Sorts(s, S)
  <1> DEFINE Bad == {n \in Nat : \E T \in SUBSET S : Cardinality(T) = n /\ ~ \E s : Sorts(s, T)}
  <1>1. SUFFICES Bad = {}
    <2>1. Cardinality(S) \in Nat
      BY FS_CardinalityType
    <2> QED
      BY <1>1, <2>1
  <1>2. SUFFICES ASSUME Bad # {} PROVE FALSE
    OBVIOUS
  <1>3. PICK n \in Bad : \A k \in Bad : n <= k
    <2>1. Bad \subseteq Nat
      OBVIOUS
    <2> HIDE DEF Bad
    <2> QED
      BY <1>2, <2>1, LeastNatural
  <1>4. PICK T \in SUBSET S : Cardinality(T) = n /\ ~ \E s : Sorts(s, T)
    BY <1>3
  <1>5. n \in Nat /\ IsFiniteSet(T)
    BY <1>3, FS_Subset
  <1>6. CASE T = {}
    <2>1. Cardinality(T) = 0
      BY <1>6, FS_EmptySet
    <2>2. [i \in 1 .. 0 |-> i] \in [1 .. 0 -> T]
      OBVIOUS
    <2>3. Sorts([i \in 1 .. 0 |-> i], T)
      BY <2>1, <2>2 DEF Sorts
    <2> QED
      BY <1>4, <2>3
  <1>7. CASE T # {}
    <2>1. PICK x \in T : \A y \in T : x >= y
      BY <1>5, <1>7, FiniteBounds
    <2> DEFINE U == T \ {x}
    <2>2. Cardinality(U) = n - 1 /\ n - 1 \in Nat /\ U \in SUBSET S
      <3>1. Cardinality(U) = Cardinality(T) - 1 /\ IsFiniteSet(U)
        BY <1>5, <2>1, FS_RemoveElement
      <3>2. Cardinality(U) \in Nat
        BY <3>1, FS_CardinalityType
      <3> QED
        BY <1>4, <3>1, <3>2
    <2>3. PICK s : Sorts(s, U)
      <3>1. n - 1 \notin Bad
        BY <1>3, <1>5, <2>2
      <3> QED
        BY <2>2, <3>1
    <2> DEFINE r == [i \in 1 .. n |-> IF i < n THEN s[i] ELSE x]
    <2>4. s \in [1 .. n - 1 -> U] /\ \A i, j \in 1 .. n - 1 : i < j => s[i] < s[j]
      BY <2>2, <2>3 DEF Sorts
    <2>5. r \in [1 .. n -> T]
      <3>1. \A i \in 1 .. n : i < n => i \in 1 .. n - 1
        BY <1>5
      <3> QED
        BY <2>1, <2>4, <3>1
    <2>6. ASSUME NEW i \in 1 .. n, NEW j \in 1 .. n, i < j PROVE r[i] < r[j]
      <3>1. i \in 1 .. n - 1 /\ i < n /\ s[i] \in U
        BY <1>5, <2>4, <2>6
      <3>2. CASE j < n
        BY <1>5, <2>4, <2>6, <3>1, <3>2
      <3>3. CASE j = n
        <4>1. r[i] = s[i] /\ r[j] = x
          BY <3>1, <3>3
        <4>2. s[i] <= x /\ s[i] # x /\ s[i] \in Int /\ x \in Int
          BY <2>1, <3>1
        <4> QED
          BY <4>1, <4>2
      <3> QED
        BY <1>5, <3>2, <3>3
    <2>7. Sorts(r, T)
      <3> HIDE DEF r
      <3> QED
        BY <1>4, <2>5, <2>6 DEF Sorts
    <2> QED
      BY <1>4, <2>7
  <1> QED
    BY <1>6, <1>7

\* The order of a set of messages is a queue of them.
LEMMA OrderedIsQueue ==
    ASSUME NEW S, S \subseteq Messages
    PROVE  Ordered(S) \in Seq(S) /\ IsInjective(Ordered(S))
  <1>1. \E s : Sorts(s, S)
    BY MessageSets, SortExists
  <1>2. Sorts(Ordered(S), S)
    BY <1>1 DEF Sorts, Ordered
  <1> DEFINE o == Ordered(S)
             n == Cardinality(S)
  <1>3. n \in Nat /\ o \in [1 .. n -> S] /\ \A i, j \in 1 .. n : i < j => o[i] < o[j]
    BY <1>2, MessageSets DEF Sorts
  <1> HIDE DEF n, o
  <1>4. o \in Seq(S) /\ DOMAIN o = 1 .. n
    BY <1>3
  <1>5. ASSUME NEW i \in 1 .. n, NEW j \in 1 .. n, o[i] = o[j] PROVE i = j
    <2>1. o[i] \in Messages
      BY <1>3
    <2>0. o[i] \in Int
      BY <2>1, IngestFacts
    <2>2. ~ (i < j) /\ ~ (j < i)
      BY <1>3, <1>5, <2>0
    <2> QED
      BY <1>3, <2>2
  <1>6. IsInjective(o)
    BY <1>4, <1>5 DEF IsInjective
  <1> QED
    BY <1>4, <1>6 DEF o

\* What a round takes on are untried rows and rows whose lease is over.
LEMMA ChosenRows ==
    ASSUME NEW rows \in [Messages -> RowKinds],
           due \in Seq(Messages), IsInjective(due), ToSet(due) = {m \in Messages : rows[m] = "due"}
    PROVE  /\ Chosen(rows) \in Seq(Messages) /\ IsInjective(Chosen(rows))
           /\ \A m \in ToSet(Chosen(rows)) : rows[m] \in {"new", "due"}
  <1> DEFINE New == {m \in Messages : rows[m] = "new"}
             o == Ordered(New)
             whole == o \o due
             k == Min({Drain, Len(whole)})
             c == SubSeq(whole, 1, k)
  <1>1. o \in Seq(New) /\ IsInjective(o)
    BY OrderedIsQueue
  <1> HIDE DEF o
  <1>2. /\ Len(o) \in Nat /\ DOMAIN o = 1 .. Len(o) /\ \A i \in 1 .. Len(o) : o[i] \in New
        /\ \A i, j \in 1 .. Len(o) : o[i] = o[j] => i = j
    BY <1>1 DEF IsInjective
  <1>3. /\ Len(due) \in Nat /\ DOMAIN due = 1 .. Len(due)
        /\ \A i \in 1 .. Len(due) : due[i] \in Messages /\ rows[due[i]] = "due"
        /\ \A i, j \in 1 .. Len(due) : due[i] = due[j] => i = j
    <2>1. Len(due) \in Nat /\ DOMAIN due = 1 .. Len(due)
      OBVIOUS
    <2>2. \A i \in 1 .. Len(due) : due[i] \in ToSet(due)
      BY <2>1 DEF ToSet
    <2> QED
      BY <2>1, <2>2 DEF IsInjective
  <1>4. /\ whole \in Seq(Messages) /\ Len(whole) = Len(o) + Len(due) /\ Len(whole) \in Nat
        /\ \A i \in 1 .. Len(whole) : whole[i] = IF i <= Len(o) THEN o[i] ELSE due[i - Len(o)]
    <2>1. o \in Seq(Messages)
      BY <1>1
    <2>2. whole \in Seq(Messages) /\ Len(whole) = Len(o) + Len(due)
      BY <2>1, ConcatProperties
    <2>3. \A i \in 1 .. Len(o) + Len(due) : whole[i] = IF i <= Len(o) THEN o[i] ELSE due[i - Len(o)]
      BY <2>1, ConcatProperties
    <2> QED
      BY <1>2, <1>3, <2>2, <2>3
  <1> HIDE DEF whole
  <1>5. ASSUME NEW i \in 1 .. Len(whole)
        PROVE  /\ whole[i] \in Messages
               /\ i <= Len(o) => i \in 1 .. Len(o) /\ whole[i] = o[i] /\ rows[whole[i]] = "new"
               /\ ~ (i <= Len(o)) => /\ i - Len(o) \in 1 .. Len(due)
                                     /\ whole[i] = due[i - Len(o)] /\ rows[whole[i]] = "due"
    <2>1. CASE i <= Len(o)
      <3>1. i \in 1 .. Len(o) /\ whole[i] = o[i]
        BY <1>2, <1>4, <2>1
      <3> QED
        BY <1>2, <2>1, <3>1
    <2>2. CASE ~ (i <= Len(o))
      <3>1. i - Len(o) \in 1 .. Len(due) /\ whole[i] = due[i - Len(o)]
        BY <1>2, <1>3, <1>4, <2>2
      <3> QED
        BY <1>3, <2>2, <3>1
    <2> QED
      BY <2>1, <2>2
  <1>6. ASSUME NEW i \in 1 .. Len(whole), NEW j \in 1 .. Len(whole), whole[i] = whole[j] PROVE i = j
    <2>1. (i <= Len(o)) <=> (j <= Len(o))
      BY <1>5, <1>6
    <2>2. CASE i <= Len(o)
      <3>1. i \in 1 .. Len(o) /\ j \in 1 .. Len(o) /\ o[i] = o[j]
        BY <1>5, <1>6, <2>1, <2>2
      <3> QED
        BY <1>2, <3>1
    <2>3. CASE ~ (i <= Len(o))
      <3>1. /\ i - Len(o) \in 1 .. Len(due) /\ j - Len(o) \in 1 .. Len(due)
            /\ due[i - Len(o)] = due[j - Len(o)]
        BY <1>5, <1>6, <2>1, <2>3
      <3>2. i - Len(o) = j - Len(o)
        BY <1>3, <3>1
      <3> QED
        BY <1>2, <1>4, <3>2
    <2> QED
      BY <2>2, <2>3
  <1>7. k \in Nat /\ k <= Len(whole)
    <2>1. {Drain, Len(whole)} \subseteq Int /\ IsFiniteSet({Drain, Len(whole)}) /\ {Drain, Len(whole)} # {}
      <3>1. IsFiniteSet({Drain} \cup {Len(whole)}) /\ {Drain} \cup {Len(whole)} = {Drain, Len(whole)}
        BY FS_Singleton, FS_AddElement
      <3>2. Drain \in Int /\ Len(whole) \in Int
        BY <1>4, IngestFacts
      <3> QED
        BY <3>1, <3>2
    <2>2. k \in {Drain, Len(whole)} /\ k <= Len(whole)
      BY <2>1, MinIsLeast
    <2> QED
      BY <1>4, <2>2, IngestFacts
  <1> HIDE DEF k
  <1>8. c \in Seq(Messages) /\ Len(c) = k /\ \A i \in 1 .. k : c[i] = whole[i]
    <2>1. \A i \in 1 .. k : whole[i] \in Messages
      BY <1>4, <1>5, <1>7
    <2>2. c \in Seq(Messages) /\ Len(c) = k
      BY <1>4, <1>7
    <2> QED
      BY <1>4, <1>7, <2>2
  <1> HIDE DEF c
  <1>9. IsInjective(c)
    <2>1. DOMAIN c = 1 .. k
      BY <1>7, <1>8
    <2> QED
      BY <1>4, <1>6, <1>7, <1>8, <2>1 DEF IsInjective
  <1>10. \A m \in ToSet(c) : rows[m] \in {"new", "due"}
    <2>1. DOMAIN c = 1 .. k
      BY <1>7, <1>8
    <2>2. \A i \in 1 .. k : rows[c[i]] \in {"new", "due"}
      BY <1>4, <1>5, <1>7, <1>8
    <2> QED
      BY <2>1, <2>2 DEF ToSet
  <1> QED
    BY <1>8, <1>9, <1>10 DEF c, k, whole, o, Chosen

\* A page holds the first messages of the rest of the scan.
LEMMA PageFacts ==
    ASSUME IngestTypes
    PROVE  /\ Page \subseteq Messages /\ Cardinality(Page) <= PageRows
           /\ \A m \in Page : m \in visible /\ InScan(m, scan)
           /\ \A m \in visible \ Page : InScan(m, scan) => Page # {} /\ \A p \in Page : p < m
  <1> DEFINE rest == {m \in visible : InScan(m, scan)}
             below(m) == {n \in rest : n < m}
  <1>0. rest \subseteq Messages
    BY DEF IngestTypes
  <1>1. rest \subseteq Messages /\ (\A m \in rest : m \in Int) /\ Page = {m \in rest : Cardinality(below(m)) < PageRows}
    BY <1>0, IngestFacts DEF Page
  <1> HIDE DEF rest
  <1>2. Page \subseteq rest /\ Page \subseteq Messages /\ IsFiniteSet(Page)
    BY <1>1, MessageSets
  <1>3. \A m \in rest : below(m) \subseteq Messages /\ IsFiniteSet(below(m)) /\ Cardinality(below(m)) \in Nat
    BY <1>1, MessageSets
  <1>4. Cardinality(Page) <= PageRows
    <2>1. CASE Page = {}
      BY <2>1, FS_EmptySet, IngestFacts
    <2>2. CASE Page # {}
      <3>1. PICK x \in Page : \A y \in Page : x >= y
        <4>1. Page \subseteq Int
          BY <1>1, <1>2
        <4> QED
          BY <1>2, <2>2, <4>1, FiniteBounds
      <3>2. Page \ {x} \subseteq below(x)
        <4>1. \A y \in Page \ {x} : y \in rest /\ y < x
          BY <1>1, <1>2, <3>1
        <4> QED
          BY <4>1
      <3>3. Cardinality(Page \ {x}) <= Cardinality(below(x))
        BY <1>2, <1>3, <3>2, FS_Subset
      <3>4. Cardinality(Page \ {x}) = Cardinality(Page) - 1 /\ Cardinality(Page) \in Nat
        BY <1>2, <3>1, FS_RemoveElement, FS_CardinalityType
      <3>5. Cardinality(below(x)) < PageRows /\ Cardinality(below(x)) \in Nat
        BY <1>1, <1>2, <1>3, <3>1
      <3> QED
        BY <3>3, <3>4, <3>5, IngestFacts
    <2> QED
      BY <2>1, <2>2
  <1>5. ASSUME NEW m \in rest \ Page, NEW p \in Page PROVE p < m
    <2>1. SUFFICES ASSUME ~ (p < m) PROVE FALSE
      OBVIOUS
    <2>2. m < p
      BY <1>1, <1>2, <1>5, <2>1
    <2>3. below(m) \subseteq below(p)
      BY <1>1, <1>2, <2>2
    <2>4. Cardinality(below(m)) <= Cardinality(below(p))
      BY <1>2, <1>3, <2>3, FS_Subset
    <2>5. Cardinality(below(p)) < PageRows /\ ~ (Cardinality(below(m)) < PageRows)
      BY <1>1
    <2>6. Cardinality(below(p)) \in Nat /\ Cardinality(below(m)) \in Nat /\ PageRows \in Nat
      BY <1>2, <1>3, IngestFacts
    <2> QED
      BY <2>4, <2>5, <2>6
  <1>6. ASSUME NEW m \in rest PROVE Page # {}
    <2>1. PICK x \in rest : \A y \in rest : x <= y
      <3>1. IsFiniteSet(rest) /\ rest \subseteq Int
        BY <1>1, MessageSets
      <3> QED
        BY <3>1, FiniteBounds
    <2>2. below(x) = {}
      BY <1>1, <2>1
    <2>3. Cardinality(below(x)) = 0
      BY <2>2, FS_EmptySet
    <2>4. x \in Page
      BY <1>1, <2>3, IngestFacts
    <2> QED
      BY <2>4
  <1>7. \A m \in visible : InScan(m, scan) <=> m \in rest
    BY DEF rest
  <1>8. \A m \in Page : m \in visible /\ InScan(m, scan)
    BY <1>2 DEF rest
  <1> QED
    BY <1>2, <1>4, <1>5, <1>6, <1>7, <1>8

-----------------------------------------------------------------------------
(* The rows and the batch. *)

\* A message of the batch is due or was never tried, and leaves the batch.
LEMMA TakenOff ==
    ASSUME IngestTypes, QueueOK, batch # <<>>
    PROVE  /\ Taken \in Messages /\ row[Taken] \in {"new", "due"}
           /\ Tail(batch) \in Seq(Messages) /\ IsInjective(Tail(batch))
           /\ \A m \in ToSet(Tail(batch)) : m # Taken /\ row[m] \in {"new", "due"}
           /\ RemoveFirst(due, Taken) \in Seq(Messages) /\ IsInjective(RemoveFirst(due, Taken))
           /\ ToSet(RemoveFirst(due, Taken)) = ToSet(due) \ {Taken}
  <1>1. batch \in Seq(Messages) /\ due \in Seq(Messages) /\ IsInjective(due) /\ IsInjective(batch)
    BY DEF IngestTypes, QueueOK
  <1>2. /\ RemoveFirst(due, Taken) \in Seq(Messages) /\ IsInjective(RemoveFirst(due, Taken))
        /\ ToSet(RemoveFirst(due, Taken)) = ToSet(due) \ {Taken}
    BY <1>1, RemovedFromQueue
  <1> DEFINE b == Tail(batch)
             n == Len(batch)
  <1>3. n \in Nat /\ n >= 1 /\ DOMAIN batch = 1 .. n /\ Taken = batch[1]
    BY <1>1 DEF Taken
  <1>4. /\ b \in Seq(Messages) /\ Len(b) = n - 1 /\ DOMAIN b = 1 .. n - 1
        /\ \A i \in 1 .. n - 1 : b[i] = batch[i + 1]
    BY <1>1, <1>3
  <1>5. \A i, j \in 1 .. n : batch[i] = batch[j] => i = j
    BY <1>1, <1>3 DEF IsInjective
  <1> HIDE DEF b, n
  <1>6. \A i \in 1 .. n - 1 : i + 1 \in 1 .. n /\ i + 1 # 1
    BY <1>3
  <1>7. IsInjective(b)
    <2> SUFFICES ASSUME NEW i \in 1 .. n - 1, NEW j \in 1 .. n - 1, b[i] = b[j] PROVE i = j
      BY <1>4 DEF IsInjective
    <2>1. i + 1 = j + 1
      BY <1>4, <1>5, <1>6
    <2> QED
      BY <1>3, <2>1
  <1>8. \A m \in ToSet(b) : m # Taken /\ m \in ToSet(batch)
    <2> SUFFICES ASSUME NEW i \in 1 .. n - 1 PROVE b[i] # Taken /\ b[i] \in ToSet(batch)
      BY <1>4 DEF ToSet
    <2>1. b[i] = batch[i + 1] /\ i + 1 \in 1 .. n /\ 1 \in 1 .. n
      BY <1>3, <1>4, <1>6
    <2> QED
      BY <1>3, <1>5, <1>6, <2>1 DEF ToSet
  <1>9. Taken \in ToSet(batch) /\ Taken \in Messages
    BY <1>1, <1>3 DEF ToSet
  <1> QED
    BY <1>2, <1>4, <1>7, <1>8, <1>9 DEF b, QueueOK

\* What is pending does not grow by rows that were pending.
LEMMA PendingShrinks ==
    ASSUME QueueOK, Pending' \subseteq Pending
    PROVE  Cardinality(Pending)' <= Capacity
  <1>1. IsFiniteSet(Pending) /\ Cardinality(Pending) \in Nat /\ Pending \subseteq Messages
    BY MessageSets DEF Pending
  <1>2. Pending' \subseteq Messages
    BY <1>1
  <1>3. Cardinality(Pending') <= Cardinality(Pending) /\ Cardinality(Pending') \in Nat
    BY <1>1, <1>2, FS_Subset, MessageSets
  <1> QED
    BY <1>1, <1>3, IngestFacts DEF QueueOK

\* The rows have their types and agree.
Queued == /\ row \in [Messages -> RowKinds] /\ due \in Seq(Messages)
          /\ leases \in Seq(Messages) /\ batch \in Seq(Messages) /\ QueueOK

\* A message taken from the batch that stays pending is under the last lease.
LEMMA KeptIsLeased ==
    ASSUME IngestTypes, QueueOK, batch # <<>>, Lease(Taken), Keep(Taken)
    PROVE  Queued' /\ Pending' = Pending
  <1> DEFINE m == Taken
  <1>1. /\ m \in Messages /\ row[m] \in {"new", "due"}
        /\ batch' \in Seq(Messages) /\ IsInjective(batch')
        /\ \A n \in ToSet(batch') : n # m /\ row[n] \in {"new", "due"}
        /\ due' \in Seq(Messages) /\ IsInjective(due') /\ ToSet(due') = ToSet(due) \ {m}
    BY TakenOff DEF Lease
  <1>2. /\ row \in [Messages -> RowKinds] /\ row' = [row EXCEPT ![m] = "leased"]
        /\ leases \in Seq(Messages) /\ IsInjective(leases) /\ leases' = Append(leases, m)
        /\ ToSet(due) = {n \in Messages : row[n] = "due"}
        /\ ToSet(leases) = {n \in Messages : row[n] = "leased"}
    BY DEF IngestTypes, QueueOK, Keep
  <1>3. m \notin ToSet(leases)
    BY <1>1, <1>2
  <1>4. leases' \in Seq(Messages) /\ IsInjective(leases') /\ ToSet(leases') = ToSet(leases) \cup {m}
    BY <1>1, <1>2, <1>3, AppendedToQueue
  <1> HIDE DEF m
  <1>5. /\ row' \in [Messages -> RowKinds] /\ row'[m] = "leased"
        /\ \A n \in Messages : n # m => row'[n] = row[n]
    BY <1>1, <1>2 DEF RowKinds
  <1>6. ToSet(due') = {n \in Messages : row'[n] = "due"}
    BY <1>1, <1>2, <1>5
  <1>7. ToSet(leases') = {n \in Messages : row'[n] = "leased"}
    BY <1>1, <1>2, <1>4, <1>5
  <1>8. \A n \in ToSet(batch') : row'[n] \in {"new", "due"}
    <2>1. ToSet(batch') \subseteq Messages
      BY <1>1 DEF ToSet
    <2> QED
      BY <1>1, <1>5, <2>1
  <1>9. Pending' = Pending
    BY <1>1, <1>5 DEF Pending, Open
  <1>10. Cardinality(Pending)' <= Capacity
    BY <1>9, PendingShrinks
  <1> QED
    BY <1>1, <1>4, <1>5, <1>6, <1>7, <1>8, <1>9, <1>10 DEF Queued, QueueOK

\* A row that is done is in no queue.
LEMMA DoneIsOut ==
    ASSUME IngestTypes, QueueOK, NEW m \in Messages, Done(m),
           due' \in Seq(Messages), IsInjective(due'), ToSet(due') = ToSet(due) \ {m},
           batch' \in Seq(Messages), IsInjective(batch'),
           \A n \in ToSet(batch') : n # m /\ row[n] \in {"new", "due"}
    PROVE  Queued' /\ Pending' \subseteq Pending /\ m \notin Pending'
  <1>2. /\ row \in [Messages -> RowKinds] /\ row' = [row EXCEPT ![m] = "done"]
        /\ leases \in Seq(Messages) /\ IsInjective(leases) /\ leases' = RemoveFirst(leases, m)
        /\ ToSet(due) = {n \in Messages : row[n] = "due"}
        /\ ToSet(leases) = {n \in Messages : row[n] = "leased"}
    BY DEF IngestTypes, QueueOK, Done
  <1>4. leases' \in Seq(Messages) /\ IsInjective(leases') /\ ToSet(leases') = ToSet(leases) \ {m}
    BY <1>2, RemovedFromQueue
  <1>5. /\ row' \in [Messages -> RowKinds] /\ row'[m] = "done"
        /\ \A n \in Messages : n # m => row'[n] = row[n]
    BY <1>2 DEF RowKinds
  <1>6. ToSet(due') = {n \in Messages : row'[n] = "due"}
    BY <1>2, <1>5
  <1>7. ToSet(leases') = {n \in Messages : row'[n] = "leased"}
    BY <1>2, <1>4, <1>5
  <1>8. \A n \in ToSet(batch') : row'[n] \in {"new", "due"}
    <2>1. ToSet(batch') \subseteq Messages
      BY DEF ToSet
    <2> QED
      BY <1>5, <2>1
  <1>9. Pending' \subseteq Pending /\ m \notin Pending'
    BY <1>5 DEF Pending, Open
  <1>10. Cardinality(Pending)' <= Capacity
    BY <1>9, PendingShrinks
  <1> QED
    BY <1>4, <1>5, <1>6, <1>7, <1>8, <1>9, <1>10 DEF Queued, QueueOK

\* The same for a message of the batch, and for the one being published.
LEMMA TakenDone ==
    ASSUME IngestTypes, QueueOK, batch # <<>>, Lease(Taken), Done(Taken)
    PROVE  Queued' /\ Pending' \subseteq Pending /\ Taken \notin Pending'
  <1>1. /\ Taken \in Messages
        /\ batch' \in Seq(Messages) /\ IsInjective(batch')
        /\ \A n \in ToSet(batch') : n # Taken /\ row[n] \in {"new", "due"}
        /\ due' \in Seq(Messages) /\ IsInjective(due') /\ ToSet(due') = ToSet(due) \ {Taken}
    BY TakenOff DEF Lease
  <1> DEFINE m == Taken
  <1>2. m \in Messages /\ Done(m)
    BY <1>1
  <1> HIDE DEF m
  <1>3. m = Taken => Queued' /\ Pending' \subseteq Pending /\ m \notin Pending'
    BY <1>1, <1>2, DoneIsOut
  <1> QED
    BY <1>3 DEF m

LEMMA LeasedDone ==
    ASSUME IngestTypes, QueueOK, NEW m \in Messages, row[m] = "leased", Done(m), UNCHANGED <<due, batch>>
    PROVE  Queued' /\ Pending' \subseteq Pending /\ m \notin Pending'
  <1>1. /\ batch' \in Seq(Messages) /\ IsInjective(batch')
        /\ \A n \in ToSet(batch') : n # m /\ row[n] \in {"new", "due"}
    BY DEF IngestTypes, QueueOK
  <1>2. due' \in Seq(Messages) /\ IsInjective(due') /\ ToSet(due') = ToSet(due) \ {m}
    BY DEF IngestTypes, QueueOK
  <1> QED
    BY <1>1, <1>2, DoneIsOut

\* The event being published is under a lease.
LEMMA SendingFacts ==
    ASSUME IngestTypes, SealOK, phase \in Working
    PROVE  /\ sending \in Events /\ sending # NoEvent /\ sending.of \in Messages
           /\ row[sending.of] = "leased" /\ mark[sending.of].kind = "pending"
           /\ sealed[sending.of] = sending
  <1>1. sending \in Events
    BY DEF IngestTypes, SealOK
  <1> QED
    BY <1>1 DEF SealOK, Events

\* A captured page has room.
LEMMA CapturedRows ==
    ASSUME IngestTypes, QueueOK, ~ Blocked, NEW more, Captured(Page, more), UNCHANGED <<due, leases>>
    PROVE  /\ row' \in [Messages -> RowKinds] /\ Cardinality(Pending)' <= Capacity
           /\ ToSet(due') = {m \in Messages : row'[m] = "due"}
           /\ ToSet(leases') = {m \in Messages : row'[m] = "leased"}
  <1>1. row \in [Messages -> RowKinds] /\ Page \subseteq Messages /\ Cardinality(Page) <= PageRows
    BY PageFacts DEF IngestTypes
  <1>2. row' = [m \in Messages |-> IF m \in Page /\ row[m] = "absent" THEN "new" ELSE row[m]]
    BY DEF Captured
  <1>3. row' \in [Messages -> RowKinds]
    BY <1>1, <1>2 DEF RowKinds
  <1>4. Pending' \subseteq Pending \cup Page
    BY <1>1, <1>2 DEF Pending, Open
  <1>5. /\ IsFiniteSet(Pending) /\ IsFiniteSet(Page) /\ Pending \cup Page \subseteq Messages
        /\ Cardinality(Pending) \in Nat /\ Cardinality(Page) \in Nat
    <2>1. Pending \subseteq Messages
      BY DEF Pending
    <2> QED
      BY <1>1, <2>1, MessageSets
  <1>6. Cardinality(Pending') <= Cardinality(Pending \cup Page)
    BY <1>4, <1>5, FS_Subset, MessageSets
  <1>7. Cardinality(Pending \cup Page) <= Cardinality(Pending) + Cardinality(Page)
    <2>1. /\ Cardinality(Pending \cup Page)
               = Cardinality(Pending) + Cardinality(Page) - Cardinality(Pending \cap Page)
          /\ IsFiniteSet(Pending \cap Page)
      BY <1>5, FS_Union, FS_Intersection
    <2>2. Cardinality(Pending \cap Page) \in Nat
      BY <2>1, FS_CardinalityType
    <2> QED
      BY <1>5, <2>1, <2>2
  <1>8. Cardinality(Pending') <= Capacity
    <2>1. Cardinality(Pending) <= Capacity - PageRows
      BY <1>5, IngestFacts DEF Blocked
    <2>2. Cardinality(Pending') \in Nat /\ Cardinality(Pending \cup Page) \in Nat
      BY <1>4, <1>5, MessageSets
    <2> QED
      BY <1>1, <1>5, <1>6, <1>7, <2>1, <2>2, IngestFacts
  <1>9. \A m \in Messages : (row'[m] = "due") = (row[m] = "due") /\ (row'[m] = "leased") = (row[m] = "leased")
    BY <1>1, <1>2
  <1>10. /\ ToSet(due) = {m \in Messages : row[m] = "due"}
         /\ ToSet(leases) = {m \in Messages : row[m] = "leased"}
    BY DEF QueueOK
  <1> QED
    BY <1>3, <1>8, <1>9, <1>10

\* The steps that take a message from the batch.
TakeStep == Settle \/ Hold \/ ReadFails \/ Send

\* They leave it pending, under a lease, or done.
LEMMA TakeCases ==
    ASSUME TakeStep
    PROVE  /\ batch # <<>> /\ Lease(Taken)
           /\ Keep(Taken) \/ Done(Taken)
           /\ phase \in {"first", "drain"}
  BY DEF TakeStep, Settle, Hold, ReadFails, Send

LEMMA QueueStep ==
    ASSUME IngestInv, [IngestNext]_ingestVars
    PROVE  Queued'
  <1>0. IngestTypes /\ QueueOK /\ SealOK /\ Queued
    BY DEF IngestInv, Queued, IngestTypes
  <1>1. ASSUME UNCHANGED <<row, due, leases, batch>>
        PROVE  Queued'
    BY <1>0, <1>1 DEF Queued, QueueOK, Pending
  <1>2. ASSUME UNCHANGED <<row, due, leases>>, batch' = <<>> \/ batch' = Chosen(row)
        PROVE  Queued'
    <2>1. batch' \in Seq(Messages) /\ IsInjective(batch') /\ \A m \in ToSet(batch') : row[m] \in {"new", "due"}
      <3>1. <<>> \in Seq(Messages) /\ IsInjective(<<>>) /\ ToSet(<<>>) = {}
        BY DEF IsInjective, ToSet
      <3>2. /\ Chosen(row) \in Seq(Messages) /\ IsInjective(Chosen(row))
            /\ \A m \in ToSet(Chosen(row)) : row[m] \in {"new", "due"}
        BY <1>0, ChosenRows DEF IngestTypes, QueueOK
      <3> QED
        BY <1>2, <3>1, <3>2
    <2> QED
      BY <1>0, <1>2, <2>1 DEF Queued, QueueOK, Pending
  <1>3. CASE StartScan
    <2>1. UNCHANGED <<due, leases, batch>>
      BY <1>3 DEF StartScan
    <2>2. /\ row' \in [Messages -> RowKinds]
          /\ \A m \in Messages : row'[m] = row[m] \/ (row[m] = "done" /\ row'[m] = "absent")
      <3> DEFINE gone == {n \in Messages : row[n] = "done" /\ SentAt[n] < ScanBegun(time).start}
      <3>1. row' = row \/ row' = [m \in Messages |-> IF m \in gone THEN "absent" ELSE row[m]]
        BY <1>3 DEF StartScan
      <3>2. \A m \in gone : row[m] = "done"
        OBVIOUS
      <3>3. row \in [Messages -> RowKinds]
        BY <1>0 DEF Queued
      <3> HIDE DEF gone
      <3> QED
        BY <3>1, <3>2, <3>3 DEF RowKinds
    <2>4. Pending' \subseteq Pending
      BY <2>2 DEF Pending, Open
    <2>5. Cardinality(Pending)' <= Capacity
      BY <1>0, <2>4, PendingShrinks
    <2>6. \A m \in Messages : row[m] # "done" => row'[m] = row[m]
      BY <2>2
    <2>7. \A m \in Messages : row[m] = "done" => row'[m] \in {"done", "absent"}
      BY <2>2
    <2>8. \A m \in ToSet(batch) : row'[m] \in {"new", "due"}
      <3>1. ToSet(batch) \subseteq Messages
        BY <1>0 DEF Queued, ToSet
      <3> QED
        BY <1>0, <2>6, <3>1 DEF QueueOK
    <2>9. /\ {m \in Messages : row'[m] = "due"} = {m \in Messages : row[m] = "due"}
          /\ {m \in Messages : row'[m] = "leased"} = {m \in Messages : row[m] = "leased"}
      BY <2>6, <2>7
    <2> QED
      BY <1>0, <2>1, <2>2, <2>5, <2>8, <2>9 DEF Queued, QueueOK
  <1>4. CASE ReadPage
    <2>1. PICK more : ~ Blocked /\ Captured(Page, more) /\ UNCHANGED <<due, leases>> /\ batch' = Chosen(row')
      BY <1>4 DEF ReadPage
    <2>2. /\ row' \in [Messages -> RowKinds] /\ Cardinality(Pending)' <= Capacity
          /\ ToSet(due') = {m \in Messages : row'[m] = "due"}
          /\ ToSet(leases') = {m \in Messages : row'[m] = "leased"}
      BY <1>0, <2>1, CapturedRows
    <2>3. /\ batch' \in Seq(Messages) /\ IsInjective(batch')
          /\ \A m \in ToSet(batch') : row'[m] \in {"new", "due"}
      <3> DEFINE r == row'
      <3>1. r \in [Messages -> RowKinds] /\ ToSet(due) = {m \in Messages : r[m] = "due"}
        BY <2>1, <2>2
      <3>2. batch' = Chosen(r)
        BY <2>1
      <3> HIDE DEF r
      <3>3. /\ Chosen(r) \in Seq(Messages) /\ IsInjective(Chosen(r))
            /\ \A m \in ToSet(Chosen(r)) : r[m] \in {"new", "due"}
        BY <1>0, <3>1, ChosenRows DEF Queued, QueueOK
      <3> QED
        BY <3>2, <3>3 DEF r
    <2> QED
      BY <1>0, <2>1, <2>2, <2>3 DEF Queued, QueueOK
  <1>5. CASE SkipPage
    BY <1>2, <1>5 DEF SkipPage, queue
  <1>6. CASE PageFails
    BY <1>2, <1>6 DEF PageFails, queue
  <1>7. CASE TakeStep
    BY <1>0, <1>7, TakeCases, KeptIsLeased, TakenDone
  <1>8. CASE Acknowledge \/ TryAgain
    <2>1. phase \in Working /\ UNCHANGED <<due, batch>>
      BY <1>8 DEF Acknowledge, TryAgain, Working
    <2>2. Done(sending.of) \/ UNCHANGED <<row, leases>>
      BY <1>8 DEF Acknowledge, TryAgain
    <2>3. sending.of \in Messages /\ row[sending.of] = "leased"
      BY <1>0, <2>1, SendingFacts
    <2>4. PICK m \in Messages : m = sending.of
      BY <2>3
    <2> QED
      BY <1>0, <1>1, <2>1, <2>2, <2>3, <2>4, LeasedDone
  <1>9. CASE TimeUp
    BY <1>2, <1>9 DEF TimeUp, queue
  <1>10. CASE EndScan
    BY <1>2, <1>10 DEF EndScan, queue, Quiet
  <1>11. CASE Kill
    BY <1>2, <1>11 DEF Kill, Quiet, FirstSave
  <1>12. CASE \E m \in Messages : LeaseEnds(m)
    <2>1. PICK m \in Messages : LeaseEnds(m)
      BY <1>12
    <2>2. /\ row[m] = "leased" /\ row' = [row EXCEPT ![m] = "due"]
          /\ due' = Append(due, m) /\ leases' = RemoveFirst(leases, m) /\ batch' = batch
      BY <2>1 DEF LeaseEnds, round
    <2>3. /\ row \in [Messages -> RowKinds] /\ due \in Seq(Messages) /\ leases \in Seq(Messages)
          /\ IsInjective(due) /\ IsInjective(leases)
          /\ ToSet(due) = {n \in Messages : row[n] = "due"}
          /\ ToSet(leases) = {n \in Messages : row[n] = "leased"}
          /\ \A n \in ToSet(batch) : row[n] \in {"new", "due"}
      BY <1>0 DEF Queued, QueueOK
    <2>4. due' \in Seq(Messages) /\ IsInjective(due') /\ ToSet(due') = ToSet(due) \cup {m}
      BY <2>2, <2>3, AppendedToQueue
    <2>5. leases' \in Seq(Messages) /\ IsInjective(leases') /\ ToSet(leases') = ToSet(leases) \ {m}
      BY <2>2, <2>3, RemovedFromQueue
    <2>6. /\ row' \in [Messages -> RowKinds] /\ row'[m] = "due"
          /\ \A n \in Messages : n # m => row'[n] = row[n]
      BY <2>2, <2>3 DEF RowKinds
    <2>7. Pending' = Pending
      BY <2>2, <2>6 DEF Pending, Open
    <2>8. Cardinality(Pending)' <= Capacity
      BY <1>0, <2>7, PendingShrinks
    <2>9. \A n \in ToSet(batch) : row'[n] \in {"new", "due"}
      <3>1. ToSet(batch) \subseteq Messages
        BY <1>0 DEF Queued, ToSet
      <3> QED
        BY <2>2, <2>3, <2>6, <3>1
    <2>10. /\ ToSet(due') = {n \in Messages : row'[n] = "due"}
           /\ ToSet(leases') = {n \in Messages : row'[n] = "leased"}
      BY <2>2, <2>3, <2>4, <2>5, <2>6
    <2> QED
      BY <1>0, <2>2, <2>4, <2>5, <2>6, <2>8, <2>9, <2>10 DEF Queued, QueueOK
  <1>13. CASE Published \/ NotAnswered \/ Reconfigure \/ Later \/ \E m \in Messages : Show(m)
    BY <1>1, <1>13 DEF Published, NotAnswered, Reconfigure, Later, Show, queue, round
  <1>14. CASE \E e \in coming : Arrives(e)
    BY <1>1, <1>14 DEF Arrives, queue, round
  <1>15. CASE UNCHANGED ingestVars
    BY <1>1, <1>15 DEF ingestVars, queue, round
  <1> QED
    BY <1>3, <1>4, <1>5, <1>6, <1>7, <1>8, <1>9, <1>10, <1>11, <1>12, <1>13, <1>14, <1>15
    DEF IngestNext, ScanStep, TakeStep

\* A row is not forgotten, and what is done is not pending again.
RowForward == \A m \in Messages :
    row[m] # "absent" => row'[m] # "absent" /\ (Open(row'[m]) => Open(row[m]))

\* Only the beginning of a scan forgets rows.
LEMMA RowsGoForward ==
    ASSUME IngestInv, [IngestNext]_ingestVars, ~ StartScan
    PROVE  RowForward
  <1>0. IngestTypes /\ QueueOK /\ SealOK /\ row \in [Messages -> RowKinds]
    BY DEF IngestInv, IngestTypes
  <1>1. ASSUME row' = row
        PROVE  RowForward
    BY <1>1 DEF RowForward
  <1>2. ASSUME NEW m \in Messages, NEW s \in {"leased", "due", "done"},
               row' = [row EXCEPT ![m] = s], Open(row[m])
        PROVE  RowForward
    <2>1. /\ row'[m] = s /\ row[m] # "absent"
          /\ \A n \in Messages : n # m => row'[n] = row[n]
      BY <1>0, <1>2 DEF Open
    <2> QED
      BY <1>2, <2>1 DEF RowForward
  <1>3. CASE ReadPage
    <2>1. row' = [m \in Messages |-> IF m \in Page /\ row[m] = "absent" THEN "new" ELSE row[m]]
      BY <1>3 DEF ReadPage, Captured
    <2> QED
      BY <2>1 DEF RowForward
  <1>4. CASE TakeStep
    <2>1. Taken \in Messages /\ Open(row[Taken])
      BY <1>0, <1>4, TakeCases, TakenOff DEF Open
    <2>2. row' = [row EXCEPT ![Taken] = "leased"] \/ row' = [row EXCEPT ![Taken] = "done"]
      BY <1>4, TakeCases DEF Keep, Done
    <2>3. PICK m \in Messages : m = Taken
      BY <2>1
    <2> QED
      BY <1>2, <2>1, <2>2, <2>3
  <1>5. CASE Acknowledge \/ TryAgain
    <2>1. phase \in Working /\ (Done(sending.of) \/ row' = row)
      BY <1>5 DEF Acknowledge, TryAgain, Working
    <2>2. sending.of \in Messages /\ row[sending.of] = "leased"
      BY <1>0, <2>1, SendingFacts
    <2>3. PICK m \in Messages : m = sending.of
      BY <2>2
    <2> QED
      BY <1>1, <1>2, <2>1, <2>2, <2>3 DEF Done, Open
  <1>6. CASE \E m \in Messages : LeaseEnds(m)
    BY <1>2, <1>6 DEF LeaseEnds, Open
  <1>7. CASE SkipPage \/ PageFails \/ TimeUp \/ EndScan \/ Kill
    BY <1>1, <1>7 DEF SkipPage, PageFails, TimeUp, EndScan, Kill, FirstSave, queue
  <1>8. CASE Published \/ NotAnswered \/ Reconfigure \/ Later \/ \E m \in Messages : Show(m)
    BY <1>1, <1>8 DEF Published, NotAnswered, Reconfigure, Later, Show, queue
  <1>9. CASE (\E e \in coming : Arrives(e)) \/ UNCHANGED ingestVars
    BY <1>1, <1>9 DEF Arrives, ingestVars, queue
  <1> QED
    BY <1>3, <1>4, <1>5, <1>6, <1>7, <1>8, <1>9 DEF IngestNext, ScanStep, TakeStep

LEMMA WaitStep ==
    ASSUME IngestInv, [IngestNext]_ingestVars
    PROVE  WaitOK'
  <1>0. IngestTypes /\ QueueOK /\ WaitOK /\ waits \subseteq Messages /\ row \in [Messages -> RowKinds]
    BY DEF IngestInv, IngestTypes
  <1>1. ASSUME RowForward, waits' = waits, context' = context, phase # "idle" \/ phase' = "idle"
        PROVE  WaitOK'
    BY <1>0, <1>1 DEF RowForward, WaitOK, Pending
  <1>2. ASSUME RowForward, waits' = waits, phase' = "idle"
        PROVE  WaitOK'
    BY <1>0, <1>2 DEF RowForward, WaitOK
  <1>3. CASE StartScan
    <2>1. context' = waits \cap Pending
      BY <1>3 DEF StartScan, Remembered
    <2> DEFINE gone == {n \in Messages : row[n] = "done" /\ SentAt[n] < ScanBegun(time).start}
    <2>2. \/ row' = row /\ waits' = waits
          \/ /\ row' = [m \in Messages |-> IF m \in gone THEN "absent" ELSE row[m]]
             /\ waits' = waits \ gone
      BY <1>3 DEF StartScan
    <2>3. \A m \in gone : row[m] = "done"
      OBVIOUS
    <2> HIDE DEF gone
    <2>4. Pending' \subseteq Pending
      BY <2>2, <2>3 DEF Pending, Open
    <2>5. \A m \in waits' : row'[m] # "absent"
      BY <1>0, <2>2 DEF WaitOK
    <2>6. waits' \subseteq waits
      BY <2>2
    <2> QED
      BY <2>1, <2>4, <2>5, <2>6 DEF WaitOK
  <1>4. CASE ~ StartScan /\ (Settle \/ ReadFails \/ Send \/ Acknowledge \/ TryAgain)
    BY <1>1, <1>4, RowsGoForward DEF Settle, ReadFails, Send, Acknowledge, TryAgain
  <1>5. CASE ~ StartScan /\ Hold
    <2>1. RowForward
      BY <1>5, RowsGoForward
    <2>2. /\ batch # <<>> /\ Lease(Taken) /\ Keep(Taken) /\ phase # "idle"
          /\ \/ context' = context \cup {Taken} /\ waits' = waits \cup {Taken}
             \/ UNCHANGED <<context, waits>>
      BY <1>5 DEF Hold
    <2>3. Pending' = Pending /\ Taken \in Messages
      BY <1>0, <2>2, KeptIsLeased, TakenOff
    <2>4. row'[Taken] = "leased"
      BY <1>0, <2>2, <2>3 DEF Keep
    <2> QED
      BY <1>0, <2>1, <2>2, <2>3, <2>4 DEF WaitOK, RowForward
  <1>6. CASE ~ StartScan /\ (ReadPage \/ SkipPage \/ PageFails \/ TimeUp)
    BY <1>1, <1>6, RowsGoForward DEF ReadPage, SkipPage, PageFails, TimeUp, queue
  <1>7. CASE ~ StartScan /\ (Published \/ NotAnswered)
    BY <1>1, <1>7, RowsGoForward DEF Published, NotAnswered, queue
  <1>8. CASE ~ StartScan /\ (EndScan \/ Kill)
    BY <1>2, <1>8, RowsGoForward DEF EndScan, Kill, Quiet, queue
  <1>9. CASE ~ StartScan /\ (Reconfigure \/ Later \/ \E m \in Messages : LeaseEnds(m) \/ Show(m))
    BY <1>1, <1>9, RowsGoForward DEF Reconfigure, Later, LeaseEnds, Show, queue, round
  <1>10. CASE (\E e \in coming : Arrives(e)) \/ UNCHANGED ingestVars
    BY <1>0, <1>10 DEF WaitOK, Pending, Arrives, ingestVars, queue, round
  <1> QED
    BY <1>3, <1>4, <1>5, <1>6, <1>7, <1>8, <1>9, <1>10 DEF IngestNext, ScanStep

LEMMA SealStep ==
    ASSUME IngestInv, [IngestNext]_ingestVars
    PROVE  SealOK'
  <1>0. /\ IngestTypes /\ QueueOK /\ SealOK /\ row \in [Messages -> RowKinds]
        /\ mark \in [Messages -> Marks] /\ sealed \in [Messages -> Events \cup {NoEvent}]
        /\ relay \subseteq Events /\ coming \subseteq Events
    BY DEF IngestInv, IngestTypes
  <1>1. ASSUME phase \notin Working, phase' \notin Working, UNCHANGED <<sending, sealed>>,
               relay' \cup coming' \subseteq relay \cup coming
        PROVE  SealOK'
    BY <1>0, <1>1 DEF SealOK
  <1>2. ASSUME phase' \notin Working, sending' = NoEvent, sealed' = sealed,
               relay' \cup coming' \subseteq relay \cup coming
        PROVE  SealOK'
    BY <1>0, <1>2 DEF SealOK
  <1>3. CASE StartScan \/ ReadPage \/ SkipPage \/ PageFails
    BY <1>1, <1>3 DEF StartScan, ReadPage, SkipPage, PageFails, marks, Working
  <1>4. CASE Settle \/ Hold \/ ReadFails
    BY <1>1, <1>4 DEF Settle, Hold, ReadFails, marks, Working
  <1>5. CASE Send
    <2>1. Taken \in Messages /\ phase \notin Working /\ relay' = relay /\ coming' = coming
      BY <1>0, <1>5, TakenOff DEF Send, Working
    <2>2. CASE Conflicts(Taken)
      BY <1>1, <1>5, <2>1, <2>2 DEF Send, Working
    <2>3. CASE ~ Conflicts(Taken)
      <3> DEFINE m == Taken
      <3>1. /\ mark' = [mark EXCEPT ![m] = [kind |-> "pending", first |-> FirstTime(m)]]
            /\ sealed' = [sealed EXCEPT ![m] = EventOf(m)]
            /\ sending' = EventOf(m) /\ phase' = "publish" /\ row' = [row EXCEPT ![m] = "leased"]
        BY <1>5, <2>3 DEF Send, Keep
      <3>2. EventOf(m).of = m /\ EventOf(m) # NoEvent /\ m # 0
        BY <2>1, IngestFacts DEF EventOf, NoEvent
      <3>3. sealed[m] \in {NoEvent, EventOf(m)}
        BY <2>3 DEF Conflicts
      <3> HIDE DEF m
      <3>4. /\ sealed'[m] = EventOf(m) /\ row'[m] = "leased" /\ mark'[m].kind = "pending"
            /\ \A n \in Messages : n # m => sealed'[n] = sealed[n]
        BY <1>0, <2>1, <3>1 DEF m
      <3>5. ASSUME NEW e \in relay \cup coming PROVE sealed'[e.of] = e
        <4>1. e.of \in Messages /\ sealed[e.of] = e
          BY <1>0 DEF SealOK, Events
        <4>2. e.of = m => sealed[m] # NoEvent
          <5>1. e # NoEvent
            BY <4>1, IngestFacts DEF NoEvent
          <5> QED
            BY <4>1, <5>1
        <4> QED
          BY <3>3, <3>4, <4>1, <4>2
      <3>6. phase' \in Working
        BY <3>1 DEF Working
      <3> QED
        BY <2>1, <3>1, <3>2, <3>4, <3>5, <3>6 DEF SealOK
    <2> QED
      BY <2>2, <2>3
  <1>6. CASE Published \/ NotAnswered
    <2>1. phase \in Working /\ phase' \in Working /\ UNCHANGED <<row, mark, sealed, sending>>
      BY <1>6 DEF Published, NotAnswered, queue, marks, Working
    <2>2. relay' \cup coming' \subseteq relay \cup coming \cup {sending}
      BY <1>6 DEF Published, NotAnswered
    <2>3. sealed[sending.of] = sending
      BY <1>0, <2>1 DEF SealOK
    <2> QED
      BY <1>0, <2>1, <2>2, <2>3 DEF SealOK
  <1>7. CASE Acknowledge \/ TryAgain
    BY <1>2, <1>7 DEF Acknowledge, TryAgain, Working
  <1>8. CASE TimeUp
    BY <1>0, <1>8 DEF SealOK, TimeUp, queue, marks
  <1>9. CASE EndScan \/ Kill
    BY <1>2, <1>9 DEF EndScan, Kill, Quiet, marks, Working
  <1>10. CASE Reconfigure \/ Later \/ \E m \in Messages : LeaseEnds(m) \/ Show(m)
    BY <1>1, <1>10 DEF Reconfigure, Later, LeaseEnds, Show, marks, round, Working
  <1>11. CASE \E e \in coming : Arrives(e)
    <2>1. /\ UNCHANGED <<row, mark, sealed, sending, phase>>
          /\ relay' \cup coming' \subseteq relay \cup coming
      BY <1>11 DEF Arrives, queue, marks, round
    <2> QED
      BY <1>0, <2>1 DEF SealOK
  <1>12. CASE UNCHANGED ingestVars
    BY <1>0, <1>12 DEF SealOK, ingestVars, queue, marks, round
  <1> QED
    BY <1>3, <1>4, <1>5, <1>6, <1>7, <1>8, <1>9, <1>10, <1>11, <1>12 DEF IngestNext, ScanStep

\* The names and the time do not go back.
LEMMA GroupForward ==
    ASSUME IngestInv, [IngestNext]_ingestVars
    PROVE  names' >= names /\ names' \in Nat /\ time' >= time /\ time' \in Times /\ time' \in Nat
  <1>0. names \in Nat /\ time \in Times /\ time \in Nat
    BY IngestFacts DEF IngestInv, IngestTypes
  <1>1. CASE Later
    <2>1. time' = time + 1 /\ time < LastTime /\ names' = names
      BY <1>1 DEF Later
    <2> QED
      BY <1>0, <2>1, IngestFacts DEF Times
  <1>2. CASE Reconfigure
    BY <1>0, <1>2 DEF Reconfigure
  <1>3. CASE UNCHANGED <<names, time>>
    BY <1>0, <1>3
  <1>4. CASE UNCHANGED group \/ \E m \in Messages : Show(m)
    BY <1>3, <1>4 DEF group, Show
  <1>5. CASE StartScan \/ ReadPage \/ SkipPage \/ PageFails \/ TimeUp \/ EndScan \/ Kill
    BY <1>4, <1>5 DEF StartScan, ReadPage, SkipPage, PageFails, TimeUp, EndScan, Kill
  <1>6. CASE Settle \/ Hold \/ ReadFails \/ Send \/ Published \/ NotAnswered \/ Acknowledge \/ TryAgain
    BY <1>4, <1>6 DEF Settle, Hold, ReadFails, Send, Published, NotAnswered, Acknowledge, TryAgain
  <1>7. CASE (\E m \in Messages : LeaseEnds(m)) \/ (\E e \in coming : Arrives(e)) \/ UNCHANGED ingestVars
    BY <1>4, <1>7 DEF LeaseEnds, Arrives, ingestVars
  <1> QED
    BY <1>1, <1>2, <1>4, <1>5, <1>6, <1>7 DEF IngestNext, ScanStep

\* What a mark says stays true while time passes and names change.
LEMMA MarkKept ==
    ASSUME IngestInv, [IngestNext]_ingestVars, NEW m \in Messages,
           row'[m] = "done" => row[m] = "done", UNCHANGED <<mark[m], tries[m], sealed[m]>>
    PROVE  MarkOK(m)'
  <1>1. MarkOK(m) /\ sealed[m] \in Events \cup {NoEvent} /\ SentAt[m] \in Nat /\ names \in Nat /\ time \in Nat
    BY IngestFacts DEF IngestInv, IngestTypes
  <1>2. names' >= names /\ names' \in Nat /\ time' >= time /\ time' \in Nat
    BY GroupForward
  <1>3. ClosedMark(m)' = ClosedMark(m) /\ OpenMark(m)' = OpenMark(m)
    BY DEF ClosedMark, OpenMark
  <1>4. ~ ClosedMark(m) => tries'[m] < Attempts
    BY <1>1 DEF MarkOK
  <1>5. sealed'[m] # NoEvent => sealed'[m].of = m /\ sealed'[m].text <= names'
    <2>1. sealed[m] # NoEvent => sealed[m].text \in Nat
      BY <1>1 DEF Events
    <2> QED
      BY <1>1, <1>2, <2>1 DEF MarkOK
  <1>6. mark'[m].kind = "unknown" => names' > 0 \/ time' - SentAt[m] > GiveUpAfter
    BY <1>1, <1>2, IngestFacts DEF MarkOK
  <1> QED
    BY <1>1, <1>3, <1>4, <1>5, <1>6 DEF MarkOK

\* A closed mark is all that a message needs.
LEMMA MarkClosed ==
    ASSUME IngestInv, [IngestNext]_ingestVars, NEW m \in Messages, ClosedMark(m)',
           mark'[m].kind # "unknown", sealed'[m] = sealed[m]
    PROVE  MarkOK(m)'
  <1>1. MarkOK(m) /\ sealed[m] \in Events \cup {NoEvent} /\ names \in Nat
    BY DEF IngestInv, IngestTypes
  <1>2. names' >= names /\ names' \in Nat
    BY GroupForward
  <1>3. sealed[m] # NoEvent => sealed[m].text \in Nat
    BY <1>1 DEF Events
  <1> QED
    BY <1>1, <1>2, <1>3 DEF MarkOK

LEMMA MarkStep ==
    ASSUME IngestInv, [IngestNext]_ingestVars, NEW m \in Messages
    PROVE  MarkOK(m)'
  <1>0. /\ IngestTypes /\ QueueOK /\ SealOK /\ MarkOK(m)
        /\ row \in [Messages -> RowKinds] /\ mark \in [Messages -> Marks]
        /\ tries \in [Messages -> 0 .. Attempts] /\ sealed \in [Messages -> Events \cup {NoEvent}]
    BY DEF IngestInv, IngestTypes
  <1>1. ASSUME row' = row, UNCHANGED <<mark, tries, sealed>>
        PROVE  MarkOK(m)'
    BY <1>1, MarkKept
  <1>2. CASE StartScan
    <2>1. UNCHANGED <<tries, sealed, time, names>> /\ mark' = StaleClosed
      BY <1>2 DEF StartScan, group
    <2>2. row'[m] = "done" => row[m] = "done"
      BY <1>2 DEF StartScan
    <2>3. CASE OpenMark(m) /\ time - SentAt[m] > GiveUpAfter
      <3>1. mark'[m] = [kind |-> IF mark[m].kind = "pending" THEN "unknown" ELSE "failed", first |-> 0]
        BY <2>1, <2>3 DEF StaleClosed
      <3>2. mark'[m].kind \in {"unknown", "failed"}
        BY <3>1
      <3>3. ClosedMark(m)'
        BY <3>2 DEF ClosedMark
      <3> QED
        BY <1>0, <2>1, <2>3, <3>3 DEF MarkOK
    <2>4. CASE ~ (OpenMark(m) /\ time - SentAt[m] > GiveUpAfter)
      <3>1. mark'[m] = mark[m]
        BY <2>1, <2>4 DEF StaleClosed
      <3> QED
        BY <2>1, <2>2, <3>1, MarkKept
    <2> QED
      BY <2>3, <2>4
  <1>3. CASE ReadPage
    <2>1. row'[m] = "done" => row[m] = "done"
      BY <1>3 DEF ReadPage, Captured
    <2> QED
      BY <1>3, <2>1, MarkKept DEF ReadPage, marks
  <1>4. CASE SkipPage \/ PageFails \/ TimeUp \/ EndScan \/ Published \/ NotAnswered
    BY <1>1, <1>4 DEF SkipPage, PageFails, TimeUp, EndScan, Published, NotAnswered, queue, marks
  <1>5. CASE Hold \/ ReadFails
    <2>1. Taken \in Messages
      BY <1>0, <1>5, TakenOff DEF Hold, ReadFails
    <2>2. row' = [row EXCEPT ![Taken] = "leased"] /\ UNCHANGED <<mark, tries, sealed>>
      BY <1>5 DEF Hold, ReadFails, Keep, marks
    <2>3. row'[m] = "done" => row[m] = "done"
      BY <1>0, <2>1, <2>2
    <2> QED
      BY <2>2, <2>3, MarkKept
  <1>6. CASE Settle
    <2>1. Taken \in Messages /\ UNCHANGED <<tries, sealed>> /\ row' = [row EXCEPT ![Taken] = "done"]
      BY <1>0, <1>6, TakenOff DEF Settle, Done
    <2>2. mark' = (IF Found(Taken) THEN [mark EXCEPT ![Taken] = [kind |-> "sent", first |-> 0]] ELSE mark)
      BY <1>6 DEF Settle
    <2>3. CASE m # Taken
      <3>1. row'[m] = row[m] /\ mark'[m] = mark[m]
        BY <1>0, <2>1, <2>2, <2>3
      <3> QED
        BY <2>1, <3>1, MarkKept
    <2>4. CASE m = Taken /\ Found(Taken)
      <3>1. mark'[m].kind = "sent"
        BY <1>0, <2>2, <2>4
      <3> QED
        BY <2>1, <3>1, MarkClosed DEF ClosedMark
    <2>5. CASE m = Taken /\ ~ Found(Taken)
      <3>1. ClosedMark(m) /\ mark' = mark
        BY <1>6, <2>2, <2>5 DEF Settle
      <3> QED
        BY <1>0, <1>6, <2>1, <3>1 DEF MarkOK, ClosedMark, OpenMark, Settle, group
    <2> QED
      BY <2>3, <2>4, <2>5
  <1>7. CASE Send
    <2>1. Taken \in Messages /\ UNCHANGED <<tries, names, time>> /\ ~ ClosedMark(Taken)
      BY <1>0, <1>7, TakenOff DEF Send, group
    <2>2. ASSUME m # Taken PROVE UNCHANGED <<row[m], mark[m], sealed[m]>>
      BY <1>0, <1>7, <2>1, <2>2 DEF Send, Done, Keep
    <2>3. CASE m # Taken
      BY <2>1, <2>2, <2>3, MarkKept
    <2>4. CASE m = Taken /\ Conflicts(m)
      <3>1. /\ mark' = [mark EXCEPT ![m] = [kind |-> "unknown", first |-> 0]] /\ sealed' = sealed
        BY <1>7, <2>4 DEF Send
      <3>2. mark'[m].kind = "unknown" /\ ClosedMark(m)'
        BY <1>0, <3>1 DEF ClosedMark
      <3>3. names > 0
        <4>1. SUFFICES ASSUME ~ (names > 0) PROVE FALSE
          OBVIOUS
        <4>2. names = 0
          BY <1>0, <4>1 DEF IngestTypes
        <4>3. sealed[m] # NoEvent /\ sealed[m] # EventOf(m) /\ sealed[m] \in Events
          BY <1>0, <2>4 DEF Conflicts
        <4>4. sealed[m].of = m /\ sealed[m].text = names /\ sealed[m].text \in Nat
          BY <1>0, <4>2, <4>3 DEF MarkOK, Events
        <4>5. sealed[m].first = FirstTime(m)
          BY <1>0, <2>1, <2>4, <4>3 DEF MarkOK, FirstTime
        <4>6. sealed[m] = [of |-> sealed[m].of, first |-> sealed[m].first, text |-> sealed[m].text]
          BY <4>3 DEF Events
        <4> QED
          BY <4>3, <4>4, <4>5, <4>6 DEF EventOf
      <3> QED
        BY <1>0, <2>1, <3>1, <3>2, <3>3 DEF MarkOK
    <2>5. CASE m = Taken /\ ~ Conflicts(m)
      <3>1. /\ mark' = [mark EXCEPT ![m] = [kind |-> "pending", first |-> FirstTime(m)]]
            /\ sealed' = [sealed EXCEPT ![m] = EventOf(m)]
            /\ row' = [row EXCEPT ![m] = "leased"]
        BY <1>7, <2>5 DEF Send, Keep
      <3>2. /\ mark'[m].kind = "pending" /\ mark'[m].first = FirstTime(m)
            /\ sealed'[m] = EventOf(m) /\ row'[m] = "leased"
        BY <1>0, <3>1
      <3>3. /\ sealed'[m].of = m /\ sealed'[m].text = names /\ sealed'[m].first = FirstTime(m)
            /\ names \in Nat
        BY <1>0, <3>2 DEF EventOf, IngestTypes
      <3>4. OpenMark(m)' /\ ~ ClosedMark(m)'
        BY <3>2 DEF OpenMark, ClosedMark
      <3>5. tries[m] < Attempts
        BY <1>0, <2>1, <2>5 DEF MarkOK
      <3> QED
        BY <2>1, <3>2, <3>3, <3>4, <3>5 DEF MarkOK
    <2> QED
      BY <2>3, <2>4, <2>5
  <1>8. CASE Acknowledge \/ TryAgain
    <2> DEFINE s == sending.of
    <2>1. phase \in Working /\ sealed' = sealed
      BY <1>8 DEF Acknowledge, TryAgain, Working
    <2>2. s \in Messages /\ mark[s].kind = "pending" /\ sealed[s] = sending /\ sending # NoEvent
      BY <1>0, <2>1, SendingFacts
    <2>3. CASE Acknowledge
      <3>1. /\ mark' = [mark EXCEPT ![s] = [kind |-> "sent", first |-> 0]]
            /\ tries' = [tries EXCEPT ![s] = 0] /\ row' = [row EXCEPT ![s] = "done"]
        BY <2>3 DEF Acknowledge, Done
      <3> HIDE DEF s
      <3>2. CASE m = s
        <4>1. mark'[m].kind = "sent"
          BY <1>0, <2>2, <3>1, <3>2
        <4> QED
          BY <2>1, <4>1, MarkClosed DEF ClosedMark
      <3>3. CASE m # s
        <4>1. UNCHANGED <<row[m], mark[m], tries[m]>>
          BY <1>0, <2>2, <3>1, <3>3
        <4> QED
          BY <2>1, <4>1, MarkKept
      <3> QED
        BY <3>2, <3>3
    <2>4. CASE TryAgain
      <3> DEFINE n == tries[s] + 1
      <3>1. /\ tries' = [tries EXCEPT ![s] = n]
            /\ mark' = [mark EXCEPT ![s] = IF Exhausted(n) THEN [kind |-> "failed", first |-> 0]
                                           ELSE [@ EXCEPT !.kind = "retry"]]
            /\ IF Exhausted(n) THEN row' = [row EXCEPT ![s] = "done"] ELSE row' = row
        BY <2>4 DEF TryAgain, Done
      <3> HIDE DEF s, n
      <3>2. CASE m # s
        <4>1. UNCHANGED <<row[m], mark[m], tries[m]>>
          BY <1>0, <2>2, <3>1, <3>2
        <4> QED
          BY <2>1, <4>1, MarkKept
      <3>3. CASE m = s /\ Exhausted(n)
        <4>1. mark'[m].kind = "failed"
          BY <1>0, <2>2, <3>1, <3>3
        <4> QED
          BY <2>1, <4>1, MarkClosed DEF ClosedMark
      <3>4. CASE m = s /\ ~ Exhausted(n)
        <4>1. mark[m] \in Marks /\ mark'[m] = [mark[m] EXCEPT !.kind = "retry"] /\ tries'[m] = n
          BY <1>0, <2>2, <3>1, <3>4
        <4>2. mark'[m].kind = "retry" /\ mark'[m].first = mark[m].first
          BY <4>1 DEF Marks
        <4>3. row' = row /\ n < Attempts
          <5>1. n \in Nat
            BY <1>0, <2>2, IngestFacts DEF n
          <5> QED
            BY <3>1, <3>4, <5>1, IngestFacts DEF Exhausted
        <4>4. row[m] # "done" /\ ~ ClosedMark(m)
          BY <1>0, <2>2, <3>4 DEF MarkOK, ClosedMark
        <4>5. OpenMark(m)' /\ ~ ClosedMark(m)'
          BY <4>2 DEF OpenMark, ClosedMark
        <4>6. names' = names /\ time' = time
          BY <2>4 DEF TryAgain, group
        <4> QED
          BY <1>0, <2>1, <4>1, <4>2, <4>3, <4>4, <4>5, <4>6 DEF MarkOK
      <3> QED
        BY <3>2, <3>3, <3>4
    <2> QED
      BY <1>8, <2>3, <2>4
  <1>9. CASE Kill
    <2>1. UNCHANGED <<row, tries, sealed>>
      BY <1>9 DEF Kill, FirstSave
    <2>2. CASE mark' = mark
      BY <1>1, <2>1, <2>2
    <2>3. CASE mark' # mark
      <3> DEFINE s == sending.of
      <3>1. phase \in Working /\ mark' = [mark EXCEPT ![s] = [kind |-> "sent", first |-> 0]]
        BY <1>9, <2>3 DEF Kill, FirstSave, Working
      <3>2. s \in Messages
        BY <1>0, <3>1, SendingFacts
      <3> HIDE DEF s
      <3>3. CASE m = s
        <4>1. mark'[m].kind = "sent"
          BY <1>0, <3>1, <3>2, <3>3
        <4> QED
          BY <2>1, <4>1, MarkClosed DEF ClosedMark
      <3>4. CASE m # s
        <4>1. mark'[m] = mark[m]
          BY <1>0, <3>1, <3>2, <3>4
        <4> QED
          BY <2>1, <4>1, MarkKept
      <3> QED
        BY <3>3, <3>4
    <2> QED
      BY <2>2, <2>3
  <1>10. CASE \E n \in Messages : LeaseEnds(n)
    <2>1. PICK n \in Messages : row' = [row EXCEPT ![n] = "due"] /\ UNCHANGED <<mark, tries, sealed>>
      BY <1>10 DEF LeaseEnds, marks
    <2>2. row'[m] = "done" => row[m] = "done"
      BY <1>0, <2>1
    <2> QED
      BY <2>1, <2>2, MarkKept
  <1>11. CASE Reconfigure \/ Later \/ \E n \in Messages : Show(n)
    BY <1>1, <1>11 DEF Reconfigure, Later, Show, queue, marks
  <1>12. CASE (\E e \in coming : Arrives(e)) \/ UNCHANGED ingestVars
    BY <1>1, <1>12 DEF Arrives, ingestVars, queue, marks
  <1> QED
    BY <1>2, <1>3, <1>4, <1>5, <1>6, <1>7, <1>8, <1>9, <1>10, <1>11, <1>12 DEF IngestNext, ScanStep

\* The next scan of the same scope begins at the overlap of the last.
LEMMA NextStart ==
    ASSUME NEW s, s.end \in Nat
    PROVE  AfterComplete(s) = IF s.end - ScanOverlap >= ScanFloor THEN s.end - ScanOverlap ELSE ScanFloor
  <1>1. ScanFloor \in Int /\ s.end - ScanOverlap \in Int
    BY IngestFacts
  <1>2. AfterComplete(s) = IF ScanFloor >= s.end - ScanOverlap THEN ScanFloor ELSE s.end - ScanOverlap
    BY <1>1, MaxOfTwo DEF AfterComplete
  <1> QED
    BY <1>1, <1>2

\* A read from the cursor does not begin after its overlap.
LEMMA ReadFromBound ==
    ASSUME IngestTypes
    PROVE  /\ ReadFrom \in Nat /\ ReadFrom >= ScanFloor
           /\ ReadFrom <= ScanFloor \/ ReadFrom <= since - ScanOverlap
  <1> DEFINE a == Max({since - ScanOverlap, ScanFloor})
             S == {a} \cup {SentAt[m] : m \in Unresolved}
  <1>1. since \in Nat /\ ScanFloor \in Nat /\ ScanOverlap \in Nat
    BY IngestFacts DEF IngestTypes
  <1>2. a = IF since - ScanOverlap >= ScanFloor THEN since - ScanOverlap ELSE ScanFloor
    BY <1>1, MaxOfTwo
  <1>3. a \in Nat
    BY <1>1, <1>2
  <1> HIDE DEF a
  <1>4. S \subseteq Int /\ IsFiniteSet(S) /\ S # {} /\ a \in S
    <2>1. IsFiniteSet(Unresolved) /\ Unresolved \subseteq Messages
      BY MessageSets DEF Unresolved
    <2>2. IsFiniteSet({SentAt[m] : m \in Unresolved})
      BY <2>1, ImageIsFinite
    <2>3. IsFiniteSet(S)
      BY <2>2, FS_Singleton, FS_Union
    <2>4. \A m \in Unresolved : SentAt[m] \in Int
      BY <2>1, IngestFacts
    <2> QED
      BY <1>3, <2>3, <2>4
  <1>5. Min(S) \in Int /\ Min(S) <= a
    <2> HIDE DEF S
    <2>1. Min(S) \in S /\ \A y \in S : Min(S) <= y
      BY <1>4, MinIsLeast
    <2> QED
      BY <1>4, <2>1
  <1>6. ReadFrom = IF ScanFloor >= Min(S) THEN ScanFloor ELSE Min(S)
    <2>1. ReadFrom = Max({ScanFloor, Min(S)})
      BY DEF ReadFrom, a
    <2> HIDE DEF S
    <2> QED
      BY <1>1, <1>5, <2>1, MaxOfTwo
  <1> HIDE DEF S
  <1> QED
    BY <1>1, <1>2, <1>3, <1>5, <1>6

\* The open rows only hold the cursor back.
LEMMA HeldBetween ==
    ASSUME IngestTypes, NEW c \in Nat, since <= c
    PROVE  Held(c) \in Nat /\ since <= Held(c) /\ Held(c) <= c
  <1> DEFINE T == {n \in Messages : OpenMark(n) \/ mark[n].kind = "unknown"}
             f == [m \in T |-> Max({0, SentAt[m] - 1})]
             S == {c} \cup {f[m] : m \in T}
  <1>1. since \in Nat
    BY IngestFacts DEF IngestTypes
  <1>2. \A m \in T : f[m] \in Int
    <2> SUFFICES ASSUME NEW m \in T PROVE f[m] \in Int
      OBVIOUS
    <2>1. SentAt[m] - 1 \in Int /\ 0 \in Int
      BY IngestFacts
    <2>2. Max({0, SentAt[m] - 1}) = IF 0 >= SentAt[m] - 1 THEN 0 ELSE SentAt[m] - 1
      BY <2>1, MaxOfTwo
    <2> QED
      BY <2>1, <2>2
  <1>3. S \subseteq Int /\ IsFiniteSet(S) /\ S # {} /\ c \in S
    <2>1. IsFiniteSet(T)
      BY MessageSets
    <2> HIDE DEF T, f
    <2>2. IsFiniteSet({f[m] : m \in T})
      BY <2>1, ImageIsFinite
    <2>3. IsFiniteSet(S)
      BY <2>2, FS_Singleton, FS_Union
    <2> QED
      BY <1>2, <2>3
  <1>4. Held(c) = Max({since, Min(S)})
    BY DEF Held
  <1> HIDE DEF S
  <1>5. Min(S) \in Int /\ Min(S) <= c
    BY <1>3, MinIsLeast
  <1>6. Held(c) = IF since >= Min(S) THEN since ELSE Min(S)
    BY <1>1, <1>4, <1>5, MaxOfTwo
  <1> QED
    BY <1>1, <1>5, <1>6

\* The watermark is not after the end of the scan.
LEMMA WatermarkBetween ==
    ASSUME IngestTypes, ReadOK
    PROVE  ScanWatermark \in Nat /\ since <= ScanWatermark /\ ScanWatermark <= scan.end
  <1>1. since \in Nat /\ scan.end \in Nat /\ since <= scan.end
    BY IngestFacts DEF IngestTypes, ReadOK, Scans
  <1>2. Max({since, scan.end}) = IF since >= scan.end THEN since ELSE scan.end
    BY <1>1, MaxOfTwo
  <1> QED
    BY <1>1, <1>2 DEF ScanWatermark

\* A scan that begins now starts where everything unread is still to come.
LEMMA BegunCovers ==
    ASSUME IngestTypes, ReadOK
    PROVE  LET s == ScanBegun(time)
           IN  /\ s \in Scans /\ s.start <= s.end /\ scan.end <= s.end /\ s.end <= time
               /\ ~ s.complete /\ s.scope = query
               /\ \A m \in Messages :
                     Unread(m) => InScan(m, s) \/ SentAt[m] >= AfterComplete(s)
  <1> DEFINE start == IF scan.scope = query THEN AfterComplete(scan) ELSE Rescoped(scan)
             fresh == [scope |-> query, start |-> start, end |-> time, token |-> 0, complete |-> FALSE]
  <1>1. /\ scan \in Scans /\ time \in Times /\ time \in Nat /\ since \in Nat /\ query \in Nat
        /\ scan.start \in Nat /\ scan.end \in Nat /\ scan.complete \in BOOLEAN
        /\ scan.start <= scan.end /\ scan.end <= time /\ since <= scan.end /\ ScanFloor <= time
        /\ Times = 0 .. LastTime /\ time <= LastTime
        /\ ScanFloor \in Nat /\ ScanOverlap \in Nat /\ LastTime \in Nat
    BY IngestFacts DEF IngestTypes, ReadOK, Scans, Times
  <1>2. AfterComplete(scan) = IF scan.end - ScanOverlap >= ScanFloor THEN scan.end - ScanOverlap ELSE ScanFloor
    BY <1>1, NextStart
  <1>3. ReadFrom \in Nat /\ (ReadFrom <= ScanFloor \/ ReadFrom <= since - ScanOverlap)
    BY ReadFromBound
  <1>4. /\ Rescoped(scan) \in Nat
        /\ scan.complete => Rescoped(scan) = ReadFrom
        /\ ~ scan.complete => Rescoped(scan) <= ReadFrom /\ Rescoped(scan) <= scan.start
    <2>1. {ReadFrom, scan.start} \subseteq Int /\ IsFiniteSet({ReadFrom, scan.start}) /\ {ReadFrom, scan.start} # {}
      <3>1. IsFiniteSet({ReadFrom} \cup {scan.start}) /\ {ReadFrom} \cup {scan.start} = {ReadFrom, scan.start}
        BY FS_Singleton, FS_AddElement
      <3>2. ReadFrom \in Int /\ scan.start \in Int
        BY <1>1, <1>3
      <3> QED
        BY <3>1, <3>2
    <2>2. /\ Min({ReadFrom, scan.start}) \in {ReadFrom, scan.start}
          /\ Min({ReadFrom, scan.start}) <= ReadFrom /\ Min({ReadFrom, scan.start}) <= scan.start
      BY <2>1, MinIsLeast
    <2> QED
      BY <1>1, <1>3, <2>2 DEF Rescoped
  <1>5. CASE scan.scope = query /\ ~ scan.complete
    <2>1. ScanBegun(time) = scan
      BY <1>5 DEF ScanBegun
    <2> QED
      BY <1>1, <1>5, <2>1 DEF ReadOK
  <1>6. CASE ~ (scan.scope = query /\ ~ scan.complete)
    <2>1. ScanBegun(time) = fresh
      BY <1>6 DEF ScanBegun
    <2>2. start \in Nat /\ start <= time
      BY <1>1, <1>2, <1>3, <1>4
    <2>3. ASSUME NEW m \in Messages, Unread(m) PROVE start <= SentAt[m]
      <3>1. SentAt[m] \in Nat /\ SentAt[m] >= ScanFloor
        BY <2>3, IngestFacts DEF Unread
      <3>2. (~ scan.complete /\ InScan(m, scan)) \/ SentAt[m] >= AfterComplete(scan)
        BY <2>3 DEF ReadOK
      <3>3. CASE ~ scan.complete /\ InScan(m, scan)
        <4>1. scan.start <= SentAt[m]
          BY <3>3 DEF InScan
        <4>2. start = Rescoped(scan)
          BY <1>6, <3>3
        <4> QED
          BY <1>1, <1>4, <3>1, <3>3, <4>1, <4>2
      <3>4. CASE SentAt[m] >= AfterComplete(scan)
        BY <1>1, <1>2, <1>3, <1>4, <3>1, <3>4
      <3> QED
        BY <3>2, <3>3, <3>4
    <2> HIDE DEF start
    <2>4. /\ fresh.start = start /\ fresh.end = time /\ fresh.token = 0 /\ ~ fresh.complete
          /\ fresh.scope = query
      OBVIOUS
    <2>5. fresh \in Scans
      <3>1. start \in Times
        BY <1>1, <2>2
      <3> QED
        BY <1>1, <3>1 DEF Scans
    <2> HIDE DEF fresh
    <2>6. AfterComplete(fresh) = IF time - ScanOverlap >= ScanFloor THEN time - ScanOverlap ELSE ScanFloor
      BY <1>1, <2>4, NextStart
    <2>7. ASSUME NEW m \in Messages, Unread(m)
          PROVE  InScan(m, fresh) \/ SentAt[m] >= AfterComplete(fresh)
      <3>1. SentAt[m] \in Nat /\ SentAt[m] >= ScanFloor /\ m \in Nat /\ m >= 1
        BY <2>7, IngestFacts DEF Unread
      <3>2. CASE SentAt[m] <= time
        BY <2>3, <2>4, <2>7, <3>1, <3>2 DEF InScan
      <3>3. CASE ~ (SentAt[m] <= time)
        BY <1>1, <2>6, <3>1, <3>3
      <3> QED
        BY <3>2, <3>3
    <2> QED
      BY <1>1, <2>1, <2>2, <2>4, <2>5, <2>7
  <1> QED
    BY <1>5, <1>6

\* A closed mark stays closed.
LEMMA ClosedStays ==
    ASSUME IngestInv, [IngestNext]_ingestVars, NEW m \in Messages, ClosedMark(m)
    PROVE  ClosedMark(m)'
  <1>0. IngestTypes /\ QueueOK /\ SealOK /\ mark \in [Messages -> Marks]
    BY DEF IngestInv, IngestTypes
  <1>1. ASSUME mark'[m] = mark[m] PROVE ClosedMark(m)'
    BY <1>1 DEF ClosedMark
  <1>2. ASSUME NEW n \in Messages, mark' = [mark EXCEPT ![n] = [kind |-> "sent", first |-> 0]]
        PROVE  ClosedMark(m)'
    <2>1. m = n => mark'[m].kind = "sent"
      BY <1>0, <1>2
    <2>2. m # n => mark'[m] = mark[m]
      BY <1>0, <1>2
    <2> QED
      BY <1>1, <2>1, <2>2 DEF ClosedMark
  <1>3. CASE StartScan
    <2>1. ~ OpenMark(m)
      BY DEF OpenMark, ClosedMark
    <2> QED
      BY <1>1, <1>3, <2>1 DEF StartScan, StaleClosed
  <1>4. CASE Settle
    <2>1. Taken \in Messages
      BY <1>0, <1>4, TakenOff DEF Settle
    <2>2. mark' = (IF Found(Taken) THEN [mark EXCEPT ![Taken] = [kind |-> "sent", first |-> 0]] ELSE mark)
      BY <1>4 DEF Settle
    <2>3. PICK n \in Messages : n = Taken
      BY <2>1
    <2> QED
      BY <1>1, <1>2, <2>2, <2>3
  <1>5. CASE Send
    <2>1. Taken \in Messages /\ ~ ClosedMark(Taken)
      BY <1>0, <1>5, TakenOff DEF Send
    <2>2. mark'[m] = mark[m]
      BY <1>0, <1>5, <2>1 DEF Send
    <2> QED
      BY <1>1, <2>2
  <1>6. CASE Acknowledge \/ TryAgain
    <2>1. phase \in Working
      BY <1>6 DEF Acknowledge, TryAgain, Working
    <2>2. PICK n \in Messages : n = sending.of /\ mark[n].kind = "pending"
      BY <1>0, <2>1, SendingFacts
    <2>3. n # m
      BY <2>2 DEF ClosedMark
    <2>4. mark'[m] = mark[m]
      BY <1>0, <1>6, <2>2, <2>3 DEF Acknowledge, TryAgain
    <2> QED
      BY <1>1, <2>4
  <1>7. CASE Kill
    <2>1. mark' = mark \/ (phase = "accepted" /\ mark' = [mark EXCEPT ![sending.of] = [kind |-> "sent", first |-> 0]])
      BY <1>7 DEF Kill, FirstSave
    <2>2. CASE phase = "accepted"
      <3>1. PICK n \in Messages : n = sending.of
        BY <1>0, <2>2, SendingFacts DEF Working
      <3> QED
        BY <1>1, <1>2, <2>1, <3>1
    <2> QED
      BY <1>1, <2>1, <2>2
  <1>8. CASE ReadPage \/ SkipPage \/ PageFails \/ TimeUp \/ EndScan \/ Published \/ NotAnswered \/ Hold \/ ReadFails
    BY <1>1, <1>8 DEF ReadPage, SkipPage, PageFails, TimeUp, EndScan, Published, NotAnswered, Hold, ReadFails, marks
  <1>9. CASE Reconfigure \/ Later \/ \E n \in Messages : LeaseEnds(n) \/ Show(n)
    BY <1>1, <1>9 DEF Reconfigure, Later, LeaseEnds, Show, marks
  <1>10. CASE (\E e \in coming : Arrives(e)) \/ UNCHANGED ingestVars
    BY <1>1, <1>10 DEF Arrives, ingestVars, marks
  <1> QED
    BY <1>3, <1>4, <1>5, <1>6, <1>7, <1>8, <1>9, <1>10 DEF IngestNext, ScanStep

\* What the history shows, it shows in time.
LEMMA ListedStep ==
    ASSUME IngestInv, [IngestNext]_ingestVars
    PROVE  /\ visible' \subseteq Messages
           /\ \A m \in visible' : m \in visible \/ (SentAt[m] <= time /\ time <= SentAt[m] + Lag[m])
  <1>0. visible \subseteq Messages
    BY DEF IngestInv, IngestTypes
  <1>1. CASE visible' = visible
    BY <1>0, <1>1
  <1>2. CASE \E m \in Messages : Show(m)
    BY <1>0, <1>2 DEF Show
  <1>3. CASE Reconfigure \/ Later \/ \E m \in Messages : LeaseEnds(m)
    BY <1>1, <1>3 DEF Reconfigure, Later, LeaseEnds, group
  <1>4. CASE StartScan \/ ReadPage \/ SkipPage \/ PageFails \/ TimeUp \/ EndScan \/ Kill
    BY <1>1, <1>4 DEF StartScan, ReadPage, SkipPage, PageFails, TimeUp, EndScan, Kill, group
  <1>5. CASE Settle \/ Hold \/ ReadFails \/ Send \/ Published \/ NotAnswered \/ Acknowledge \/ TryAgain
    BY <1>1, <1>5 DEF Settle, Hold, ReadFails, Send, Published, NotAnswered, Acknowledge, TryAgain, group
  <1>6. CASE (\E e \in coming : Arrives(e)) \/ UNCHANGED ingestVars
    BY <1>1, <1>6 DEF Arrives, ingestVars, group
  <1> QED
    BY <1>2, <1>3, <1>4, <1>5, <1>6 DEF IngestNext, ScanStep

\* No step makes a message unread again.
LEMMA UnreadShrinks ==
    ASSUME IngestInv, [IngestNext]_ingestVars, NEW m \in Messages, Unread(m)'
    PROVE  Unread(m)
  <1>1. SentAt[m] \in Nat /\ Lag[m] \in Nat /\ time \in Nat /\ MarkOK(m)
    BY IngestFacts DEF IngestInv, IngestTypes
  <1>2. time' >= time /\ time' \in Nat
    BY GroupForward
  <1>3. ~ ClosedMark(m)
    BY ClosedStays DEF Unread
  <1>4. row[m] = "absent"
    <2>1. CASE StartScan
      <3>1. row'[m] = row[m] \/ row[m] = "done"
        BY <2>1 DEF StartScan
      <3> QED
        BY <1>1, <1>3, <3>1 DEF Unread, MarkOK
    <2>2. CASE ~ StartScan
      BY <2>2, RowsGoForward DEF RowForward, Unread
    <2> QED
      BY <2>1, <2>2
  <1>5. m \in visible \/ time <= SentAt[m] + Lag[m]
    BY <1>1, <1>2, ListedStep DEF Unread
  <1> QED
    BY <1>3, <1>4, <1>5 DEF Unread

LEMMA IngestReadStep ==
    ASSUME IngestInv, [IngestNext]_ingestVars
    PROVE  ReadOK' /\ scan' \in Scans /\ since' \in Times
  <1>0. /\ IngestTypes /\ ReadOK /\ scan \in Scans /\ since \in Nat /\ time \in Nat
        /\ scan.start \in Nat /\ scan.end \in Nat /\ scan.complete \in BOOLEAN
        /\ Times = 0 .. LastTime /\ LastTime \in Nat /\ ScanFloor \in Nat /\ ScanOverlap \in Nat
    BY IngestFacts DEF IngestInv, IngestTypes, Scans, Times
  <1>1. time' >= time /\ time' \in Nat /\ time' <= LastTime
    BY <1>0, GroupForward
  <1>2. \A m \in visible' : SentAt[m] <= time'
    <2> SUFFICES ASSUME NEW m \in visible' PROVE SentAt[m] <= time'
      OBVIOUS
    <2>1. m \in Messages /\ SentAt[m] \in Nat /\ SentAt[m] <= time
      BY <1>0, ListedStep, IngestFacts DEF ReadOK
    <2> QED
      BY <1>0, <1>1, <2>1
  <1>3. ASSUME scan' = scan, since <= since', since' <= scan.end, since' \in Nat
        PROVE  ReadOK' /\ scan' \in Scans /\ since' \in Times
    <2>1. \A m \in Messages : Unread(m)' => \/ ~ scan.complete /\ InScan(m, scan)
                                            \/ SentAt[m] >= AfterComplete(scan)
      BY <1>0, UnreadShrinks DEF ReadOK
    <2>2. /\ scan.start <= scan.end /\ scan.end <= time' /\ ScanFloor <= time' /\ since' \in Times
      BY <1>0, <1>1, <1>3 DEF ReadOK
    <2> QED
      BY <1>0, <1>2, <1>3, <2>1, <2>2 DEF ReadOK, InScan, AfterComplete
  <1>4. ASSUME UNCHANGED <<scan, since>>
        PROVE  ReadOK' /\ scan' \in Scans /\ since' \in Times
    BY <1>0, <1>3, <1>4 DEF ReadOK
  <1>5. CASE StartScan
    <2> DEFINE s == ScanBegun(time)
    <2>1. scan' = s /\ since' = since /\ time' = time
      BY <1>5 DEF StartScan, group
    <2>2. /\ s \in Scans /\ s.start <= s.end /\ scan.end <= s.end /\ s.end <= time
          /\ \A m \in Messages : Unread(m) => (~ s.complete /\ InScan(m, s)) \/ SentAt[m] >= AfterComplete(s)
      BY <1>0, BegunCovers
    <2> HIDE DEF s
    <2>3. s.end \in Nat
      BY <2>2, IngestFacts DEF Scans
    <2>4. since <= s.end
      BY <1>0, <2>2, <2>3 DEF ReadOK
    <2>5. \A m \in Messages : Unread(m)' => (~ s.complete /\ InScan(m, s)) \/ SentAt[m] >= AfterComplete(s)
      BY <2>2, UnreadShrinks
    <2>6. since' \in Times
      BY <1>0, <2>1 DEF IngestTypes
    <2>7. ScanFloor <= time'
      BY <1>0, <2>1 DEF ReadOK
    <2> QED
      BY <1>2, <2>1, <2>2, <2>4, <2>5, <2>6, <2>7 DEF ReadOK, InScan, AfterComplete
  <1>6. CASE ReadPage
    <2> DEFINE more == \E m \in visible \ Page : InScan(m, scan)
    <2>1. /\ scan' = [scan EXCEPT !.token = IF more THEN Max(Page) ELSE 0, !.complete = ~ more]
          /\ row' = [m \in Messages |-> IF m \in Page /\ row[m] = "absent" THEN "new" ELSE row[m]]
          /\ since' = since /\ visible' = visible /\ time' = time
      BY <1>6 DEF ReadPage, Captured, group
    <2>2. /\ Page \subseteq Messages
          /\ \A m \in visible \ Page : InScan(m, scan) => Page # {} /\ \A p \in Page : p < m
      BY <1>0, PageFacts
    <2>3. more => Page # {} /\ Max(Page) \in Page
      <3>1. Page \subseteq Int /\ IsFiniteSet(Page)
        BY <2>2, MessageSets
      <3> QED
        BY <2>2, <3>1, MaxIsGreatest
    <2>4. /\ scan' \in Scans /\ scan'.start = scan.start /\ scan'.end = scan.end
          /\ scan'.complete = (~ more) /\ scan'.token = IF more THEN Max(Page) ELSE 0
      <3>1. (IF more THEN Max(Page) ELSE 0) \in Messages \cup {0}
        BY <2>2, <2>3
      <3> HIDE DEF more
      <3> QED
        BY <1>0, <2>1, <3>1 DEF Scans
    <2>5. ASSUME NEW m \in Messages, Unread(m)'
          PROVE  (~ scan'.complete /\ InScan(m, scan')) \/ SentAt[m] >= AfterComplete(scan')
      <3>1. Unread(m) /\ row'[m] = "absent" /\ row[m] = "absent"
        BY <2>5, UnreadShrinks DEF Unread
      <3>2. m \notin Page
        BY <2>1, <3>1
      <3>3. (~ scan.complete /\ InScan(m, scan)) \/ SentAt[m] >= AfterComplete(scan)
        BY <1>0, <3>1 DEF ReadOK
      <3>4. AfterComplete(scan') = AfterComplete(scan)
        BY <2>4 DEF AfterComplete
      <3>5. CASE m \in visible /\ InScan(m, scan)
        <4>1. more /\ Max(Page) < m
          BY <2>2, <2>3, <3>2, <3>5
        <4>2. InScan(m, scan')
          BY <2>4, <3>5, <4>1 DEF InScan
        <4> QED
          BY <2>4, <4>1, <4>2
      <3>6. CASE m \notin visible
        <4>1. time <= SentAt[m] + Lag[m] /\ SentAt[m] >= ScanFloor
          BY <3>1, <3>6 DEF Unread
        <4>2. SentAt[m] \in Nat /\ Lag[m] \in Nat /\ Lag[m] <= ScanOverlap
          BY IngestFacts
        <4>3. scan.end <= time
          BY <1>0 DEF ReadOK
        <4>4. SentAt[m] >= AfterComplete(scan)
          BY <1>0, <4>1, <4>2, <4>3, NextStart
        <4> QED
          BY <3>4, <4>4
      <3> QED
        BY <3>3, <3>4, <3>5, <3>6
    <2>6. since' \in Times
      BY <1>0, <2>1 DEF IngestTypes
    <2> QED
      BY <1>0, <1>2, <2>1, <2>4, <2>5, <2>6 DEF ReadOK
  <1>7. CASE PageFails
    <2>1. scan' = [scan EXCEPT !.token = 0] /\ since' = since /\ time' = time
      BY <1>7 DEF PageFails, TokenLost, group
    <2>2. /\ scan' \in Scans /\ scan'.start = scan.start /\ scan'.end = scan.end
          /\ scan'.complete = scan.complete /\ scan'.token = 0
      BY <1>0, <2>1 DEF Scans
    <2>3. ASSUME NEW m \in Messages, Unread(m)'
          PROVE  (~ scan'.complete /\ InScan(m, scan')) \/ SentAt[m] >= AfterComplete(scan')
      <3>1. (~ scan.complete /\ InScan(m, scan)) \/ SentAt[m] >= AfterComplete(scan)
        BY <1>0, <2>3, UnreadShrinks DEF ReadOK
      <3>2. AfterComplete(scan') = AfterComplete(scan)
        BY <2>2 DEF AfterComplete
      <3>3. m > 0
        BY IngestFacts
      <3>4. InScan(m, scan) => InScan(m, scan')
        BY <2>2, <3>3 DEF InScan
      <3> QED
        BY <2>2, <3>1, <3>2, <3>4
    <2>4. since' \in Times
      BY <1>0, <2>1 DEF IngestTypes
    <2> QED
      BY <1>0, <1>2, <2>1, <2>2, <2>3, <2>4 DEF ReadOK
  <1>8. CASE EndScan
    <2>1. scan' = scan /\ (since' = Held(ScanWatermark) \/ since' = since)
      BY <1>8 DEF EndScan
    <2>2. ScanWatermark \in Nat /\ since <= ScanWatermark /\ ScanWatermark <= scan.end
      BY <1>0, WatermarkBetween
    <2>3. PICK w \in Nat : w = ScanWatermark
      BY <2>2
    <2>4. Held(w) \in Nat /\ since <= Held(w) /\ Held(w) <= w
      BY <1>0, <2>2, <2>3, HeldBetween
    <2>5. since <= scan.end
      BY <1>0 DEF ReadOK
    <2>6. since <= since' /\ since' <= scan.end /\ since' \in Nat
      BY <1>0, <2>1, <2>2, <2>3, <2>4, <2>5
    <2> QED
      BY <1>3, <2>1, <2>6
  <1>9. CASE SkipPage \/ TimeUp \/ Published \/ NotAnswered \/ Acknowledge \/ TryAgain \/ Kill
    BY <1>4, <1>9 DEF SkipPage, TimeUp, Published, NotAnswered, Acknowledge, TryAgain, Kill
  <1>10. CASE Settle \/ Hold \/ ReadFails \/ Send
    BY <1>4, <1>10 DEF Settle, Hold, ReadFails, Send
  <1>11. CASE Reconfigure \/ Later \/ \E m \in Messages : LeaseEnds(m) \/ Show(m)
    BY <1>4, <1>11 DEF Reconfigure, Later, LeaseEnds, Show
  <1>12. CASE (\E e \in coming : Arrives(e)) \/ UNCHANGED ingestVars
    BY <1>4, <1>12 DEF Arrives, ingestVars
  <1> QED
    BY <1>5, <1>6, <1>7, <1>8, <1>9, <1>10, <1>11, <1>12 DEF IngestNext, ScanStep

LEMMA IngestTypesStep ==
    ASSUME IngestInv, [IngestNext]_ingestVars
    PROVE  IngestTypes'
  <1>0. IngestTypes /\ QueueOK /\ SealOK
    BY DEF IngestInv
  <1>1. /\ row' \in [Messages -> RowKinds]
        /\ due' \in Seq(Messages) /\ leases' \in Seq(Messages) /\ batch' \in Seq(Messages)
    BY QueueStep DEF Queued
  <1>2. scan' \in Scans /\ since' \in Times
    BY IngestReadStep
  <1>3. visible' \subseteq Messages /\ time' \in Times /\ names' \in Nat
    BY ListedStep, GroupForward
  <1>4. phase \in Working => sending \in Events /\ sending.of \in Messages
    BY <1>0, SendingFacts
  <1>5. (batch # <<>>) => Taken \in Messages
    BY <1>0, TakenOff
  <1>6. \A m \in Messages : EventOf(m) \in Events /\ FirstTime(m) \in Nat
    <2> SUFFICES ASSUME NEW m \in Messages PROVE EventOf(m) \in Events /\ FirstTime(m) \in Nat
      OBVIOUS
    <2>1. mark[m].first \in Nat /\ at \in Nat /\ names \in Nat
      BY <1>0, IngestFacts DEF IngestTypes, Marks
    <2>2. FirstTime(m) \in Nat
      BY <2>1 DEF FirstTime
    <2> QED
      BY <2>1, <2>2 DEF EventOf, Events
  <1>7. query' \in Nat /\ trouble' \in Nat
    <2>1. query \in Nat /\ trouble \in Nat
      BY <1>0 DEF IngestTypes
    <2>2. CASE StartScan \/ ReadPage \/ SkipPage \/ TimeUp \/ EndScan
      BY <2>1, <2>2 DEF StartScan, ReadPage, SkipPage, TimeUp, EndScan, group
    <2>6. CASE PageFails \/ Kill
      <3>1. query' = query /\ trouble' = trouble + 1
        BY <2>6 DEF PageFails, Kill, group
      <3> QED
        BY <2>1, <3>1
    <2>3. CASE Settle \/ Hold \/ ReadFails \/ Send \/ Published \/ NotAnswered \/ Acknowledge \/ TryAgain
      BY <2>1, <2>3
      DEF Settle, Hold, ReadFails, Send, Published, NotAnswered, Acknowledge, TryAgain, group
    <2>4. CASE Reconfigure \/ Later \/ \E m \in Messages : LeaseEnds(m) \/ Show(m)
      BY <2>1, <2>4 DEF Reconfigure, Later, LeaseEnds, Show, group
    <2>5. CASE (\E e \in coming : Arrives(e)) \/ UNCHANGED ingestVars
      BY <2>1, <2>5 DEF Arrives, ingestVars, group
    <2> QED
      BY <2>2, <2>3, <2>4, <2>5, <2>6 DEF IngestNext, ScanStep
  <1>8. mark' \in [Messages -> Marks] /\ tries' \in [Messages -> 0 .. Attempts]
    <2>1. /\ mark \in [Messages -> Marks] /\ tries \in [Messages -> 0 .. Attempts]
          /\ Attempts \in Nat /\ Attempts >= 1
      BY <1>0, IngestFacts DEF IngestTypes
    <2>2. ASSUME NEW m \in Messages, NEW k \in Marks,
                 mark' = [mark EXCEPT ![m] = k] \/ mark' = mark
          PROVE  mark' \in [Messages -> Marks]
      BY <2>1, <2>2
    <2>3. \A k \in MarkKinds : [kind |-> k, first |-> 0] \in Marks
      BY DEF Marks
    <2>4. "sent" \in MarkKinds /\ "unknown" \in MarkKinds /\ "failed" \in MarkKinds
          /\ "pending" \in MarkKinds /\ "retry" \in MarkKinds
      BY DEF MarkKinds
    <2>5. CASE UNCHANGED <<mark, tries>>
      BY <2>1, <2>5
    <2>6. CASE StartScan
      <3>1. mark' = StaleClosed /\ tries' = tries
        BY <2>6 DEF StartScan
      <3>2. StaleClosed \in [Messages -> Marks]
        <4>1. ASSUME NEW m \in Messages
              PROVE  [kind |-> IF mark[m].kind = "pending" THEN "unknown" ELSE "failed", first |-> 0] \in Marks
          BY <2>3, <2>4
        <4> QED
          BY <2>1, <4>1 DEF StaleClosed
      <3> QED
        BY <2>1, <3>1, <3>2
    <2>7. CASE Settle
      <3>1. Taken \in Messages /\ tries' = tries
        BY <1>5, <2>7 DEF Settle
      <3>2. mark' = [mark EXCEPT ![Taken] = [kind |-> "sent", first |-> 0]] \/ mark' = mark
        BY <2>7 DEF Settle
      <3>3. PICK m \in Messages : m = Taken
        BY <3>1
      <3> QED
        BY <2>1, <2>2, <2>3, <2>4, <3>1, <3>2, <3>3
    <2>8. CASE Send
      <3>1. Taken \in Messages /\ tries' = tries
        BY <1>5, <2>8 DEF Send
      <3>2. \/ mark' = [mark EXCEPT ![Taken] = [kind |-> "unknown", first |-> 0]]
            \/ mark' = [mark EXCEPT ![Taken] = [kind |-> "pending", first |-> FirstTime(Taken)]]
        BY <2>8 DEF Send
      <3>3. PICK m \in Messages : m = Taken
        BY <3>1
      <3>4. [kind |-> "pending", first |-> FirstTime(m)] \in Marks
        BY <1>6, <2>4 DEF Marks
      <3> QED
        BY <2>1, <2>2, <2>3, <2>4, <3>1, <3>2, <3>3, <3>4
    <2>9. CASE Acknowledge
      <3>1. PICK m \in Messages : m = sending.of
        BY <1>4, <2>9 DEF Acknowledge, Working
      <3>2. mark' = [mark EXCEPT ![m] = [kind |-> "sent", first |-> 0]] /\ tries' = [tries EXCEPT ![m] = 0]
        BY <2>9, <3>1 DEF Acknowledge
      <3>3. mark' \in [Messages -> Marks]
        BY <2>2, <2>3, <2>4, <3>2
      <3> QED
        BY <2>1, <3>2, <3>3
    <2>10. CASE TryAgain
      <3>1. PICK m \in Messages : m = sending.of /\ mark[m].kind = "pending"
        BY <1>0, <2>10, SendingFacts DEF TryAgain, Working
      <3> DEFINE n == tries[m] + 1
                 k == IF Exhausted(n) THEN [kind |-> "failed", first |-> 0] ELSE [mark[m] EXCEPT !.kind = "retry"]
      <3>2. mark' = [mark EXCEPT ![m] = k] /\ tries' = [tries EXCEPT ![m] = n]
        BY <2>1, <2>10, <3>1 DEF TryAgain
      <3>3. k \in Marks
        <4>1. [mark[m] EXCEPT !.kind = "retry"] \in Marks
          BY <2>1, <2>4 DEF Marks
        <4> QED
          BY <2>3, <2>4, <4>1
      <3>4. n \in 0 .. Attempts
        <4>1. MarkOK(m) /\ ~ ClosedMark(m)
          BY <3>1 DEF IngestInv, ClosedMark
        <4>2. tries[m] < Attempts /\ tries[m] \in 0 .. Attempts
          BY <2>1, <4>1 DEF MarkOK
        <4> QED
          BY <2>1, <4>2
      <3> HIDE DEF k, n
      <3>5. mark' \in [Messages -> Marks]
        BY <2>2, <3>2, <3>3
      <3> QED
        BY <2>1, <3>2, <3>4, <3>5
    <2>11. CASE Kill
      <3>1. tries' = tries
        BY <2>11 DEF Kill
      <3>2. mark' = mark \/ (phase = "accepted" /\ mark' = [mark EXCEPT ![sending.of] = [kind |-> "sent", first |-> 0]])
        BY <2>11 DEF Kill, FirstSave
      <3>3. phase = "accepted" => sending.of \in Messages
        BY <1>4 DEF Working
      <3> QED
        BY <2>1, <2>3, <2>4, <3>1, <3>2, <3>3
    <2>12. CASE ReadPage \/ SkipPage \/ PageFails \/ TimeUp \/ EndScan \/ Published \/ NotAnswered \/ Hold \/ ReadFails
      BY <2>5, <2>12
      DEF ReadPage, SkipPage, PageFails, TimeUp, EndScan, Published, NotAnswered, Hold, ReadFails, marks
    <2>13. CASE Reconfigure \/ Later \/ \E n \in Messages : LeaseEnds(n) \/ Show(n)
      BY <2>5, <2>13 DEF Reconfigure, Later, LeaseEnds, Show, marks
    <2>14. CASE (\E e \in coming : Arrives(e)) \/ UNCHANGED ingestVars
      BY <2>5, <2>14 DEF Arrives, ingestVars, marks
    <2> QED
      BY <2>6, <2>7, <2>8, <2>9, <2>10, <2>11, <2>12, <2>13, <2>14 DEF IngestNext, ScanStep
  <1>9. /\ sealed' \in [Messages -> Events \cup {NoEvent}] /\ sending' \in Events \cup {NoEvent}
        /\ relay' \subseteq Events /\ coming' \subseteq Events
    <2>1. /\ sealed \in [Messages -> Events \cup {NoEvent}] /\ sending \in Events \cup {NoEvent}
          /\ relay \subseteq Events /\ coming \subseteq Events
      BY <1>0 DEF IngestTypes
    <2>2. CASE StartScan \/ ReadPage \/ SkipPage \/ PageFails \/ TimeUp \/ EndScan \/ Kill
      BY <2>1, <2>2 DEF StartScan, ReadPage, SkipPage, PageFails, TimeUp, EndScan, Kill, marks, Quiet
    <2>3. CASE Settle \/ Hold \/ ReadFails \/ Acknowledge \/ TryAgain
      BY <2>1, <2>3 DEF Settle, Hold, ReadFails, Acknowledge, TryAgain, marks
    <2>4. CASE Send
      <3>1. EventOf(Taken) \in Events /\ Taken \in Messages
        BY <1>5, <1>6, <2>4 DEF Send
      <3> QED
        BY <2>1, <2>4, <3>1 DEF Send
    <2>5. CASE Published \/ NotAnswered
      <3>1. sending \in Events
        BY <1>4, <2>5 DEF Published, NotAnswered, Working
      <3> QED
        BY <2>1, <2>5, <3>1 DEF Published, NotAnswered, marks
    <2>6. CASE Reconfigure \/ Later \/ \E n \in Messages : LeaseEnds(n) \/ Show(n)
      BY <2>1, <2>6 DEF Reconfigure, Later, LeaseEnds, Show, marks, round
    <2>7. CASE (\E e \in coming : Arrives(e)) \/ UNCHANGED ingestVars
      BY <2>1, <2>7 DEF Arrives, ingestVars, marks, round
    <2> QED
      BY <2>2, <2>3, <2>4, <2>5, <2>6, <2>7 DEF IngestNext, ScanStep
  <1>10. waits' \subseteq Messages /\ context' \subseteq Messages /\ at' \in Times /\ phase' \in Phases
    <2>1. /\ waits \subseteq Messages /\ context \subseteq Messages /\ at \in Times /\ phase \in Phases
          /\ time \in Times /\ ScanFloor \in Times
      BY <1>0, IngestFacts DEF IngestTypes
    <2>2. CASE StartScan
      BY <2>1, <2>2 DEF StartScan, Remembered, Phases
    <2>3. CASE ReadPage \/ SkipPage \/ PageFails \/ TimeUp \/ EndScan \/ Kill
      BY <2>1, <2>3 DEF ReadPage, SkipPage, PageFails, TimeUp, EndScan, Kill, queue, Quiet, Phases
    <2>4. CASE Hold
      BY <1>5, <2>1, <2>4 DEF Hold, Phases
    <2>5. CASE Settle \/ ReadFails \/ Send
      BY <2>1, <2>5 DEF Settle, ReadFails, Send, Phases, Working
    <2>6. CASE Published \/ NotAnswered \/ Acknowledge \/ TryAgain
      BY <2>1, <2>6 DEF Published, NotAnswered, Acknowledge, TryAgain, queue, Phases, Working
    <2>7. CASE Reconfigure \/ Later \/ \E n \in Messages : LeaseEnds(n) \/ Show(n)
      BY <2>1, <2>7 DEF Reconfigure, Later, LeaseEnds, Show, queue, round
    <2>8. CASE (\E e \in coming : Arrives(e)) \/ UNCHANGED ingestVars
      BY <2>1, <2>8 DEF Arrives, ingestVars, queue, round
    <2> QED
      BY <2>2, <2>3, <2>4, <2>5, <2>6, <2>7, <2>8 DEF IngestNext, ScanStep
  <1> QED
    BY <1>1, <1>2, <1>3, <1>7, <1>8, <1>9, <1>10 DEF IngestTypes

LEMMA IngestStart == IngestInit => IngestInv
  <1> SUFFICES ASSUME IngestInit PROVE IngestInv
    OBVIOUS
  <1>1. /\ <<>> \in Seq(Messages) /\ IsInjective(<<>>) /\ ToSet(<<>>) = {}
    BY DEF IsInjective, ToSet
  <1>2. \A m \in Messages : row[m] = "absent" /\ mark[m].kind = "none" /\ tries[m] = 0 /\ sealed[m] = NoEvent
    BY DEF IngestInit
  <1>3. /\ ScanFloor \in Times /\ ScanFloor \in Nat /\ Attempts \in Nat /\ Attempts >= 1 /\ Capacity \in Nat
        /\ ScanOverlap \in Nat
    BY IngestFacts
  <1>4. IngestTypes
    <2>1. scan \in Scans
      BY <1>3 DEF IngestInit, NoScan, Scans
    <2>2. row \in [Messages -> RowKinds] /\ tries \in [Messages -> 0 .. Attempts]
      BY <1>3 DEF IngestInit, RowKinds
    <2>3. mark \in [Messages -> Marks] /\ sealed \in [Messages -> Events \cup {NoEvent}]
      BY DEF IngestInit, Marks, MarkKinds
    <2> QED
      BY <1>1, <1>3, <2>1, <2>2, <2>3 DEF IngestInit, IngestTypes, Phases
  <1>5. QueueOK
    <2>1. Pending = {}
      BY <1>2 DEF Pending, Open
    <2>2. Cardinality(Pending) <= Capacity
      BY <1>3, <2>1, FS_EmptySet
    <2>3. due = <<>> /\ leases = <<>> /\ batch = <<>>
      BY DEF IngestInit
    <2> QED
      BY <1>1, <1>2, <2>2, <2>3 DEF QueueOK
  <1>6. WaitOK /\ SealOK
    BY DEF IngestInit, WaitOK, SealOK, Working
  <1>7. \A m \in Messages : MarkOK(m)
    BY <1>2, <1>3 DEF MarkOK, ClosedMark
  <1>8. ReadOK
    <2>1. scan.start = ScanFloor /\ scan.end = ScanFloor /\ time = ScanFloor /\ since = ScanFloor /\ visible = {}
      BY DEF IngestInit, NoScan
    <2>2. AfterComplete(scan) = ScanFloor
      BY <1>3, <2>1, NextStart
    <2> QED
      BY <1>3, <2>1, <2>2 DEF ReadOK, Unread
  <1> QED
    BY <1>4, <1>5, <1>6, <1>7, <1>8 DEF IngestInv

LEMMA IngestStep ==
    ASSUME IngestInv, [IngestNext]_ingestVars
    PROVE  IngestInv'
  <1>1. QueueOK'
    BY QueueStep DEF Queued
  <1>2. \A m \in Messages : MarkOK(m)'
    BY MarkStep
  <1> QED
    BY <1>1, <1>2, IngestTypesStep, WaitStep, SealStep, IngestReadStep DEF IngestInv

THEOREM IngestIsInvariant == IngestSpec => []IngestInv
  <1>1. IngestInv /\ [IngestNext]_ingestVars => IngestInv'
    BY IngestStep
  <1> QED
    BY <1>1, IngestStart, PTL DEF IngestSpec

\* A message is one event, decided before its id is forgotten, and its rows,
\* leases and the round agree, under lost answers, late events, crashes and
\* changes of the directory (delivery_mapping.py:771-795, feishu_ingest.py:124-161).
THEOREM IngestIsSafe == IngestSpec => []IngestSafe
  <1>1. IngestInv => IngestSafe
    <2> SUFFICES ASSUME IngestInv PROVE IngestSafe
      OBVIOUS
    <2>1. /\ IngestTypes /\ QueueOK /\ SealOK /\ ReadOK
          /\ \A m \in Messages : MarkOK(m)
      BY DEF IngestInv
    <2>2. IngestTypeOK
      <3>1. scan.start <= scan.end /\ scan.token \in Messages \cup {0}
        BY <2>1 DEF ReadOK, IngestTypes, Scans
      <3> QED
        BY <2>1, <3>1 DEF IngestTypeOK, IngestTypes, QueueOK, SealOK, RowKinds, Working
    <2>3. OneEvent
      <3> SUFFICES ASSUME NEW m \in Messages PROVE Cardinality(OnRelay(m)) <= 1
        BY DEF OneEvent
      <3>1. \A e \in OnRelay(m) : e = sealed[m]
        BY <2>1 DEF OnRelay, SealOK
      <3>2. CASE OnRelay(m) = {}
        BY <3>2, FS_EmptySet
      <3>3. CASE OnRelay(m) # {}
        <4>1. OnRelay(m) = {sealed[m]}
          BY <3>1, <3>3
        <4>2. Cardinality({sealed[m]}) = 1
          BY FS_Singleton
        <4> QED
          BY <4>1, <4>2
      <3> QED
        BY <3>2, <3>3
    <2>4. DoneDecided /\ SameEventAgain
      BY <2>1 DEF DoneDecided, SameEventAgain, MarkOK
    <2> QED
      BY <2>2, <2>3, <2>4 DEF IngestSafe
  <1> QED
    BY <1>1, IngestIsInvariant, PTL

\* No message of the history is passed over: the next pages show what is not
\* yet kept or decided (feishu_ingest.py:36-50, 72-98).
THEOREM NothingIsUnread == IngestSpec => []NothingUnread
  <1>1. IngestInv => NothingUnread
    <2> SUFFICES ASSUME IngestInv, NEW m \in Messages, Unread(m) PROVE ToBeRead(m)
      BY DEF NothingUnread, Unread
    <2>1. IngestTypes /\ ReadOK
      BY DEF IngestInv
    <2>2. CASE scan.scope = query
      BY <2>1, <2>2 DEF ReadOK, ToBeRead
    <2>3. CASE scan.scope # query
      <3> DEFINE b == ScanBegun(time)
                 s == [b EXCEPT !.complete = FALSE]
      <3>1. b \in Scans /\ (InScan(m, b) \/ SentAt[m] >= AfterComplete(b))
        BY <2>1, BegunCovers
      <3>2. ToBeRead(m) <=> (~ s.complete /\ InScan(m, s)) \/ SentAt[m] >= AfterComplete(s)
        BY <2>3 DEF ToBeRead
      <3> HIDE DEF b
      <3>3. ~ s.complete /\ s.start = b.start /\ s.end = b.end /\ s.token = b.token
        BY <3>1 DEF Scans
      <3> QED
        BY <3>1, <3>2, <3>3 DEF InScan, AfterComplete
    <2> QED
      BY <2>2, <2>3
  <1> QED
    BY <1>1, IngestIsInvariant, PTL

\* A call is not sent, nor a reply, while a stranger's words before it wait
\* (buzz_feishu_group_sync.py:6084-6097, delivery_mapping.py:876-879).
THEOREM WordsComeBeforeCalls == IngestSpec => WordsBeforeCall
  <1> DEFINE Waits(m) ==
        \A n \in waits \ {m} : n \in Pending => /\ m \in Calls => SentAt[n] > SentAt[m]
                                                /\ ThreadOf[m] # n
             Sends(m) == phase' = "publish" /\ phase # "publish" /\ sending'.of = m /\ m \notin Strangers
  <1>1. ASSUME IngestInv, [IngestNext]_ingestVars, NEW m \in Messages, Sends(m)
        PROVE  Waits(m)
    <2>0. IngestTypes /\ QueueOK /\ WaitOK
      BY <1>1 DEF IngestInv
    <2>1. Send
      <3>1. CASE StartScan \/ ReadPage \/ SkipPage \/ PageFails \/ TimeUp \/ EndScan \/ Kill
        BY <1>1, <3>1 DEF StartScan, ReadPage, SkipPage, PageFails, TimeUp, EndScan, Kill, Quiet
      <3>2. CASE Settle \/ Hold \/ ReadFails \/ Published \/ NotAnswered \/ Acknowledge \/ TryAgain
        BY <1>1, <3>2 DEF Settle, Hold, ReadFails, Published, NotAnswered, Acknowledge, TryAgain
      <3>3. CASE Reconfigure \/ Later \/ \E n \in Messages : LeaseEnds(n) \/ Show(n)
        BY <1>1, <3>3 DEF Reconfigure, Later, LeaseEnds, Show, round
      <3>4. CASE (\E e \in coming : Arrives(e)) \/ UNCHANGED ingestVars
        BY <1>1, <3>4 DEF Arrives, ingestVars, round
      <3> QED
        BY <1>1, <3>1, <3>2, <3>3, <3>4 DEF IngestNext, ScanStep
    <2>2. sending' = EventOf(Taken) /\ Taken \in Messages
      <3>1. phase' # "drain"
        BY <1>1
      <3> QED
        BY <2>0, <2>1, <3>1, TakenOff DEF Send
    <2>3. m = Taken
      BY <1>1, <2>2 DEF EventOf
    <2>4. ~ Context(m) /\ ~ Behind(m)
      BY <1>1, <2>1, <2>3 DEF Send, Context
    <2>5. waits \cap Pending \subseteq context /\ waits \subseteq Messages
      BY <2>0, <2>1 DEF WaitOK, Send, IngestTypes
    <2> SUFFICES ASSUME NEW n \in waits \ {m}, n \in Pending
                 PROVE  (m \in Calls => SentAt[n] > SentAt[m]) /\ ThreadOf[m] # n
      OBVIOUS
    <2>6. n \in context \ {m} /\ SentAt[n] \in Nat /\ SentAt[m] \in Nat
      BY <2>5, IngestFacts
    <2> QED
      BY <2>4, <2>6 DEF Behind
  <1>2. IngestInv /\ [IngestNext]_ingestVars =>
            [\A m \in Messages : Sends(m) => Waits(m)]_ingestVars
    BY <1>1
  <1>3. IngestSpec => [][\A m \in Messages : Sends(m) => Waits(m)]_ingestVars
    <2> HIDE DEF Sends, Waits
    <2> QED
      BY <1>2, IngestIsInvariant, PTL DEF IngestSpec
  <1> QED
    BY <1>3 DEF WordsBeforeCall
=============================================================================
