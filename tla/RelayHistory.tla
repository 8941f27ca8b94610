----------------------------- MODULE RelayHistory -----------------------------
(***************************************************************************)
(* One bounded interval read of the relay (scripts/hostd/relay_history.py, *)
(* read_history).  The relay answers newest first with at most `limit`     *)
(* rows; a full page may cut a second in two, so the page's oldest second  *)
(* is read again on its own before the read goes on below it.  The         *)
(* requests are not one snapshot: events appear and vanish between them.   *)
(*                                                                         *)
(* The budgets of queries, bytes, events and seconds, a transport error    *)
(* and a malformed answer all abort the read: `Abort`.                     *)
(***************************************************************************)
EXTENDS Integers, FiniteSets

CONSTANTS
    Rows,           \* the events that match the query's filter
    RowAt,          \* created_at of each
    Since, Until,   \* the interval, inclusive
    PageSize,       \* page_size
    MaxPageSize     \* max_page_size

ASSUME HistoryAssumption ==
    /\ Since \in Nat /\ Until \in Nat /\ Since <= Until
    /\ RowAt \in [Rows -> Since .. Until]
    /\ PageSize \in Nat \ {0} /\ MaxPageSize \in Nat /\ PageSize <= MaxPageSize
    /\ IsFiniteSet(Rows)

VARIABLES
    shown,      \* the rows the relay serves
    rd,         \* "page", "second", "done" or "failed"
    single,     \* require_single_response
    high,       \* the upper end of what is left to read
    pageLimit,  \* the limit of the next page
    full,       \* the full page whose oldest second is being read
    limit,      \* the limit of the next read of that second
    priorFull,  \* the largest limit at which that second was full, or 0
    all,        \* all_rows
    steady,     \* history: rows served ever since the read began
    excused     \* history: the read was disturbed from outside

secondVars == <<full, limit, priorFull>>
readVars   == <<rd, single, high, pageLimit, secondVars, all>>
historyVars == <<shown, readVars, steady, excused>>

Reading == rd \in {"page", "second"}

Between(S, a, b) == {e \in S : a <= RowAt[e] /\ RowAt[e] <= b}

\* The relay's answer: the newest rows of the interval, at most l of them.
Answer(R, a, b, l) ==
    LET match == Between(shown, a, b)
    IN  /\ R \subseteq match
        /\ \A e \in R, f \in match \ R : RowAt[f] <= RowAt[e]
        /\ IF R = match THEN Cardinality(R) <= l ELSE Cardinality(R) = l

IsOldest(R, t) == (\E e \in R : RowAt[e] = t) /\ (\A e \in R : t <= RowAt[e])

HistoryInit ==
    /\ shown \in SUBSET Rows
    /\ single \in BOOLEAN
    /\ rd = "page" /\ high = Until /\ pageLimit = PageSize
    /\ full = {} /\ limit = PageSize /\ priorFull = 0 /\ all = {}
    /\ steady = shown /\ excused = FALSE

-----------------------------------------------------------------------------
(* page(low, high, page_size) *)

LastPage ==
    /\ rd = "page"
    /\ \E R \in SUBSET shown :
        /\ Answer(R, Since, high, pageLimit)
        /\ Cardinality(R) < pageLimit
        /\ all' = all \cup R
    /\ rd' = "done"
    /\ UNCHANGED <<shown, single, high, pageLimit, secondVars, steady, excused>>

FullPage ==
    /\ rd = "page"
    /\ \E R \in SUBSET shown :
        /\ Answer(R, Since, high, pageLimit)
        /\ Cardinality(R) = pageLimit
        /\ full' = R
    /\ rd' = IF single THEN "failed" ELSE "second"
    /\ limit' = pageLimit
    /\ priorFull' = 0
    /\ UNCHANGED <<shown, single, high, pageLimit, all, steady, excused>>

\* Mutants of BelowSecond: the read goes on in, or two seconds below, the second.
InSecond(t) == t
TwoBelow(t) == t - 2
BelowSecond(t) == t - 1

\* fewer rows than asked for: nothing of the second was cut off
SecondComplete(R) == Cardinality(R) < limit

\* page(boundary, boundary, limit) holds the whole second, and still every
\* row the page had shown of it.
WholeSecond ==
    /\ rd = "second"
    /\ \E t \in Since .. Until, R \in SUBSET shown :
        /\ IsOldest(full, t)
        /\ Answer(R, t, t, limit)
        /\ SecondComplete(R)
        /\ Between(full, t, t) \subseteq R
        /\ all' = all \cup {e \in full : RowAt[e] > t} \cup R
        /\ high' = BelowSecond(t)
        /\ rd' = IF BelowSecond(t) < Since THEN "done" ELSE "page"
    /\ UNCHANGED <<shown, single, pageLimit, secondVars, steady, excused>>

ChangedSecond ==
    /\ rd = "second"
    /\ \E t \in Since .. Until, R \in SUBSET shown :
        /\ IsOldest(full, t)
        /\ Answer(R, t, t, limit)
        /\ SecondComplete(R)
        /\ ~ Between(full, t, t) \subseteq R
    /\ rd' = "failed"
    /\ UNCHANGED <<shown, single, high, pageLimit, secondVars, all, steady, excused>>

DenseAt == limit <= priorFull \/ limit >= MaxPageSize

FullSecond ==
    /\ rd = "second"
    /\ \E t \in Since .. Until, R \in SUBSET shown :
        /\ IsOldest(full, t)
        /\ Answer(R, t, t, limit)
        /\ Cardinality(R) = limit
    /\ IF DenseAt
       THEN rd' = "failed" /\ UNCHANGED <<priorFull, limit>>
       ELSE /\ priorFull' = limit
            /\ limit' = IF 2 * limit < MaxPageSize THEN 2 * limit ELSE MaxPageSize
            /\ rd' = rd
    /\ UNCHANGED <<shown, single, high, pageLimit, full, all, steady, excused>>

Halved(l) == IF l \div 2 < 1 THEN 1 ELSE l \div 2

\* gs.ResponseTooLarge: the same read with half the limit.
TooLarge ==
    /\ Reading
    /\ LET l == IF rd = "page" THEN pageLimit ELSE limit
       IN  /\ rd' = IF l = 1 THEN "failed" ELSE rd
           /\ pageLimit' = IF rd = "page" THEN Halved(l) ELSE pageLimit
           /\ limit' = IF rd = "second" THEN Halved(l) ELSE limit
    /\ excused' = TRUE
    /\ UNCHANGED <<shown, single, high, full, priorFull, all, steady>>

Abort ==
    /\ Reading
    /\ rd' = "failed"
    /\ excused' = TRUE
    /\ UNCHANGED <<shown, single, high, pageLimit, secondVars, all, steady>>

\* The relay stores an event, or an author deletes one, during the read.
Appear(e) ==
    /\ Reading /\ e \notin shown
    /\ shown' = shown \cup {e}
    /\ excused' = TRUE
    /\ UNCHANGED <<readVars, steady>>

Vanish(e) ==
    /\ Reading /\ e \in shown
    /\ shown' = shown \ {e}
    /\ steady' = steady \ {e}
    /\ excused' = TRUE
    /\ UNCHANGED readVars

ReadStep == LastPage \/ FullPage \/ WholeSecond \/ ChangedSecond \/ FullSecond \/ TooLarge

HistoryNext == ReadStep \/ Abort \/ (\E e \in Rows : Appear(e) \/ Vanish(e))

HistorySpec == HistoryInit /\ [][HistoryNext]_historyVars /\ WF_historyVars(ReadStep)

-----------------------------------------------------------------------------
HistoryTypeOK ==
    /\ shown \subseteq Rows /\ steady \subseteq shown
    /\ rd \in {"page", "second", "done", "failed"}
    /\ single \in BOOLEAN /\ excused \in BOOLEAN
    /\ high \in Int
    /\ pageLimit \in 1 .. MaxPageSize /\ limit \in 1 .. MaxPageSize
    /\ priorFull \in 0 .. MaxPageSize
    /\ full \subseteq Rows /\ all \subseteq Rows

\* A read that returns has every row of the interval that the relay served
\* throughout: no page boundary inside a second, no halved answer and no
\* change between two requests makes it skip one (relay_history.py:157-183).
NothingSkipped == rd = "done" => steady \subseteq all

\* A read fails only if something disturbed it, if it was to be one response,
\* or if one second holds as many rows as the largest page: an undisturbed
\* history can always be read (relay_history.py:176).
FailsForCause ==
    rd = "failed" =>
        \/ excused \/ single
        \/ \E t \in Since .. Until : Cardinality(Between(shown, t, t)) >= MaxPageSize

\* A read is whole, or it failed for a cause (relay_history.py:157-183).
HistorySafe == HistoryTypeOK /\ NothingSkipped /\ FailsForCause

\* Every read ends, also without its budgets: each second is left behind, and
\* halving and doubling do not chase each other (relay_history.py:169-178).
ReadEnds == <>(rd \in {"done", "failed"})
=============================================================================
