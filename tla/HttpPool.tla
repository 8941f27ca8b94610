------------------------------- MODULE HttpPool -------------------------------
(***************************************************************************)
(* The connections and the tenant token of one Feishu app, shared by all   *)
(* threads of the process (scripts/hostd/http_pool.py).  A request takes   *)
(* the app's token, refreshing it first if it has none; one thread leads   *)
(* the refresh and the others follow its flight.  Every exchange, of a     *)
(* token or of a call, needs one of few connections.                       *)
(*                                                                         *)
(* What happens under the app's condition is one action.  Flights are      *)
(* numbered; the token a flight fetched has the flight's number.           *)
(***************************************************************************)
EXTENDS Integers, FiniteSets

CONSTANTS
    Callers,         \* threads
    MaxConnections,  \* max_connections
    MaxRequests      \* bound: requests per thread

ASSUME PoolAssumption ==
    /\ MaxConnections \in Nat \ {0}
    /\ MaxRequests \in Nat
    /\ IsFiniteSet(Callers)

NoFlight  == 0

VARIABLES
    left,      \* requests each thread has yet to make
    at,        \* where each thread is in request
    role,      \* what its exchange is for: "token" or "api"
    held,      \* the token it has
    joined,    \* the flight it leads or follows
    outcome,   \* how its exchange ended
    idle,      \* connections in app.idle
    created,   \* app.created
    inUse,     \* app.active
    token,     \* app.token, numbered by its flight (0: none)
    fresh,     \* clock() < app.refresh_at
    flight,    \* app.flight
    fetched,   \* flights that ended with a token
    lost,      \* flights that ended with an error
    started,   \* the number of flights so far
    poolClosed,
    spent      \* history: tokens the server refused or whose time is up

callVars == <<left, at, role, held, joined, outcome>>
connVars == <<idle, created, inUse>>
tokenVars == <<token, fresh, flight, fetched, lost, started, spent>>
poolVars == <<callVars, connVars, tokenVars, poolClosed>>

Places == {"idle", "token", "follow", "acquire", "asleep", "open", "call", "answered", "landed"}

PoolInit ==
    /\ left = [t \in Callers |-> MaxRequests]
    /\ at = [t \in Callers |-> "idle"]
    /\ role = [t \in Callers |-> "api"]
    /\ held = [t \in Callers |-> 0]
    /\ joined = [t \in Callers |-> NoFlight]
    /\ outcome = [t \in Callers |-> "ok"]
    /\ idle = 0 /\ created = 0 /\ inUse = 0
    /\ token = 0 /\ fresh = FALSE /\ flight = NoFlight
    /\ fetched = {} /\ lost = {} /\ started = 0
    /\ poolClosed = FALSE /\ spent = {}

-----------------------------------------------------------------------------
(* request and _token *)

Move(t, p) == at' = [at EXCEPT ![t] = p]

\* The request ends, with its answer or a PoolError.
End(t) ==
    /\ Move(t, "idle")
    /\ held' = [held EXCEPT ![t] = 0]
    /\ joined' = [joined EXCEPT ![t] = NoFlight]

\* The request goes on to its own exchange with token k.
Go(t, k) ==
    /\ Move(t, "acquire")
    /\ role' = [role EXCEPT ![t] = "api"]
    /\ held' = [held EXCEPT ![t] = k]
    /\ joined' = [joined EXCEPT ![t] = NoFlight]

Begin(t) ==
    /\ at[t] = "idle" /\ left[t] > 0
    /\ left' = [left EXCEPT ![t] = @ - 1]
    /\ Move(t, IF poolClosed THEN "idle" ELSE "token")      \* _scope
    /\ UNCHANGED <<role, held, joined, outcome, connVars, tokenVars, poolClosed>>

UseToken(t) ==
    /\ at[t] = "token"
    /\ IF poolClosed THEN End(t) /\ UNCHANGED role
                     ELSE token # 0 /\ fresh /\ Go(t, token)
    /\ UNCHANGED <<left, outcome, connVars, tokenVars, poolClosed>>

NeedsToken(t) == at[t] = "token" /\ ~ poolClosed /\ ~ (token # 0 /\ fresh)

\* Mutant of MayLead: every thread that finds no token refreshes it.
MayAlwaysLead == TRUE
MayLead == flight = NoFlight

Lead(t) ==
    /\ NeedsToken(t)
    /\ MayLead
    /\ started' = started + 1
    /\ flight' = started + 1
    /\ joined' = [joined EXCEPT ![t] = started + 1]
    /\ role' = [role EXCEPT ![t] = "token"]
    /\ Move(t, "acquire")
    /\ UNCHANGED <<left, held, outcome, connVars, token, fresh, fetched, lost, spent, poolClosed>>

Join(t) ==
    /\ NeedsToken(t)
    /\ ~ MayLead
    /\ joined' = [joined EXCEPT ![t] = flight]
    /\ Move(t, "follow")
    /\ UNCHANGED <<left, role, held, outcome, connVars, tokenVars, poolClosed>>

\* flight.done.wait returned
Follow(t) ==
    /\ at[t] = "follow"
    /\ \/ joined[t] \in fetched /\ Go(t, joined[t])
       \/ joined[t] \in lost /\ End(t) /\ UNCHANGED role
    /\ UNCHANGED <<left, outcome, connVars, tokenVars, poolClosed>>

\* The leader's exchange is over: store the token, then end the flight.
StoreToken(t) ==
    /\ at[t] = "answered" /\ role[t] = "token"
    /\ IF outcome[t] = "ok" /\ ~ poolClosed
       THEN /\ token' = joined[t] /\ fresh' = TRUE
            /\ UNCHANGED outcome
       ELSE /\ outcome' = [outcome EXCEPT ![t] = "failed"]
            /\ UNCHANGED <<token, fresh>>
    /\ Move(t, "landed")
    /\ UNCHANGED <<left, role, held, joined, connVars, flight, fetched, lost, started, spent, poolClosed>>

\* Mutant of Landing: a failed refresh leaves its flight for the others.
LandingOnSuccess(t) ==
    /\ flight' = IF outcome[t] = "ok" THEN NoFlight ELSE flight
    /\ fetched' = IF outcome[t] = "ok" THEN fetched \cup ({joined[t]} \ lost) ELSE fetched
    /\ UNCHANGED lost

\* app.flight = None; flight.done.set().  close() may have ended it before.
Landing(t) ==
    /\ flight' = NoFlight
    /\ IF outcome[t] = "ok" /\ joined[t] \notin lost
       THEN fetched' = fetched \cup {joined[t]} /\ UNCHANGED lost
       ELSE lost' = lost \cup {joined[t]} /\ UNCHANGED fetched

EndFlight(t) ==
    /\ at[t] = "landed"
    /\ Landing(t)
    /\ IF outcome[t] = "ok" THEN Go(t, joined[t]) ELSE End(t) /\ UNCHANGED role
    /\ UNCHANGED <<left, outcome, connVars, token, fresh, started, spent, poolClosed>>

-----------------------------------------------------------------------------
(* _acquire, the exchange, _release *)

\* condition.notify_all() wakes whoever waits for a connection.
Woken(p) == [x \in Callers |-> IF p[x] = "asleep" THEN "acquire" ELSE p[x]]

\* An exchange that never got out: of the refresh or of the request itself.
Failed(t) ==
    /\ outcome' = [outcome EXCEPT ![t] = "failed"]
    /\ Move(t, "answered")

HasRoom == created < MaxConnections

Acquire(t) ==
    /\ at[t] = "acquire"
    /\ \/ poolClosed /\ Failed(t) /\ UNCHANGED connVars
       \/ ~ poolClosed /\ idle > 0
          /\ idle' = idle - 1 /\ inUse' = inUse + 1 /\ Move(t, "call")
          /\ UNCHANGED <<outcome, created>>
       \/ ~ poolClosed /\ idle = 0 /\ HasRoom
          /\ created' = created + 1 /\ inUse' = inUse + 1 /\ Move(t, "open")
          /\ UNCHANGED <<outcome, idle>>
       \/ ~ poolClosed /\ idle = 0 /\ ~ HasRoom /\ Move(t, "asleep")
          /\ UNCHANGED <<outcome, connVars>>
    /\ UNCHANGED <<left, role, held, joined, tokenVars, poolClosed>>

Opened(t) ==
    /\ at[t] = "open"
    /\ Move(t, "call")
    /\ UNCHANGED <<left, role, held, joined, outcome, connVars, tokenVars, poolClosed>>

GiveBack == created' = created - 1 /\ inUse' = inUse - 1

NotOpened(t) ==
    /\ at[t] = "open"
    /\ GiveBack
    /\ outcome' = [outcome EXCEPT ![t] = "failed"]
    /\ at' = Woken([at EXCEPT ![t] = "answered"])
    /\ UNCHANGED <<left, role, held, joined, idle, tokenVars, poolClosed>>

\* A closed pool keeps no connection.
Keeps(reusable) == reusable /\ ~ poolClosed

Exchange(t) ==
    /\ at[t] = "call"
    /\ \E o \in {"ok", "failed", "refused"}, reusable \in BOOLEAN :
        /\ reusable => o = "ok"
        /\ o = "refused" => role[t] = "api"
        /\ outcome' = [outcome EXCEPT ![t] = o]
        /\ inUse' = inUse - 1
        /\ IF Keeps(reusable) THEN idle' = idle + 1 /\ UNCHANGED created
                              ELSE created' = created - 1 /\ UNCHANGED idle
        /\ at' = Woken([at EXCEPT ![t] = "answered"])
        /\ spent' = IF o = "refused" THEN spent \cup {held[t]} ELSE spent
    /\ UNCHANGED <<left, role, held, joined, token, fresh, flight, fetched, lost, started, poolClosed>>

Invalidated(k) == token = k

CallAnswered(t) ==
    /\ at[t] = "answered" /\ role[t] = "api"
    /\ IF outcome[t] = "refused" /\ Invalidated(held[t])
       THEN token' = 0 /\ fresh' = FALSE
       ELSE UNCHANGED <<token, fresh>>
    /\ End(t)
    /\ UNCHANGED <<left, role, outcome, connVars, flight, fetched, lost, started, spent, poolClosed>>

\* The request's deadline while it waits for a flight or a connection.
Deadline(t) ==
    /\ \/ at[t] = "follow" /\ End(t) /\ UNCHANGED outcome
       \/ /\ at[t] \in {"acquire", "asleep"}
          /\ Failed(t)
          /\ UNCHANGED <<held, joined>>
    /\ UNCHANGED <<left, role, connVars, tokenVars, poolClosed>>

Expire ==
    /\ fresh
    /\ fresh' = FALSE
    /\ spent' = spent \cup {token}
    /\ UNCHANGED <<callVars, connVars, token, flight, fetched, lost, started, poolClosed>>

ClosePool ==
    /\ ~ poolClosed
    /\ poolClosed' = TRUE
    /\ token' = 0 /\ fresh' = FALSE
    /\ lost' = lost \cup ({flight} \ {NoFlight})
    /\ created' = created - idle /\ idle' = 0
    /\ at' = Woken(at)
    /\ UNCHANGED <<left, role, held, joined, outcome, inUse, flight, fetched, started, spent>>

CallerStep(t) ==
    \/ UseToken(t) \/ Lead(t) \/ Join(t) \/ Follow(t) \/ StoreToken(t) \/ EndFlight(t)
    \/ Acquire(t) \/ Opened(t) \/ NotOpened(t) \/ Exchange(t) \/ CallAnswered(t)

PoolNext ==
    \/ \E t \in Callers : Begin(t) \/ CallerStep(t) \/ Deadline(t)
    \/ Expire \/ ClosePool

\* A thread goes on and every exchange ends; nothing is assumed of deadlines.
PoolSpec == PoolInit /\ [][PoolNext]_poolVars /\ \A t \in Callers : WF_poolVars(CallerStep(t))

-----------------------------------------------------------------------------
PoolTypeOK ==
    /\ left \in [Callers -> 0 .. MaxRequests]
    /\ at \in [Callers -> Places]
    /\ role \in [Callers -> {"token", "api"}]
    /\ held \in [Callers -> Nat] /\ joined \in [Callers -> Nat]
    /\ outcome \in [Callers -> {"ok", "failed", "refused"}]
    /\ idle \in Nat /\ created \in 0 .. MaxConnections /\ inUse \in Nat
    /\ token \in Nat /\ fresh \in BOOLEAN /\ flight \in Nat
    /\ started \in Nat /\ poolClosed \in BOOLEAN

\* Every connection that was counted is idle or in some thread's hands, over
\* failures to connect, broken exchanges and a close in the middle; a closed
\* pool keeps none (http_pool.py _acquire, _release, close).
ConnectionsAccounted ==
    /\ inUse = Cardinality({t \in Callers : at[t] \in {"open", "call"}})
    /\ created = idle + inUse
    /\ poolClosed => idle = 0

Leads(t) == role[t] = "token" /\ at[t] \in {"acquire", "asleep", "open", "call", "answered", "landed"}

\* There is a flight exactly while one thread leads it: the app's token is
\* never refreshed twice at a time, and no flight is left without a leader
\* (http_pool.py _token).
OneRefresh ==
    /\ flight # NoFlight <=> \E t \in Callers : Leads(t)
    /\ \A t, u \in Callers : Leads(t) /\ Leads(u) => t = u

\* A token that was neither refused nor is out of time stays the app's token
\* until close, although refusals of older tokens arrive after it was stored
\* (http_pool.py invalidate).
GoodTokenKept ==
    \A t \in Callers :
        at[t] = "call" /\ role[t] = "api" /\ held[t] \notin spent /\ ~ poolClosed
            => token = held[t]

\* The pool is consistent: no more connections than allowed and none lost, one
\* refresh at a time, and no good token dropped (http_pool.py).
PoolSafe == PoolTypeOK /\ ConnectionsAccounted /\ OneRefresh /\ GoodTokenKept

\* Every request ends without the help of its deadline: whoever follows a
\* flight or waits for a connection is told (http_pool.py _token, _release).
RequestsEnd == \A t \in Callers : at[t] # "idle" ~> at[t] = "idle"
=============================================================================
