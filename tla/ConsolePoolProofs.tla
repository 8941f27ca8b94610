--------------------------- MODULE ConsolePoolProofs ---------------------------
(***************************************************************************)
(* The two parts that MCConsolePool checks side by side, each proved on    *)
(* its own, for every number of requests, processes and threads.           *)
(*                                                                         *)
(* A restart asked for at the console is ordered once, never beside        *)
(* another one, and completed only by its own replacement.  The pool of    *)
(* HTTP connections never loses count of one, and the token is refreshed   *)
(* by one thread at a time.                                                *)
(***************************************************************************)
EXTENDS AgentRestart, HttpPool, FiniteSetTheorems, TLAPS

-----------------------------------------------------------------------------
(* Console restarts (AgentRestart). *)

Jobs == {"none", "queued", "starting", "prepare", "idle", "dispatch",
         "unlock", "verify", "ack", "settle", "done"}
AtWork == {"check", "admit", "recheck", "live", "order", "observe", "pin"}

-----------------------------------------------------------------------------
(* Shape: the types the other invariants need. *)

Shape ==
    /\ op \in [Requests -> OpenStates \cup {"none", "completed", "rejected"}]
    /\ link \subseteq Requests
    /\ row \in [Requests -> Active \cup {"none", "acked"}]
    /\ new \in [Requests -> Nat] /\ claimed \in [Requests -> Nat]
    /\ issued \in [Requests -> Nat]
    /\ job \in [Requests -> Jobs]
    /\ thread \in [Requests -> AtWork \cup {"none", "end"}]
    /\ seen \in [Requests -> [scope : Scopes, old : Nat, new : Nat]]
    /\ verdict \in [Requests -> BOOLEAN]
    /\ scope \in Scopes /\ process \in Nat

\* The first state has the shape.
LEMMA ShapeInit == RestartInit => Shape
  BY DEF RestartInit, Shape, Jobs, AtWork, Unseen, NoProcess, OpenStates, Active,
         Scopes, Granted

\* What a thread saw stays a record of its type when a process is noted in it.
LEMMA SeenTyped ==
    ASSUME NEW S, NEW s \in [Requests -> [scope : S, old : Nat, new : Nat]],
           NEW k \in Requests, NEW p \in Nat
    PROVE  /\ [s EXCEPT ![k].old = p] \in [Requests -> [scope : S, old : Nat, new : Nat]]
           /\ [s EXCEPT ![k].new = p] \in [Requests -> [scope : S, old : Nat, new : Nat]]
  OBVIOUS

\* Every step keeps the shape.
LEMMA ShapeStep == Shape /\ [RestartNext]_restartVars => Shape'
  <1> SUFFICES ASSUME Shape, [RestartNext]_restartVars PROVE Shape'
    OBVIOUS
  <1> USE DEF Shape, Jobs, AtWork, Scopes, Granted, OpenStates, Active, Unseen, NoProcess,
              rowVars, worldVars, runVars, hostVars
  <1>1. ASSUME NEW k \in Requests, Reserve(k) PROVE Shape'
    BY <1>1 DEF Reserve
  <1>2. ASSUME NEW k \in Requests, Execute(k) PROVE Shape'
    <2>1. op' \in [Requests -> OpenStates \cup {"none", "completed", "rejected"}]
      BY <1>2 DEF Execute
    <2>2. \E place \in Jobs : job' = [job EXCEPT ![k] = place]
      BY <1>2 DEF Execute
    <2>3. claimed' = claimed \/ claimed' = [claimed EXCEPT ![k] = process]
      BY <1>2 DEF Execute
    <2> QED
      BY <1>2, <2>1, <2>2, <2>3 DEF Execute
  <1>3. ASSUME NEW k \in Requests, Start(k) PROVE Shape'
    <2>1. seen' \in [Requests -> [scope : Scopes, old : Nat, new : Nat]]
      <3>1. [Unseen EXCEPT !.scope = scope] \in [scope : Scopes, old : Nat, new : Nat]
        OBVIOUS
      <3> QED
        BY <1>3, <3>1 DEF Start
    <2>2. \E place \in Jobs : job' = [job EXCEPT ![k] = place]
      BY <1>3 DEF Start
    <2> QED
      BY <1>3, <2>1, <2>2 DEF Start
  <1>4. ASSUME NEW k \in Requests, Prepare(k) PROVE Shape'
    <2>1. \E place \in Jobs : job' = [job EXCEPT ![k] = place]
      BY <1>4 DEF Prepare, Onward
    <2>2. seen' = [seen EXCEPT ![k].old = process]
      BY <1>4 DEF Prepare
    <2>3. seen' \in [Requests -> [scope : Scopes, old : Nat, new : Nat]]
      BY <2>2, SeenTyped
    <2> QED
      BY <1>4, <2>1, <2>3 DEF Prepare
  <1>5. ASSUME NEW k \in Requests, Idle(k) PROVE Shape'
    BY <1>5 DEF Idle
  <1>6. ASSUME NEW k \in Requests, Collect(k) PROVE Shape'
    BY <1>6 DEF Collect, Reaped
  <1>7. ASSUME NEW k \in Requests, Unlock(k) PROVE Shape'
    BY <1>7 DEF Unlock
  <1>8. ASSUME NEW k \in Requests, Verify(k) PROVE Shape'
    BY <1>8 DEF Verify
  <1>9. ASSUME NEW k \in Requests, Ack(k) PROVE Shape'
    BY <1>9 DEF Ack
  <1>10. ASSUME NEW k \in Requests, Settle(k) PROVE Shape'
    BY <1>10 DEF Settle, Settled, Held, Acknowledged
  <1>11. ASSUME NEW k \in Requests, Check(k) PROVE Shape'
    BY <1>11 DEF Check, ThreadTo
  <1>12. ASSUME NEW k \in Requests, Abandon(k) PROVE Shape'
    BY <1>12 DEF Abandon, ThreadTo
  <1>13. ASSUME NEW k \in Requests, AdmitDispatch(k) PROVE Shape'
    BY <1>13 DEF AdmitDispatch, Admissible, ActiveRow, Marked, Bare
  <1>14. ASSUME NEW k \in Requests, Live(k) PROVE Shape'
    BY <1>14 DEF Live, ThreadTo, StillLive
  <1>15. ASSUME NEW k \in Requests, Order(k) PROVE Shape'
    BY <1>15 DEF Order
  <1>16. ASSUME NEW k \in Requests, Observe(k) PROVE Shape'
    <2>1. thread' \in [Requests -> AtWork \cup {"none", "end"}]
      BY <1>16 DEF Observe, AfterLook
    <2>2. seen' = seen \/ seen' = [seen EXCEPT ![k].new = process]
      BY <1>16 DEF Observe
    <2>3. seen' \in [Requests -> [scope : Scopes, old : Nat, new : Nat]]
      <3>1. CASE seen' = seen
        BY <3>1
      <3>2. CASE seen' = [seen EXCEPT ![k].new = process]
        BY <3>2, SeenTyped
      <3> QED
        BY <2>2, <3>1, <3>2
    <2>4. verdict' \in [Requests -> BOOLEAN]
      BY <1>16 DEF Observe
    <2> QED
      BY <1>16, <2>1, <2>3, <2>4 DEF Observe
  <1>17. ASSUME NEW k \in Requests, Pin(k) PROVE Shape'
    BY <1>17 DEF Pin
  <1>18. ASSUME NEW k \in Requests, Timeout(k) PROVE Shape'
    BY <1>18 DEF Timeout
  <1>19. ASSUME NEW k \in Requests, Reconcile(k) PROVE Shape'
    BY <1>19 DEF Reconcile, Settled, Held, Acknowledged
  <1>20. ASSUME NEW k \in Requests, Land(k) PROVE Shape'
    BY <1>20 DEF Land
  <1>21. CASE Close
    BY <1>21 DEF Close
  <1>22. CASE Exit
    BY <1>22 DEF Exit, Memoryless
  <1>23. CASE Crash
    BY <1>23 DEF Crash, Memoryless
  <1>24. CASE Boot
    BY <1>24 DEF Boot, Restored, Settled, Held, Acknowledged
  <1>25. CASE Elsewhere
    BY <1>25 DEF Elsewhere, ActiveRow
  <1>26. CASE UNCHANGED restartVars
    BY <1>26 DEF restartVars
  <1> QED
    BY <1>1, <1>2, <1>3, <1>4, <1>5, <1>6, <1>7, <1>8, <1>9, <1>10,
       <1>11, <1>12, <1>13, <1>14, <1>15, <1>16, <1>17, <1>18, <1>19, <1>20,
       <1>21, <1>22, <1>23, <1>24, <1>25, <1>26
    DEF RestartNext, Work

-----------------------------------------------------------------------------
(* Jobs and threads. *)

\* A thread works only for a job that waits for it, and a job begins with an
\* operation that nothing else touches until it is claimed.
JobInv ==
    \A k \in Requests :
        /\ thread[k] \in AtWork => job[k] = "dispatch"
        /\ op[k] = "none" => job[k] = "none"
        /\ job[k] = "queued" => op[k] = "queued"
        /\ ~ up => job[k] = "none"

\* No job and no thread runs at first.
LEMMA JobInit == RestartInit => JobInv
  BY DEF RestartInit, JobInv, AtWork

\* Every step keeps it (console_operations.py, async_io.py thread_call).
LEMMA JobStep == Shape /\ JobInv /\ [RestartNext]_restartVars => JobInv'
  <1> SUFFICES ASSUME Shape, JobInv, [RestartNext]_restartVars PROVE JobInv'
    OBVIOUS
  <1> USE DEF JobInv, Jobs, AtWork, OpenStates, Ended,
              rowVars, worldVars, runVars, hostVars
  <1>0. /\ op \in [Requests -> OpenStates \cup {"none", "completed", "rejected"}]
        /\ job \in [Requests -> Jobs]
        /\ thread \in [Requests -> AtWork \cup {"none", "end"}]
    BY DEF Shape
  <1>1. ASSUME NEW k \in Requests, Reserve(k) PROVE JobInv'
    BY <1>0, <1>1 DEF Reserve
  <1>2. ASSUME NEW k \in Requests, Execute(k) PROVE JobInv'
    BY <1>0, <1>2 DEF Execute, Authorized
  <1>3. ASSUME NEW k \in Requests, Start(k) PROVE JobInv'
    BY <1>0, <1>3 DEF Start
  <1>4. ASSUME NEW k \in Requests, Prepare(k) PROVE JobInv'
    BY <1>0, <1>4 DEF Prepare, Onward
  <1>5. ASSUME NEW k \in Requests, Idle(k) PROVE JobInv'
    BY <1>0, <1>5 DEF Idle
  <1>6. ASSUME NEW k \in Requests, Collect(k) PROVE JobInv'
    BY <1>0, <1>6 DEF Collect, Reaped
  <1>7. ASSUME NEW k \in Requests, Unlock(k) PROVE JobInv'
    BY <1>0, <1>7 DEF Unlock
  <1>8. ASSUME NEW k \in Requests, Verify(k) PROVE JobInv'
    BY <1>0, <1>8 DEF Verify
  <1>9. ASSUME NEW k \in Requests, Ack(k) PROVE JobInv'
    BY <1>0, <1>9 DEF Ack
  <1>10. ASSUME NEW k \in Requests, Settle(k) PROVE JobInv'
    BY <1>0, <1>10 DEF Settle, Settled, Held, Acknowledged
  <1>11. ASSUME NEW k \in Requests, Check(k) PROVE JobInv'
    BY <1>0, <1>11 DEF Check, ThreadTo
  <1>12. ASSUME NEW k \in Requests, Abandon(k) PROVE JobInv'
    BY <1>0, <1>12 DEF Abandon, ThreadTo
  <1>13. ASSUME NEW k \in Requests, AdmitDispatch(k) PROVE JobInv'
    BY <1>0, <1>13 DEF AdmitDispatch, Admissible, ActiveRow, Marked, Bare
  <1>14. ASSUME NEW k \in Requests, Live(k) PROVE JobInv'
    BY <1>0, <1>14 DEF Live, ThreadTo, StillLive
  <1>15. ASSUME NEW k \in Requests, Order(k) PROVE JobInv'
    BY <1>0, <1>15 DEF Order
  <1>16. ASSUME NEW k \in Requests, Observe(k) PROVE JobInv'
    BY <1>0, <1>16 DEF Observe, AfterLook, Unchanged
  <1>17. ASSUME NEW k \in Requests, Pin(k) PROVE JobInv'
    BY <1>0, <1>17 DEF Pin
  <1>18. ASSUME NEW k \in Requests, Timeout(k) PROVE JobInv'
    BY <1>0, <1>18 DEF Timeout
  <1>19. ASSUME NEW k \in Requests, Reconcile(k) PROVE JobInv'
    BY <1>0, <1>19 DEF Reconcile, Settled, Held, Acknowledged
  <1>20. ASSUME NEW k \in Requests, Land(k) PROVE JobInv'
    BY <1>0, <1>20 DEF Land
  <1>21. CASE Close
    BY <1>0, <1>21 DEF Close
  <1>22. CASE Exit
    BY <1>0, <1>22 DEF Exit, Memoryless
  <1>23. CASE Crash
    BY <1>0, <1>23 DEF Crash, Memoryless
  <1>24. CASE Boot
    BY <1>0, <1>24 DEF Boot, Restored, Settled, Held, Acknowledged
  <1>25. CASE Elsewhere
    BY <1>0, <1>25 DEF Elsewhere, ActiveRow
  <1>26. CASE UNCHANGED restartVars
    BY <1>0, <1>26 DEF restartVars
  <1> QED
    BY <1>1, <1>2, <1>3, <1>4, <1>5, <1>6, <1>7, <1>8, <1>9, <1>10,
       <1>11, <1>12, <1>13, <1>14, <1>15, <1>16, <1>17, <1>18, <1>19, <1>20,
       <1>21, <1>22, <1>23, <1>24, <1>25, <1>26
    DEF RestartNext, Work

-----------------------------------------------------------------------------
(* Orders. *)

\* The ledger knows of an order before it is given: the thread that may give
\* it has its operation linked to a row that says unknown, the agent's only
\* active one.
OrderInv ==
    /\ \A k \in Requests :
        /\ k \in link => row[k] \in {"unknown", "acked"}
        /\ thread[k] \in {"recheck", "live", "order"} =>
              k \in link /\ row[k] = "unknown" /\ issued[k] = 0
        /\ thread[k] \in {"observe", "pin"} => issued[k] = 1
        /\ issued[k] \in {0, 1}
        /\ issued[k] = 1 => k \in link
        /\ op[k] \in {"none", "queued", "rejected"} => k \notin link
        /\ op[k] = "completed" => k \in link /\ row[k] = "acked"
        /\ row[k] \in Active => ~ foreign
    /\ \A j, k \in Requests : row[j] \in Active /\ row[k] \in Active => j = k

\* Nothing is ordered at first.
LEMMA OrderInit == RestartInit => OrderInv
  BY DEF RestartInit, OrderInv, Active

\* Every step keeps it (store.py restart operations, agent_operations.py).
LEMMA OrderStep == Shape /\ JobInv /\ OrderInv /\ [RestartNext]_restartVars => OrderInv'
  <1> SUFFICES ASSUME Shape, JobInv, OrderInv, [RestartNext]_restartVars PROVE OrderInv'
    OBVIOUS
  <1> USE DEF OrderInv, Jobs, AtWork, OpenStates, Active, Ended,
              rowVars, worldVars, runVars, hostVars
  <1>0. /\ op \in [Requests -> OpenStates \cup {"none", "completed", "rejected"}]
        /\ row \in [Requests -> Active \cup {"none", "acked"}]
        /\ issued \in [Requests -> Nat] /\ link \subseteq Requests
        /\ thread \in [Requests -> AtWork \cup {"none", "end"}]
        /\ JobInv
    BY DEF Shape
  <1>1. ASSUME NEW k \in Requests, Reserve(k) PROVE OrderInv'
    BY <1>0, <1>1 DEF Reserve
  <1>2. ASSUME NEW k \in Requests, Execute(k) PROVE OrderInv'
    <2>1. op[k] = "queued"
      BY <1>0, <1>2 DEF Execute, JobInv
    <2>2. \E s \in {"rejected", "unknown", "dispatched"} : op' = [op EXCEPT ![k] = s]
      BY <1>2 DEF Execute
    <2>3. UNCHANGED <<link, row, foreign, thread, issued>>
      BY <1>2 DEF Execute
    <2> QED
      BY <1>0, <2>1, <2>2, <2>3
  <1>3. ASSUME NEW k \in Requests, Start(k) PROVE OrderInv'
    BY <1>0, <1>3 DEF Start
  <1>4. ASSUME NEW k \in Requests, Prepare(k) PROVE OrderInv'
    BY <1>0, <1>4 DEF Prepare, Onward
  <1>5. ASSUME NEW k \in Requests, Idle(k) PROVE OrderInv'
    BY <1>0, <1>5 DEF Idle
  <1>6. ASSUME NEW k \in Requests, Collect(k) PROVE OrderInv'
    BY <1>0, <1>6 DEF Collect, Reaped
  <1>7. ASSUME NEW k \in Requests, Unlock(k) PROVE OrderInv'
    BY <1>0, <1>7 DEF Unlock
  <1>8. ASSUME NEW k \in Requests, Verify(k) PROVE OrderInv'
    BY <1>0, <1>8 DEF Verify
  <1>9. ASSUME NEW k \in Requests, Ack(k) PROVE OrderInv'
    <2>1. CASE row' = [row EXCEPT ![k] = row[k]]
      BY <1>0, <1>9, <2>1 DEF Ack, JobInv
    <2>2. CASE row' # [row EXCEPT ![k] = row[k]]
      <3>1. row[k] = "unknown" /\ row' = [row EXCEPT ![k] = "acked"]
        BY <1>9, <2>2 DEF Ack
      <3>2. thread[k] \notin AtWork /\ UNCHANGED <<op, link, foreign, thread, issued>>
        BY <1>0, <1>9 DEF Ack, JobInv
      <3> QED
        BY <1>0, <3>1, <3>2
    <2> QED
      BY <2>1, <2>2
  <1>10. ASSUME NEW k \in Requests, Settle(k) PROVE OrderInv'
    BY <1>0, <1>10 DEF Settle, Settled, Held, Acknowledged
  <1>11. ASSUME NEW k \in Requests, Check(k) PROVE OrderInv'
    BY <1>0, <1>11 DEF Check, ThreadTo
  <1>12. ASSUME NEW k \in Requests, Abandon(k) PROVE OrderInv'
    BY <1>0, <1>12 DEF Abandon, ThreadTo
  <1>13. ASSUME NEW k \in Requests, AdmitDispatch(k) PROVE OrderInv'
    BY <1>0, <1>13 DEF AdmitDispatch, Admissible, ActiveRow, Marked, Bare
  <1>14. ASSUME NEW k \in Requests, Live(k) PROVE OrderInv'
    BY <1>0, <1>14 DEF Live, ThreadTo, StillLive
  <1>15. ASSUME NEW k \in Requests, Order(k) PROVE OrderInv'
    BY <1>0, <1>15 DEF Order
  <1>16. ASSUME NEW k \in Requests, Observe(k) PROVE OrderInv'
    BY <1>0, <1>16 DEF Observe, AfterLook, Unchanged
  <1>17. ASSUME NEW k \in Requests, Pin(k) PROVE OrderInv'
    BY <1>0, <1>17 DEF Pin
  <1>18. ASSUME NEW k \in Requests, Timeout(k) PROVE OrderInv'
    BY <1>0, <1>18 DEF Timeout
  <1>19. ASSUME NEW k \in Requests, Reconcile(k) PROVE OrderInv'
    BY <1>0, <1>19 DEF Reconcile, Settled, Held, Acknowledged
  <1>20. ASSUME NEW k \in Requests, Land(k) PROVE OrderInv'
    BY <1>0, <1>20 DEF Land
  <1>21. CASE Close
    BY <1>0, <1>21 DEF Close
  <1>22. CASE Exit
    BY <1>0, <1>22 DEF Exit, Memoryless
  <1>23. CASE Crash
    BY <1>0, <1>23 DEF Crash, Memoryless
  <1>24. CASE Boot
    BY <1>0, <1>24 DEF Boot, Restored, Settled, Held, Acknowledged
  <1>25. CASE Elsewhere
    BY <1>0, <1>25 DEF Elsewhere, ActiveRow
  <1>26. CASE UNCHANGED restartVars
    BY <1>0, <1>26 DEF restartVars
  <1> QED
    BY <1>1, <1>2, <1>3, <1>4, <1>5, <1>6, <1>7, <1>8, <1>9, <1>10,
       <1>11, <1>12, <1>13, <1>14, <1>15, <1>16, <1>17, <1>18, <1>19, <1>20,
       <1>21, <1>22, <1>23, <1>24, <1>25, <1>26
    DEF RestartNext, Work

-----------------------------------------------------------------------------
(* Replacements. *)

\* What the thread saw, pinned and reported came after the claim.
PinInv ==
    \A k \in Requests :
        /\ claimed[k] <= process
        /\ job[k] \in {"idle", "dispatch"} =>
              claimed[k] <= seen[k].old /\ seen[k].old <= process
        /\ thread[k] = "pin" => seen[k].new > claimed[k]
        /\ verdict[k] = TRUE => seen[k].new # NoProcess
        /\ verdict[k] = TRUE => job[k] \notin {"none", "queued", "starting", "prepare", "idle"}
        /\ job[k] \in {"verify", "ack"} => verdict[k] = TRUE
        /\ new[k] # NoProcess => issued[k] = 1 /\ new[k] > claimed[k]
        /\ row[k] = "acked" => new[k] # NoProcess

\* No replacement is noted at first.
LEMMA PinInit == RestartInit => PinInv
  BY DEF RestartInit, PinInv, NoProcess

\* Every step keeps it (agent_operations.py, _observe and _run).
LEMMA PinStep ==
    Shape /\ JobInv /\ OrderInv /\ PinInv /\ [RestartNext]_restartVars => PinInv'
  <1> SUFFICES ASSUME Shape, JobInv, OrderInv, PinInv, [RestartNext]_restartVars PROVE PinInv'
    OBVIOUS
  <1> USE DEF PinInv, Jobs, AtWork, Active, OpenStates, Unseen, NoProcess, Ended,
              rowVars, worldVars, runVars, hostVars
  <1>0. /\ op \in [Requests -> OpenStates \cup {"none", "completed", "rejected"}]
        /\ row \in [Requests -> Active \cup {"none", "acked"}]
        /\ new \in [Requests -> Nat] /\ claimed \in [Requests -> Nat]
        /\ issued \in [Requests -> Nat] /\ process \in Nat
        /\ job \in [Requests -> Jobs]
        /\ thread \in [Requests -> AtWork \cup {"none", "end"}]
        /\ seen \in [Requests -> [scope : Scopes, old : Nat, new : Nat]]
        /\ verdict \in [Requests -> BOOLEAN]
    BY DEF Shape
  <1>a. \A i \in Requests :
          /\ thread[i] \in AtWork => job[i] = "dispatch"
          /\ op[i] = "none" => job[i] = "none"
          /\ job[i] = "queued" => issued[i] = 0
          /\ thread[i] \in {"observe", "pin"} => issued[i] = 1
          /\ thread[i] = "order" => issued[i] = 0
    BY DEF JobInv, OrderInv
  <1>1. ASSUME NEW k \in Requests, Reserve(k) PROVE PinInv'
    BY <1>0, <1>a, <1>1 DEF Reserve
  <1>2. ASSUME NEW k \in Requests, Execute(k) PROVE PinInv'
    BY <1>0, <1>a, <1>2 DEF Execute, Authorized
  <1>3. ASSUME NEW k \in Requests, Start(k) PROVE PinInv'
    BY <1>0, <1>a, <1>3 DEF Start
  <1>4. ASSUME NEW k \in Requests, Prepare(k) PROVE PinInv'
    BY <1>0, <1>a, <1>4 DEF Prepare, Onward
  <1>5. ASSUME NEW k \in Requests, Idle(k) PROVE PinInv'
    BY <1>0, <1>a, <1>5 DEF Idle
  <1>6. ASSUME NEW k \in Requests, Collect(k) PROVE PinInv'
    BY <1>0, <1>a, <1>6 DEF Collect, Reaped
  <1>7. ASSUME NEW k \in Requests, Unlock(k) PROVE PinInv'
    BY <1>0, <1>a, <1>7 DEF Unlock
  <1>8. ASSUME NEW k \in Requests, Verify(k) PROVE PinInv'
    BY <1>0, <1>a, <1>8 DEF Verify
  <1>9. ASSUME NEW k \in Requests, Ack(k) PROVE PinInv'
    BY <1>0, <1>a, <1>9 DEF Ack
  <1>10. ASSUME NEW k \in Requests, Settle(k) PROVE PinInv'
    BY <1>0, <1>a, <1>10 DEF Settle, Settled, Held, Acknowledged
  <1>11. ASSUME NEW k \in Requests, Check(k) PROVE PinInv'
    BY <1>0, <1>a, <1>11 DEF Check, ThreadTo
  <1>12. ASSUME NEW k \in Requests, Abandon(k) PROVE PinInv'
    BY <1>0, <1>a, <1>12 DEF Abandon, ThreadTo
  <1>13. ASSUME NEW k \in Requests, AdmitDispatch(k) PROVE PinInv'
    BY <1>0, <1>a, <1>13 DEF AdmitDispatch, Admissible, ActiveRow, Marked, Bare
  <1>14. ASSUME NEW k \in Requests, Live(k) PROVE PinInv'
    BY <1>0, <1>a, <1>14 DEF Live, ThreadTo, StillLive
  <1>15. ASSUME NEW k \in Requests, Order(k) PROVE PinInv'
    BY <1>0, <1>a, <1>15 DEF Order
  <1>16. ASSUME NEW k \in Requests, Observe(k) PROVE PinInv'
    <2>1. /\ thread[k] = "observe" /\ job[k] = "dispatch"
          /\ UNCHANGED <<op, row, new, issued, process, job, claimed>>
          /\ \E place \in {"observe", "pin", "end"} : thread' = [thread EXCEPT ![k] = place]
      BY <1>a, <1>16 DEF Observe, AfterLook
    <2>2. CASE thread'[k] = "pin"
      <3>1. seen' = [seen EXCEPT ![k].new = process] /\ verdict' = verdict
        BY <1>0, <1>16, <2>2 DEF Observe, AfterLook
      <3>2. process # seen[k].old
        BY <1>0, <1>16, <2>1, <2>2 DEF Observe, AfterLook, Unchanged
      <3>3. /\ claimed[k] <= seen[k].old /\ seen[k].old <= process
            /\ claimed[k] \in Nat /\ seen[k].old \in Nat
        BY <1>0, <2>1
      <3>4. process > claimed[k]
        <4>1. \A a, b, c \in Nat : a <= b /\ b <= c /\ c # b => c > a
          OBVIOUS
        <4> QED
          BY <1>0, <3>2, <3>3, <4>1
      <3> QED
        BY <1>0, <1>a, <2>1, <3>1, <3>4
    <2>3. CASE thread'[k] # "pin"
      <3>1. seen' = seen /\ (verdict' = verdict \/ seen[k].new # NoProcess)
        BY <1>0, <1>16, <2>3 DEF Observe
      <3>2. \A i \in Requests : verdict'[i] = verdict[i] \/ i = k
        BY <1>0, <1>16 DEF Observe
      <3>3. \A i \in Requests : i # k => thread'[i] = thread[i]
        BY <1>0, <2>1
      <3> QED
        BY <1>0, <1>a, <2>1, <2>3, <3>1, <3>2, <3>3
    <2> QED
      BY <2>2, <2>3
  <1>17. ASSUME NEW k \in Requests, Pin(k) PROVE PinInv'
    BY <1>0, <1>a, <1>17 DEF Pin
  <1>18. ASSUME NEW k \in Requests, Timeout(k) PROVE PinInv'
    BY <1>0, <1>a, <1>18 DEF Timeout
  <1>19. ASSUME NEW k \in Requests, Reconcile(k) PROVE PinInv'
    BY <1>0, <1>a, <1>19 DEF Reconcile, Settled, Held, Acknowledged
  <1>20. ASSUME NEW k \in Requests, Land(k) PROVE PinInv'
    BY <1>0, <1>a, <1>20 DEF Land
  <1>21. CASE Close
    BY <1>0, <1>a, <1>21 DEF Close
  <1>22. CASE Exit
    BY <1>0, <1>a, <1>22 DEF Exit, Memoryless
  <1>23. CASE Crash
    BY <1>0, <1>a, <1>23 DEF Crash, Memoryless
  <1>24. CASE Boot
    BY <1>0, <1>a, <1>24 DEF Boot, Restored, Settled, Held, Acknowledged
  <1>25. CASE Elsewhere
    BY <1>0, <1>a, <1>25 DEF Elsewhere, ActiveRow
  <1>26. CASE UNCHANGED restartVars
    BY <1>0, <1>a, <1>26 DEF restartVars
  <1> QED
    BY <1>1, <1>2, <1>3, <1>4, <1>5, <1>6, <1>7, <1>8, <1>9, <1>10,
       <1>11, <1>12, <1>13, <1>14, <1>15, <1>16, <1>17, <1>18, <1>19, <1>20,
       <1>21, <1>22, <1>23, <1>24, <1>25, <1>26
    DEF RestartNext, Work

-----------------------------------------------------------------------------
\* The four together are inductive.
RestartInv == Shape /\ JobInv /\ OrderInv /\ PinInv

\* The four hold together throughout.
LEMMA RestartAlways == RestartSpec => []RestartInv
  <1>1. RestartInit => RestartInv
    BY ShapeInit, JobInit, OrderInit, PinInit DEF RestartInv
  <1>2. RestartInv /\ [RestartNext]_restartVars => RestartInv'
    BY ShapeStep, JobStep, OrderStep, PinStep DEF RestartInv
  <1> QED
    BY <1>1, <1>2, PTL DEF RestartSpec

\* A restart is ordered at most once for an operation, and only with the
\* uncertainty on disk, over any number of crashes (agent_operations.py).
THEOREM OrdersAreSingle == RestartSpec => []OrderedOnce
  <1>1. RestartInv => OrderedOnce
    BY DEF RestartInv, OrderInv, OrderedOnce
  <1> QED
    BY <1>1, RestartAlways, PTL

\* An operation is completed only by a process its own thread pinned after the
\* order (agent_operations.py, console_operations.py _settle).
THEOREM CompletionsAreOwn == RestartSpec => []CompletedByReplacement
  <1>1. RestartInv => CompletedByReplacement
    BY DEF RestartInv, OrderInv, PinInv, CompletedByReplacement
  <1> QED
    BY <1>1, RestartAlways, PTL

\* No restart is ordered while another one of the agent has an outcome nobody
\* knows (store.py, restart_one_active_agent).
THEOREM RestartsDoNotOverlap == RestartSpec => NoOverlappingRestart
  <1>1. ASSUME RestartInv, [RestartNext]_restartVars, NEW k \in Requests, issued'[k] # issued[k]
        PROVE  ~ foreign /\ \A j \in Requests \ {k} : row[j] \notin Active
    <2>1. PICK i \in Requests : Order(i)
      BY <1>1 DEF RestartNext, Work, Reserve, Execute, Start, Prepare, Idle, Collect, Unlock,
         Verify, Ack, Settle, Check, Abandon, AdmitDispatch, Live, Observe, Pin, Timeout,
         Reconcile, Land, Close, Exit, Crash, Boot, Elsewhere, ThreadTo, restartVars
    <2>2. i = k
      BY <1>1, <2>1 DEF Order, RestartInv, Shape
    <2>3. row[k] \in Active
      BY <1>1, <2>1, <2>2 DEF Order, RestartInv, OrderInv, Active
    <2> QED
      BY <1>1, <2>3 DEF RestartInv, OrderInv
  <1>2. RestartInv /\ [RestartNext]_restartVars =>
          [\A k \in Requests : issued'[k] # issued[k] =>
              ~ foreign /\ \A j \in Requests \ {k} : row[j] \notin Active]_restartVars
    BY <1>1
  <1> QED
    BY <1>2, RestartAlways, PTL DEF RestartSpec, NoOverlappingRestart

\* Nothing is ordered, pinned or acknowledged for an operation whose job has
\* ended (async_io.py thread_call).
THEOREM ReportsAreLast == RestartSpec => NothingAfterReport
  <1>1. ASSUME RestartInv, [RestartNext]_restartVars, NEW k \in Requests, job[k] \in Ended
        PROVE  <<issued[k], new[k], row[k]>>' = <<issued[k], new[k], row[k]>>
    <2>1. thread[k] \notin AtWork /\ job[k] # "ack"
      BY <1>1 DEF RestartInv, JobInv, Ended
    <2>2. CASE UNCHANGED <<issued, new, row>>
      BY <2>2
    <2>3. ASSUME NEW i \in Requests, AdmitDispatch(i) \/ Order(i) \/ Pin(i) \/ Ack(i)
          PROVE  <<issued[k], new[k], row[k]>>' = <<issued[k], new[k], row[k]>>
      <3>1. i # k
        BY <2>1, <2>3 DEF AdmitDispatch, Order, Pin, Ack, AtWork
      <3> QED
        BY <1>1, <2>3, <3>1
        DEF AdmitDispatch, Order, Pin, Ack, Marked, Bare, RestartInv, Shape, rowVars
    <2> QED
      BY <1>1, <2>2, <2>3
      DEF RestartNext, Work, Reserve, Execute, Start, Prepare, Idle, Collect, Unlock,
         Verify, Settle, Check, Abandon, Live, Observe, Timeout, Reconcile, Land, Close,
         Exit, Crash, Boot, Elsewhere, ThreadTo, restartVars, rowVars
  <1>2. RestartInv /\ [RestartNext]_restartVars =>
          [\A k \in Requests : job[k] \in Ended =>
              <<issued[k], new[k], row[k]>>' = <<issued[k], new[k], row[k]>>]_restartVars
    BY <1>1
  <1> QED
    BY <1>2, RestartAlways, PTL DEF RestartSpec, NothingAfterReport

\* A final status stays, one held as unknown is only completed, and an
\* operation is refused only when nothing was ordered for it
\* (console_operations.py _settle, store.py hold_console_operation).
THEOREM StatusesGoForward == RestartSpec => StatusForward
  <1>1. ASSUME RestartInv, [RestartNext]_restartVars, NEW k \in Requests
        PROVE  /\ op[k] \in {"completed", "rejected"} => op'[k] = op[k]
               /\ op[k] = "unknown" => op'[k] \in {"unknown", "completed"}
               /\ op'[k] = "rejected" /\ op[k] # "rejected" => k \notin link /\ issued[k] = 0
    <2>0. /\ op \in [Requests -> OpenStates \cup {"none", "completed", "rejected"}]
          /\ \A i \in Requests : job[i] = "queued" => op[i] = "queued"
          /\ op[k] = "queued" => k \notin link /\ issued[k] = 0
      BY <1>1 DEF RestartInv, Shape, JobInv, OrderInv
    <2>1. CASE UNCHANGED op
      BY <2>0, <2>1
    <2>2. ASSUME NEW i \in Requests, Reserve(i) \/ Execute(i)
          PROVE  /\ op[k] \in {"completed", "rejected", "unknown"} => op'[k] = op[k]
                 /\ op'[k] = "rejected" /\ op[k] # "rejected" => op[k] = "queued"
      BY <2>0, <2>2 DEF Reserve, Execute
    <2>3. ASSUME NEW i \in Requests, Reconcile(i) \/ Settle(i)
          PROVE  /\ op[k] \in {"completed", "rejected"} => op'[k] = op[k]
                 /\ op[k] = "unknown" => op'[k] \in {"unknown", "completed"}
                 /\ op'[k] = "rejected" => op[k] = "rejected"
      BY <2>0, <2>3 DEF Reconcile, Settle, Settled, Held, OpenStates
    <2>4. CASE Boot
      BY <2>0, <2>4 DEF Boot, Restored, Settled, Held, OpenStates
    <2> QED
      BY <1>1, <2>0, <2>1, <2>2, <2>3, <2>4
      DEF RestartNext, Work, Start, Prepare, Idle, Collect, Unlock,
         Verify, Ack, Check, Abandon, AdmitDispatch, Live, Order, Observe, Pin, Timeout,
         Land, Close, Exit, Crash, Elsewhere, ThreadTo, restartVars
  <1>2. RestartInv /\ [RestartNext]_restartVars =>
          [\A k \in Requests :
              /\ op[k] \in {"completed", "rejected"} => op'[k] = op[k]
              /\ op[k] = "unknown" => op'[k] \in {"unknown", "completed"}
              /\ op'[k] = "rejected" /\ op[k] # "rejected" => k \notin link /\ issued[k] = 0]_restartVars
    BY <1>1
  <1> QED
    BY <1>2, RestartAlways, PTL DEF RestartSpec, StatusForward

-----------------------------------------------------------------------------
(* The whole ledger. *)

\* The unique index over open operations.
OneOpen == \A j, k \in Requests : op[j] \in OpenStates /\ op[k] \in OpenStates => j = k

\* No operation is open at first.
LEMMA OneOpenInit == RestartInit => OneOpen
  BY DEF RestartInit, OneOpen, OpenStates

\* Neither holding nor settling an operation opens it.
LEMMA ClosedStaysClosed ==
    ASSUME NEW k, NEW s, s \notin OpenStates
    PROVE  Settled(k, s) = s /\ Held(s) = s
  BY Zenon DEF Settled, Held

\* Only a new operation opens, and then no other is (store.py:589-610).
LEMMA OneOpenStep == RestartInv /\ OneOpen /\ [RestartNext]_restartVars => OneOpen'
  <1> SUFFICES ASSUME RestartInv, OneOpen, [RestartNext]_restartVars PROVE OneOpen'
    OBVIOUS
  <1> USE DEF OneOpen
  <1>0. /\ op \in [Requests -> OpenStates \cup {"none", "completed", "rejected"}]
        /\ \A k \in Requests : job[k] = "queued" => op[k] = "queued"
    BY DEF RestartInv, Shape, JobInv
  <1>1. ASSUME NEW k \in Requests, Reserve(k) PROVE OneOpen'
    BY <1>0, <1>1 DEF Reserve, OpenStates
  <1>2. ASSUME \A k \in Requests : op[k] \notin OpenStates => op'[k] \notin OpenStates
        PROVE  OneOpen'
    BY <1>2
  <1>3. ASSUME NEW k \in Requests, Execute(k) PROVE OneOpen'
    <2>1. op[k] \in OpenStates
      BY <1>0, <1>3 DEF Execute, OpenStates
    <2>2. \E s : op' = [op EXCEPT ![k] = s]
      BY <1>3 DEF Execute
    <2> QED
      BY <1>0, <1>2, <2>1, <2>2
  <1>4. ASSUME NEW k \in Requests, Settle(k) PROVE OneOpen'
    <2>1. op' = [op EXCEPT ![k] = IF closing THEN Held(op[k]) ELSE Settled(k, op[k])]
      BY <1>4 DEF Settle
    <2> QED
      BY <1>0, <1>2, <2>1, ClosedStaysClosed
  <1>5. ASSUME NEW k \in Requests, Reconcile(k) PROVE OneOpen'
    <2>1. op' = [op EXCEPT ![k] = Settled(k, Held(op[k]))]
      BY <1>5 DEF Reconcile
    <2> QED
      BY <1>0, <1>2, <2>1, ClosedStaysClosed
  <1>6. CASE Boot
    <2>1. op' = [k \in Requests |-> Restored(k, op[k])]
      BY <1>6 DEF Boot
    <2>2. ASSUME NEW k \in Requests, op[k] \notin OpenStates
          PROVE  Restored(k, op[k]) = op[k]
      BY <2>2, ClosedStaysClosed DEF Restored
    <2> QED
      BY <1>2, <2>1, <2>2
  <1>7. CASE op' = op
    BY <1>2, <1>7
  <1>8. ASSUME NEW k \in Requests,
               \/ Start(k) \/ Prepare(k) \/ Idle(k) \/ Collect(k)
               \/ Unlock(k) \/ Verify(k) \/ Ack(k) \/ Check(k) \/ Abandon(k)
               \/ AdmitDispatch(k) \/ Live(k) \/ Order(k) \/ Observe(k) \/ Pin(k)
               \/ Timeout(k) \/ Land(k)
        PROVE  op' = op
    BY <1>8 DEF Start, Prepare, Idle, Collect, Unlock, Verify, Ack, Check, Abandon,
                AdmitDispatch, Live, Order, Observe, Pin, Timeout, Land, ThreadTo
  <1>9. CASE Close \/ Exit \/ Crash \/ Elsewhere \/ UNCHANGED restartVars
    <2>1. op' = op
      BY <1>9 DEF Close, Exit, Crash, Elsewhere, restartVars
    <2> QED
      BY <1>7, <2>1
  <1> QED
    BY <1>1, <1>3, <1>4, <1>5, <1>6, <1>7, <1>8, <1>9 DEF RestartNext, Work

\* For every number of requests, processes, lives and changes the ledger of
\* restarts is consistent (agent_operations.py, store.py).
THEOREM RestartsAreSafe == RestartSpec => []RestartSafe
  <1>1. RestartInv /\ OneOpen => RestartTypeOK
    BY DEF RestartInv, Shape, OrderInv, OneOpen, RestartTypeOK, AtWork
  <1>2. RestartSpec => []OneOpen
    BY OneOpenInit, OneOpenStep, RestartAlways, PTL DEF RestartSpec
  <1> QED
    BY <1>1, <1>2, RestartAlways, OrdersAreSingle, CompletionsAreOwn, PTL DEF RestartSafe

\* The ledger's steps go forward and one at a time (agent_operations.py,
\* console_operations.py).
THEOREM RestartsGoInOrder == RestartSpec => RestartInOrder
  BY RestartsDoNotOverlap, ReportsAreLast, StatusesGoForward DEF RestartInOrder
-----------------------------------------------------------------------------
(* The HTTP pool (HttpPool). *)

-----------------------------------------------------------------------------
(* Places of the threads. *)

\* The threads' fields are functions, flights are numbered from one, and only
\* a leader has something to land.
PlacesOK ==
    /\ at \in [Callers -> Places]
    /\ role \in [Callers -> {"token", "api"}]
    /\ started \in Nat /\ flight \in Nat
    /\ \A t \in Callers : at[t] = "landed" => role[t] = "token"

\* Whoever slept waits for a connection again; nobody else moves.
LEMMA WokenPlaces ==
    ASSUME NEW p \in [Callers -> Places]
    PROVE  /\ Woken(p) \in [Callers -> Places]
           /\ \A t \in Callers : Woken(p)[t] = IF p[t] = "asleep" THEN "acquire" ELSE p[t]
  BY DEF Woken, Places

\* The invariant of one refresh: with PlacesOK it is inductive.
FlightInv == PlacesOK /\ OneRefresh

\* No refresh is in flight at first.
LEMMA FlightInit == PoolInit => FlightInv
  BY DEF PoolInit, FlightInv, PlacesOK, OneRefresh, Leads, Places, NoFlight

\* A step of t that changes neither the flight nor whether anybody leads it.
LEMMA FlightKept ==
    ASSUME FlightInv, PlacesOK', flight' = flight,
           \A u \in Callers : Leads(u)' <=> Leads(u)
    PROVE  FlightInv'
  BY DEF FlightInv, OneRefresh

\* Every step keeps one flight with one leader (http_pool.py _token).
LEMMA FlightStep == FlightInv /\ [PoolNext]_poolVars => FlightInv'
  <1> SUFFICES ASSUME FlightInv, [PoolNext]_poolVars PROVE FlightInv'
    OBVIOUS
  <1> USE DEF PlacesOK, Places, Leads, Move, End, Go, callVars, connVars, tokenVars, NoFlight
  <1>0. PlacesOK /\ OneRefresh
    BY DEF FlightInv
  <1>1. ASSUME NEW t \in Callers, Begin(t) PROVE FlightInv'
    BY <1>0, <1>1, FlightKept DEF Begin
  <1>2. ASSUME NEW t \in Callers, UseToken(t) PROVE FlightInv'
    BY <1>0, <1>2, FlightKept DEF UseToken
  <1>3. ASSUME NEW t \in Callers, Lead(t) PROVE FlightInv'
    <2>1. \A u \in Callers : ~ Leads(u)
      BY <1>0, <1>3 DEF Lead, MayLead, OneRefresh
    <2>2. flight' # NoFlight /\ PlacesOK'
      BY <1>0, <1>3 DEF Lead
    <2>3. Leads(t)' /\ \A u \in Callers : Leads(u)' => u = t
      BY <1>0, <1>3, <2>1 DEF Lead
    <2> QED
      BY <2>2, <2>3 DEF FlightInv, OneRefresh
  <1>4. ASSUME NEW t \in Callers, Join(t) PROVE FlightInv'
    BY <1>0, <1>4, FlightKept DEF Join, NeedsToken
  <1>5. ASSUME NEW t \in Callers, Follow(t) PROVE FlightInv'
    BY <1>0, <1>5, FlightKept DEF Follow
  <1>6. ASSUME NEW t \in Callers, StoreToken(t) PROVE FlightInv'
    BY <1>0, <1>6, FlightKept DEF StoreToken
  <1>7. ASSUME NEW t \in Callers, EndFlight(t) PROVE FlightInv'
    <2>1. \A u \in Callers : Leads(u) => u = t
      BY <1>0, <1>7 DEF EndFlight, OneRefresh
    <2>2. flight' = NoFlight /\ PlacesOK'
      BY <1>0, <1>7 DEF EndFlight, Landing
    <2>3. \A u \in Callers : ~ Leads(u)'
      BY <1>0, <1>7, <2>1 DEF EndFlight
    <2> QED
      BY <2>2, <2>3 DEF FlightInv, OneRefresh
  <1>8. ASSUME NEW t \in Callers, Acquire(t) PROVE FlightInv'
    BY <1>0, <1>8, FlightKept DEF Acquire, Failed
  <1>9. ASSUME NEW t \in Callers, Opened(t) PROVE FlightInv'
    BY <1>0, <1>9, FlightKept DEF Opened
  <1>10. ASSUME NEW t \in Callers, NotOpened(t) PROVE FlightInv'
    <2>1. [at EXCEPT ![t] = "answered"] \in [Callers -> Places]
      BY <1>0
    <2>2. /\ at' \in [Callers -> Places]
          /\ \A u \in Callers : at'[u] = IF [at EXCEPT ![t] = "answered"][u] = "asleep"
                                         THEN "acquire" ELSE [at EXCEPT ![t] = "answered"][u]
      BY <1>10, <2>1, WokenPlaces DEF NotOpened
    <2> QED
      BY <1>0, <1>10, <2>2, FlightKept DEF NotOpened
  <1>11. ASSUME NEW t \in Callers, Exchange(t) PROVE FlightInv'
    <2>1. [at EXCEPT ![t] = "answered"] \in [Callers -> Places]
      BY <1>0
    <2>2. /\ at' \in [Callers -> Places]
          /\ \A u \in Callers : at'[u] = IF [at EXCEPT ![t] = "answered"][u] = "asleep"
                                         THEN "acquire" ELSE [at EXCEPT ![t] = "answered"][u]
      BY <1>11, <2>1, WokenPlaces DEF Exchange
    <2>3. at[t] = "call" /\ UNCHANGED <<role, flight, started>>
      BY <1>11 DEF Exchange
    <2> QED
      BY <1>0, <2>2, <2>3, FlightKept
  <1>12. ASSUME NEW t \in Callers, CallAnswered(t) PROVE FlightInv'
    BY <1>0, <1>12, FlightKept DEF CallAnswered
  <1>13. ASSUME NEW t \in Callers, Deadline(t) PROVE FlightInv'
    BY <1>0, <1>13, FlightKept DEF Deadline, Failed
  <1>14. CASE Expire
    BY <1>0, <1>14, FlightKept DEF Expire
  <1>15. CASE ClosePool
    <2>1. /\ at' \in [Callers -> Places]
          /\ \A u \in Callers : at'[u] = IF at[u] = "asleep" THEN "acquire" ELSE at[u]
      BY <1>0, <1>15, WokenPlaces DEF ClosePool
    <2> QED
      BY <1>0, <1>15, <2>1, FlightKept DEF ClosePool
  <1>16. CASE UNCHANGED poolVars
    BY <1>0, <1>16, FlightKept DEF poolVars
  <1> QED
    BY <1>1, <1>2, <1>3, <1>4, <1>5, <1>6, <1>7, <1>8, <1>9, <1>10, <1>11, <1>12,
       <1>13, <1>14, <1>15, <1>16
    DEF PoolNext, CallerStep

\* There is a flight exactly while one thread leads it, however many threads
\* find no token (http_pool.py _token).
THEOREM RefreshesAreSingle == PoolSpec => []OneRefresh
  <1>1. FlightInv => OneRefresh
    BY DEF FlightInv
  <1> QED
    BY <1>1, FlightInit, FlightStep, PTL DEF PoolSpec

-----------------------------------------------------------------------------
(* Connections. *)

\* The threads with a connection in their hands.
InHand == {t \in Callers : at[t] \in {"open", "call"}}

\* The counts are numbers and agree with the threads' places.
ConnInv ==
    /\ idle \in Nat /\ created \in Nat /\ inUse \in Nat
    /\ ConnectionsAccounted

\* There are finitely many threads, so their number in hand is one.
LEMMA HandFinite == IsFiniteSet(InHand) /\ Cardinality(InHand) \in Nat
  <1>1. InHand \subseteq Callers
    BY DEF InHand
  <1>2. IsFiniteSet(InHand)
    BY <1>1, PoolAssumption, FS_Subset DEF PoolAssumption
  <1> QED
    BY <1>2, FS_CardinalityType

\* inUse is the number of threads with a connection.
LEMMA InUseIsHand ==
    ASSUME ConnInv
    PROVE  inUse = Cardinality(InHand)
  BY DEF ConnInv, ConnectionsAccounted, InHand

\* A step that moves nobody in or out of the connections and changes no count.
LEMMA HandKept ==
    ASSUME ConnInv, UNCHANGED <<idle, created, inUse, poolClosed>>,
           \A u \in Callers : at'[u] \in {"open", "call"} <=> at[u] \in {"open", "call"}
    PROVE  ConnInv'
  BY DEF ConnInv, ConnectionsAccounted

\* A thread takes a connection: there is one more in hand.
LEMMA HandTaken ==
    ASSUME ConnInv, NEW t \in Callers, t \notin InHand, InHand' = InHand \cup {t}
    PROVE  Cardinality(InHand') = inUse + 1
  BY HandFinite, InUseIsHand, FS_AddElement

\* A thread gives its connection back: there is one less in hand.
LEMMA HandGiven ==
    ASSUME ConnInv, NEW t \in Callers, t \in InHand, InHand' = InHand \ {t}
    PROVE  Cardinality(InHand') = inUse - 1 /\ inUse - 1 \in Nat
  <1>1. IsFiniteSet(InHand \ {t}) /\ Cardinality(InHand \ {t}) = Cardinality(InHand) - 1
    BY HandFinite, FS_RemoveElement
  <1>2. Cardinality(InHand \ {t}) \in Nat
    BY <1>1, FS_CardinalityType
  <1> QED
    BY <1>1, <1>2, InUseIsHand

\* No connection is open at first.
LEMMA ConnInit == PoolInit => ConnInv
  <1> SUFFICES ASSUME PoolInit PROVE ConnInv
    OBVIOUS
  <1>1. InHand = {}
    BY DEF PoolInit, InHand
  <1>2. Cardinality(InHand) = 0
    BY <1>1, FS_EmptySet
  <1> QED
    BY <1>2 DEF PoolInit, ConnInv, ConnectionsAccounted, InHand

\* Every step keeps the counts (http_pool.py _acquire, _release, close).
LEMMA ConnStep == PlacesOK /\ ConnInv /\ [PoolNext]_poolVars => ConnInv'
  <1> SUFFICES ASSUME PlacesOK, ConnInv, [PoolNext]_poolVars PROVE ConnInv'
    OBVIOUS
  <1> USE DEF Move, End, Go, callVars, connVars, tokenVars
  <1>0. at \in [Callers -> Places]
    BY DEF PlacesOK
  <1>1. ASSUME NEW t \in Callers, Begin(t) PROVE ConnInv'
    BY <1>0, <1>1, HandKept DEF Begin
  <1>2. ASSUME NEW t \in Callers, UseToken(t) PROVE ConnInv'
    BY <1>0, <1>2, HandKept DEF UseToken
  <1>3. ASSUME NEW t \in Callers, Lead(t) PROVE ConnInv'
    BY <1>0, <1>3, HandKept DEF Lead, NeedsToken
  <1>4. ASSUME NEW t \in Callers, Join(t) PROVE ConnInv'
    BY <1>0, <1>4, HandKept DEF Join, NeedsToken
  <1>5. ASSUME NEW t \in Callers, Follow(t) PROVE ConnInv'
    BY <1>0, <1>5, HandKept DEF Follow
  <1>6. ASSUME NEW t \in Callers, StoreToken(t) PROVE ConnInv'
    BY <1>0, <1>6, HandKept DEF StoreToken
  <1>7. ASSUME NEW t \in Callers, EndFlight(t) PROVE ConnInv'
    BY <1>0, <1>7, HandKept DEF EndFlight
  <1>8. ASSUME NEW t \in Callers, Acquire(t) PROVE ConnInv'
    <2>1. CASE at'[t] \in {"open", "call"}
      <3>1. t \notin InHand /\ InHand' = InHand \cup {t}
        BY <1>0, <1>8, <2>1 DEF Acquire, Failed, InHand
      <3>2. Cardinality(InHand') = inUse + 1
        BY <3>1, HandTaken
      <3>3. /\ inUse' = inUse + 1 /\ ~ poolClosed /\ poolClosed' = poolClosed
            /\ \/ idle > 0 /\ idle' = idle - 1 /\ created' = created
               \/ idle = 0 /\ created' = created + 1 /\ idle' = idle
        BY <1>0, <1>8, <2>1 DEF Acquire, Failed
      <3> QED
        BY <3>2, <3>3 DEF ConnInv, ConnectionsAccounted, InHand
    <2>2. CASE at'[t] \notin {"open", "call"}
      <3>1. UNCHANGED <<idle, created, inUse, poolClosed>>
        BY <1>0, <1>8, <2>2 DEF Acquire, Failed
      <3>2. at[t] = "acquire" /\ \A u \in Callers : u # t => at'[u] = at[u]
        BY <1>0, <1>8 DEF Acquire, Failed
      <3> QED
        BY <2>2, <3>1, <3>2, HandKept
    <2> QED
      BY <2>1, <2>2
  <1>9. ASSUME NEW t \in Callers, Opened(t) PROVE ConnInv'
    BY <1>0, <1>9, HandKept DEF Opened
  <1>10. ASSUME NEW t \in Callers, NotOpened(t) PROVE ConnInv'
    <2>1. t \in InHand /\ InHand' = InHand \ {t}
      BY <1>0, <1>10 DEF NotOpened, Woken, InHand
    <2>2. Cardinality(InHand') = inUse - 1 /\ inUse - 1 \in Nat
      BY <2>1, HandGiven
    <2>3. UNCHANGED <<idle, poolClosed>> /\ created' = created - 1 /\ inUse' = inUse - 1
      BY <1>10 DEF NotOpened, GiveBack
    <2> QED
      BY <2>2, <2>3 DEF ConnInv, ConnectionsAccounted, InHand
  <1>11. ASSUME NEW t \in Callers, Exchange(t) PROVE ConnInv'
    <2>1. t \in InHand /\ InHand' = InHand \ {t}
      BY <1>0, <1>11 DEF Exchange, Woken, InHand
    <2>2. Cardinality(InHand') = inUse - 1 /\ inUse - 1 \in Nat
      BY <2>1, HandGiven
    <2>3. /\ poolClosed' = poolClosed /\ inUse' = inUse - 1
          /\ \/ ~ poolClosed /\ idle' = idle + 1 /\ created' = created
             \/ created' = created - 1 /\ idle' = idle
      BY <1>11 DEF Exchange, Keeps
    <2> QED
      BY <2>2, <2>3 DEF ConnInv, ConnectionsAccounted, InHand
  <1>12. ASSUME NEW t \in Callers, CallAnswered(t) PROVE ConnInv'
    BY <1>0, <1>12, HandKept DEF CallAnswered
  <1>13. ASSUME NEW t \in Callers, Deadline(t) PROVE ConnInv'
    BY <1>0, <1>13, HandKept DEF Deadline, Failed
  <1>14. CASE Expire
    BY <1>14, HandKept DEF Expire
  <1>15. CASE ClosePool
    <2>1. InHand' = InHand
      BY <1>0, <1>15 DEF ClosePool, Woken, InHand
    <2>2. idle' = 0 /\ created' = created - idle /\ inUse' = inUse
      BY <1>15 DEF ClosePool
    <2>3. created' = idle' + inUse' /\ created' \in Nat
      BY <2>2 DEF ConnInv, ConnectionsAccounted
    <2>4. inUse' = Cardinality(InHand')
      BY <2>1, <2>2, InUseIsHand
    <2> QED
      BY <2>2, <2>3, <2>4 DEF ConnInv, ConnectionsAccounted, InHand
  <1>16. CASE UNCHANGED poolVars
    BY <1>16, HandKept DEF poolVars
  <1> QED
    BY <1>1, <1>2, <1>3, <1>4, <1>5, <1>6, <1>7, <1>8, <1>9, <1>10, <1>11, <1>12,
       <1>13, <1>14, <1>15, <1>16
    DEF PoolNext, CallerStep

\* Every connection that was counted is idle or in some thread's hands, for
\* every number of threads and over a close in the middle (http_pool.py
\* _acquire, _release, close).
THEOREM ConnectionsAreAccounted == PoolSpec => []ConnectionsAccounted
  <1>1. FlightInv => PlacesOK
    BY DEF FlightInv
  <1>2. ConnInv => ConnectionsAccounted
    BY DEF ConnInv
  <1> QED
    BY <1>1, <1>2, FlightInit, FlightStep, ConnInit, ConnStep, PTL DEF PoolSpec

-----------------------------------------------------------------------------
(* The app's token. *)

\* The leader of a flight has its token stored and has not ended the flight.
Stored(t) == at[t] = "landed" /\ outcome[t] = "ok"

\* A request of its own that has not been answered.
Uses(t) == role[t] = "api" /\ at[t] \in {"acquire", "asleep", "open", "call"}

\* A token that somebody may come to use: the app's, or a spent one.
Known(n) == n # 0 /\ (n = token \/ n \in spent)

FieldsOK ==
    /\ held \in [Callers -> Nat] /\ joined \in [Callers -> Nat]
    /\ outcome \in [Callers -> {"ok", "failed", "refused"}]
    /\ token \in Nat /\ fresh \in BOOLEAN /\ poolClosed \in BOOLEAN

\* What the leader, the followers and the requests have in hand, and that a
\* refresh begins only when the app's token is spent.
TokenInv ==
    /\ FieldsOK
    /\ \A t \in Callers : Leads(t) => joined[t] = flight
    /\ token # 0 /\ fresh = FALSE => token \in spent
    /\ \A t \in Callers :
          at[t] = "answered" /\ role[t] = "api" /\ outcome[t] = "refused" => held[t] \in spent
    /\ poolClosed = FALSE =>
          /\ \A n \in fetched : Known(n)
          /\ \A t \in Callers :
                /\ Stored(t) => Known(joined[t])
                /\ Leads(t) /\ ~ Stored(t) => token = 0 \/ token \in spent
                /\ Uses(t) => Known(held[t])

\* There is no token and no refresh at first.
LEMMA TokenInit == PoolInit => TokenInv
  <1> SUFFICES ASSUME PoolInit PROVE TokenInv
    OBVIOUS
  <1>1. FieldsOK
    BY DEF PoolInit, FieldsOK, NoFlight
  <1> QED
    BY <1>1 DEF PoolInit, TokenInv, Leads, Stored, Uses

\* Every step keeps TokenInv (http_pool.py _token and invalidate).
LEMMA TokenStep == FlightInv /\ TokenInv /\ [PoolNext]_poolVars => TokenInv'
  <1> SUFFICES ASSUME FlightInv, TokenInv, [PoolNext]_poolVars PROVE TokenInv'
    OBVIOUS
  <1> USE DEF FieldsOK, Leads, Stored, Uses, Known, Move, End, Go,
              callVars, connVars, tokenVars, NoFlight
  <1>0. /\ PlacesOK /\ OneRefresh
        /\ at \in [Callers -> Places] /\ role \in [Callers -> {"token", "api"}]
        /\ started \in Nat /\ flight \in Nat
        /\ \A t \in Callers : at[t] = "landed" => role[t] = "token"
    BY DEF FlightInv, PlacesOK
  <1>1. ASSUME NEW t \in Callers, Begin(t) PROVE TokenInv'
    BY <1>0, <1>1 DEF Begin, TokenInv
  <1>2. ASSUME NEW t \in Callers, UseToken(t) PROVE TokenInv'
    BY <1>0, <1>2 DEF UseToken, TokenInv
  <1>3. ASSUME NEW t \in Callers, Lead(t) PROVE TokenInv'
    <2>1. \A u \in Callers : ~ Leads(u)
      BY <1>0, <1>3 DEF Lead, MayLead, OneRefresh
    <2>2. token = 0 \/ token \in spent
      BY <1>3 DEF Lead, NeedsToken, TokenInv
    <2> QED
      BY <1>0, <1>3, <2>1, <2>2 DEF Lead, NeedsToken, TokenInv
  <1>4. ASSUME NEW t \in Callers, Join(t) PROVE TokenInv'
    BY <1>0, <1>4 DEF Join, NeedsToken, TokenInv
  <1>5. ASSUME NEW t \in Callers, Follow(t) PROVE TokenInv'
    BY <1>0, <1>5 DEF Follow, TokenInv
  <1>6. ASSUME NEW t \in Callers, StoreToken(t) PROVE TokenInv'
    <2>1. Leads(t) /\ (\A u \in Callers : Leads(u) => u = t) /\ flight # 0
      BY <1>0, <1>6 DEF StoreToken, OneRefresh
    <2>2. CASE outcome[t] = "ok" /\ poolClosed = FALSE
      <3>1. /\ token' = joined[t] /\ fresh' = TRUE /\ joined[t] # 0
            /\ token = 0 \/ token \in spent
        BY <1>6, <2>1, <2>2 DEF StoreToken, TokenInv
      <3> QED
        BY <1>0, <1>6, <2>1, <2>2, <3>1 DEF StoreToken, TokenInv
    <2>3. CASE ~ (outcome[t] = "ok" /\ poolClosed = FALSE)
      BY <1>0, <1>6, <2>3 DEF StoreToken, TokenInv
    <2> QED
      BY <2>2, <2>3
  <1>7. ASSUME NEW t \in Callers, EndFlight(t) PROVE TokenInv'
    <2>1. Leads(t) /\ \A u \in Callers : Leads(u) => u = t
      BY <1>0, <1>7 DEF EndFlight, OneRefresh
    <2> QED
      BY <1>0, <1>7, <2>1 DEF EndFlight, Landing, TokenInv
  <1>8. ASSUME NEW t \in Callers, Acquire(t) PROVE TokenInv'
    BY <1>0, <1>8 DEF Acquire, Failed, TokenInv
  <1>9. ASSUME NEW t \in Callers, Opened(t) PROVE TokenInv'
    BY <1>0, <1>9 DEF Opened, TokenInv
  <1>10. ASSUME NEW t \in Callers, NotOpened(t) PROVE TokenInv'
    BY <1>0, <1>10 DEF NotOpened, Woken, TokenInv
  <1>11. ASSUME NEW t \in Callers, Exchange(t) PROVE TokenInv'
    BY <1>0, <1>11 DEF Exchange, Woken, TokenInv
  <1>12. ASSUME NEW t \in Callers, CallAnswered(t) PROVE TokenInv'
    <2>1. CASE outcome[t] = "refused" /\ Invalidated(held[t])
      <3>1. token \in spent /\ token' = 0 /\ fresh' = FALSE /\ spent' = spent
        BY <1>12, <2>1 DEF CallAnswered, Invalidated, TokenInv
      <3> QED
        BY <1>0, <1>12, <3>1 DEF CallAnswered, TokenInv
    <2>2. CASE ~ (outcome[t] = "refused" /\ Invalidated(held[t]))
      BY <1>0, <1>12, <2>2 DEF CallAnswered, TokenInv
    <2> QED
      BY <2>1, <2>2
  <1>13. ASSUME NEW t \in Callers, Deadline(t) PROVE TokenInv'
    BY <1>0, <1>13 DEF Deadline, Failed, TokenInv
  <1>14. CASE Expire
    BY <1>0, <1>14 DEF Expire, TokenInv
  <1>15. CASE ClosePool
    <2>1. fresh' = FALSE /\ poolClosed' = TRUE /\ token' = 0
      BY <1>15 DEF ClosePool
    <2>2. \A u \in Callers : at'[u] = IF at[u] = "asleep" THEN "acquire" ELSE at[u]
      BY <1>0, <1>15 DEF ClosePool, Woken
    <2>3. UNCHANGED <<role, held, joined, outcome, flight, spent>>
      BY <1>15 DEF ClosePool
    <2> QED
      BY <1>0, <2>1, <2>2, <2>3 DEF TokenInv
  <1>16. CASE UNCHANGED poolVars
    BY <1>0, <1>16 DEF poolVars, TokenInv
  <1> QED
    BY <1>1, <1>2, <1>3, <1>4, <1>5, <1>6, <1>7, <1>8, <1>9, <1>10, <1>11, <1>12,
       <1>13, <1>14, <1>15, <1>16
    DEF PoolNext, CallerStep

\* A request whose token is good uses the app's token: a late refusal of an
\* older token never drops it (http_pool.py invalidate).
THEOREM GoodTokensAreKept == PoolSpec => []GoodTokenKept
  <1>1. TokenInv => GoodTokenKept
    BY DEF TokenInv, FieldsOK, Uses, Known, GoodTokenKept
  <1> QED
    BY <1>1, FlightInit, FlightStep, TokenInit, TokenStep, PTL DEF PoolSpec

-----------------------------------------------------------------------------
(* The whole pool. *)

\* Threads have no more requests than they began with, and the pool no more
\* connections than it may open.
BoundsInv == left \in [Callers -> 0 .. MaxRequests] /\ created <= MaxConnections

\* The pool begins within its bounds.
LEMMA BoundsInit == PoolInit => BoundsInv
  BY PoolAssumption DEF PoolInit, BoundsInv, PoolAssumption

\* A step that begins no request and opens no connection.
LEMMA BoundsKept ==
    ASSUME BoundsInv, left' = left, created' = created
    PROVE  BoundsInv'
  BY DEF BoundsInv

\* Every step keeps the bounds: a connection is opened only when there is room
\* (http_pool.py _acquire).
LEMMA BoundsStep == ConnInv /\ BoundsInv /\ [PoolNext]_poolVars => BoundsInv'
  <1> SUFFICES ASSUME ConnInv, BoundsInv, [PoolNext]_poolVars PROVE BoundsInv'
    OBVIOUS
  <1> USE DEF callVars, connVars, tokenVars
  <1>0. /\ idle \in Nat /\ created \in Nat /\ inUse \in Nat
        /\ created <= MaxConnections /\ MaxConnections \in Nat /\ MaxRequests \in Nat
        /\ left \in [Callers -> 0 .. MaxRequests]
    BY PoolAssumption DEF ConnInv, BoundsInv, PoolAssumption
  <1>1. ASSUME NEW t \in Callers, Begin(t) PROVE BoundsInv'
    BY <1>0, <1>1 DEF Begin, BoundsInv
  <1>2. ASSUME NEW t \in Callers, Acquire(t) PROVE BoundsInv'
    BY <1>0, <1>2 DEF Acquire, HasRoom, Failed, BoundsInv
  <1>3. ASSUME NEW t \in Callers, NotOpened(t) PROVE BoundsInv'
    BY <1>0, <1>3 DEF NotOpened, GiveBack, BoundsInv
  <1>4. ASSUME NEW t \in Callers, Exchange(t) PROVE BoundsInv'
    BY <1>0, <1>4 DEF Exchange, BoundsInv
  <1>5. ASSUME NEW t \in Callers,
               UseToken(t) \/ Lead(t) \/ Join(t) \/ Follow(t) \/ StoreToken(t)
                   \/ EndFlight(t) \/ Opened(t) \/ CallAnswered(t) \/ Deadline(t)
        PROVE  BoundsInv'
    BY <1>5, BoundsKept
    DEF UseToken, Lead, Join, Follow, StoreToken, EndFlight, Opened, CallAnswered, Deadline
  <1>6. CASE Expire
    BY <1>6, BoundsKept DEF Expire
  <1>7. CASE ClosePool
    BY <1>0, <1>7 DEF ClosePool, BoundsInv
  <1>8. CASE UNCHANGED poolVars
    BY <1>8, BoundsKept DEF poolVars
  <1> QED
    BY <1>1, <1>2, <1>3, <1>4, <1>5, <1>6, <1>7, <1>8 DEF PoolNext, CallerStep

\* For every number of threads, connections and requests the pool stays
\* consistent: all counts agree and one thread refreshes at a time, and a good
\* token stays (http_pool.py).
THEOREM PoolIsSafe == PoolSpec => []PoolSafe
  <1>1. PlacesOK /\ ConnInv /\ BoundsInv /\ FieldsOK => PoolTypeOK
    BY DEF PlacesOK, ConnInv, BoundsInv, FieldsOK, PoolTypeOK
  <1>2. FlightInv => PlacesOK
    BY DEF FlightInv
  <1>3. TokenInv => FieldsOK
    BY DEF TokenInv
  <1>4. PoolSpec => []PoolTypeOK
    BY <1>1, <1>2, <1>3, FlightInit, FlightStep, ConnInit, ConnStep, TokenInit, TokenStep,
       BoundsInit, BoundsStep, PTL DEF PoolSpec
  <1> QED
    BY <1>4, ConnectionsAreAccounted, RefreshesAreSingle, GoodTokensAreKept, PTL DEF PoolSafe
=============================================================================
