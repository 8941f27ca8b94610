---------------------------- MODULE MCScheduler ----------------------------
(***************************************************************************)
(* Scheduler with three threads on two lanes of one app, two of them with  *)
(* the same lane and priority.  The minute of the app is three ticks and   *)
(* allows less than its seconds would.                                     *)
(***************************************************************************)
EXTENDS Scheduler

MCThreads  == {"n1", "n2", "b1"}
MCPair     == [n1 |-> "chat1", n2 |-> "chat1", b1 |-> "chat2"]
MCPriority == [n1 |-> "normal", n2 |-> "normal", b1 |-> "backfill"]
MCBudgets  == {"second", "minute", "chat1", "chat2"}
MCBudgetsOf == [chat1 |-> {"second", "minute", "chat1"},
                chat2 |-> {"second", "minute", "chat2"}]
MCLimit    == [second |-> 2, minute |-> 3, chat1 |-> 1, chat2 |-> 1]
MCSeconds  == [second |-> 1, minute |-> 3, chat1 |-> 1, chat2 |-> 1]
=============================================================================
