---------------------------- MODULE MCFeishuIngest ----------------------------
(***************************************************************************)
(* FeishuIngest with three messages: a stranger's words, a reply to them   *)
(* in the same second that shows up late, and a call to an agent a second  *)
(* later.                                                                  *)
(***************************************************************************)
EXTENDS FeishuIngest

SentTimes == <<0, 0, 1>>
Threads   == <<1, 1, 3>>
Lags      == <<0, 1, 0>>
=============================================================================
