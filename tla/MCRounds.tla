------------------------------ MODULE MCRounds ------------------------------
(* HostdRounds for one binding with one to three ordinary phases. *)
EXTENDS HostdRounds
=============================================================================
