------------------------------ MODULE MCSession ------------------------------
(***************************************************************************)
(* TLC instance of Session: one session and one foreign subscriber.         *)
(***************************************************************************)
EXTENDS Session
=============================================================================
