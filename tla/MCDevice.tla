------------------------------ MODULE MCDevice ------------------------------
(***************************************************************************)
(* TLC instance of what a device does besides navigating: Submission, with  *)
(* two submissions of which the second may be refused and the first may     *)
(* drift on disk, and the Android application's Recorder, with two captures *)
(* that share one tap on Stop.  They share nothing, so each runs from the   *)
(* initial state of the other.                                              *)
(***************************************************************************)
EXTENDS Submission, Recorder

MCInit == SInit /\ RInit

MCNext ==
  \/ RInit /\ SNext /\ UNCHANGED rvars
  \/ SInit /\ RNext /\ UNCHANGED svars

MCSpec == MCInit /\ [][MCNext]_<<svars, rvars>> /\ SFairness /\ RFairness

=============================================================================
