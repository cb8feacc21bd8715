----------------------------- MODULE MCStorage -----------------------------
(***************************************************************************)
(* TLC instance of StorageHistory and of StorageVec, each from the initial   *)
(* state of the other.  StorageHistory: one kind of detection per queue (the *)
(* sigma plays no part in eviction), pushed in capture order.  StorageVec:   *)
(* two sigmas, so that queues hold ties and differences, in any order.  A    *)
(* ring of three, so that the hard cap strikes, over a window of one.        *)
(***************************************************************************)
EXTENDS StorageHistory, StorageVec

MCBodyDetections == {[kind |-> "day", sigma_key |-> 1]}
MCHorizonDetections == {[kind |-> "optical", sigma_key |-> 1]}

MCVecBodyDetections == {[sigma_key |-> 1], [sigma_key |-> 2]}
MCVecHorizonDetections == {[sigma_key |-> 1]}

MCInit == HInit /\ VInit

MCNext ==
  \/ VInit /\ HNext /\ UNCHANGED vvars
  \/ HInit /\ VNext /\ UNCHANGED hvars

MCSpec == MCInit /\ [][MCNext]_<<hvars, vvars>>

=============================================================================
