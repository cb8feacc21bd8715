------------------------------ MODULE MCStores ------------------------------
(***************************************************************************)
(* TLC instance of the two stores on disk: SightStore, one process with a    *)
(* log of sights and one of fixes, and Collector, two uploads of which either *)
(* comes first and one process of each maintenance command.  They share      *)
(* nothing, so each runs from the initial state of the other.               *)
(***************************************************************************)
EXTENDS SightStore, Collector, TLC

MCKinds == <<"sights", "fixes">>
Uploads == Permutations(Ids)

MCInit == Init /\ CInit

MCNext ==
  \/ CInit /\ Next /\ UNCHANGED cvars
  \/ Init /\ CNext /\ UNCHANGED svars

MCSpec == MCInit /\ [][MCNext]_<<svars, cvars>>

=============================================================================
