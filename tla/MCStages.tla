------------------------------ MODULE MCStages ------------------------------
(***************************************************************************)
(* The stages a frame passes before its lines of position are solved for:   *)
(* Pipeline over every sequence of frames up to its bound, and Screen over   *)
(* every sequence of at most MaxSights lines of position with the given     *)
(* azimuths, intercepts and sigmas.  Each runs from the initial state of    *)
(* the other.                                                               *)
(***************************************************************************)
EXTENDS Pipeline, Screen

MCLine(angle, precision, lifts) ==
  [angle |-> angle, precision |-> precision, lifts |-> lifts]
\* One that ends the search, a sharp one, two blunt ones of which one is off
\* the sharp line but not off the other, and one no ray can be lifted from.
MCLines == {MCLine(0, 5, TRUE), MCLine(0, 3, TRUE), MCLine(1, 1, TRUE),
            MCLine(4, 1, TRUE), MCLine(0, 4, FALSE)}
MCProviders == {"gradient", "sky_region", "night", "segmentation",
                "vanishing_point", "reflection_pair"}

MCIntercepts == {-2, 1, 10, 61}

MCInit == PInit /\ ScreenInit

MCNext ==
  \/ ScreenInit /\ PNext /\ UNCHANGED lops
  \/ PInit /\ UNCHANGED pvars /\ ScreenNext

MCSpec == MCInit /\ [][MCNext]_<<pvars, lops>>

=============================================================================
