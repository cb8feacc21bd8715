------------------------------- MODULE Screen -------------------------------
(***************************************************************************)
(* The blunder screen (Screening) over every sequence of lines of position, *)
(* received one by one, and what must be true of the lines it keeps.        *)
(***************************************************************************)
EXTENDS Screening

CONSTANTS
  Azimuths, Intercepts, Sigmas,   \* of the lines that may be received
  MaxSights                       \* bound: how many are

ASSUME ScreenConstants ==
  /\ Azimuths \subseteq Int /\ Intercepts \subseteq Int /\ Sigmas \subseteq Nat
  /\ MaxSights \in Nat

VARIABLE lops   \* the lines received, in order

Receive(az, p, s) ==
  /\ Len(lops) < MaxSights
  /\ lops' = Append(lops, [azimuth |-> az, intercept |-> p, sigma |-> s])

ScreenInit == lops = <<>>

ScreenNext == \E az \in Azimuths, p \in Intercepts, s \in Sigmas : Receive(az, p, s)

ScreenSpec == ScreenInit /\ [][ScreenNext]_lops

-----------------------------------------------------------------------------
\* No two lines the solver is given look the same way and disagree in sign,
\* although a dropped line takes no part in later comparisons
\* (screen.rs:125-178).  So with two lines only, and whatever their own sigmas
\* say, where the text knows no screen but that of the absolute intercept "below
\* this many sights" and one that rejects "never sights whose own sigma says they
\* should be uncertain" (screen.rs:10-14, 40-42).
NoContradictionKept ==
  \A i, j \in Kept(lops) : ~ Contradict(lops[i], lops[j])

\* A line goes for contradicting another only if that one is no farther out:
\* the best-placed line of every direction survives pass 2 (screen.rs:148-158).
NearestSurvivesContradiction ==
  \A i \in Plausible(lops) :
    (\A j \in Plausible(lops) \ {i} :
       CircularDelta(lops[i].azimuth, lops[j].azimuth) <= SameLookDirection
         => Abs(lops[i].intercept) < Abs(lops[j].intercept))
    => i \in Consistent(lops)

=============================================================================
