----------------------------- MODULE Screening -----------------------------
(***************************************************************************)
(* The blunder screen in front of the fix solver (bris-nav/src/screen.rs):  *)
(* of a sequence of lines of position it rejects those with an implausibly  *)
(* large intercept, those whose sign contradicts a better one in the same   *)
(* direction, and those far from the consensus of the others.               *)
(*                                                                         *)
(* A line of position is [azimuth, intercept, sigma], in integers: the      *)
(* intercepts and sigmas share one unit, azimuths count steps of a turn.    *)
(* Medians are kept doubled, so that a midpoint is an integer.  An          *)
(* intercept of 0 has a positive sign, as f64::signum of +0.0.              *)
(*                                                                         *)
(* A set of kept lines is a set of positions in the sequence.               *)
(***************************************************************************)
EXTENDS Integers, Sequences, FiniteSets, SequencesExt

CONSTANTS
  FullTurn,             \* azimuth steps in a turn
  SameLookDirection,    \* same_look_direction_delta_rad, in those steps
  MaxAbsIntercept,      \* max_abs_intercept_nm
  OutlierK,             \* outlier_k_sigma
  MinSightsForOutlier   \* min_sights_for_outlier

ASSUME ScreeningConstants ==
  /\ FullTurn \in Nat \ {0}
  /\ SameLookDirection \in Nat
  /\ MaxAbsIntercept \in Nat
  /\ OutlierK \in Nat
  /\ MinSightsForOutlier \in Nat \ {0}

Abs(x) == IF x < 0 THEN -x ELSE x

\* circular_delta_rad
CircularDelta(a, b) ==
  LET d == (a - b) % FullTurn IN IF 2 * d > FullTurn THEN FullTurn - d ELSE d

Towards(lop) == lop.intercept >= 0

\* Two lines look the same way and disagree about which way the body lies.
Contradict(a, b) ==
  /\ CircularDelta(a.azimuth, b.azimuth) <= SameLookDirection
  /\ Towards(a) # Towards(b)

-----------------------------------------------------------------------------
(* Pass 1: the intercepts that are too large.                              *)

Plausible(lops) ==
  {i \in DOMAIN lops : Abs(lops[i].intercept) <= MaxAbsIntercept}

-----------------------------------------------------------------------------
(* Pass 2: pairs that contradict each other, in index order.  A line        *)
(* dropped by one pair takes no part in a later one.                        *)

\* Mutant of Worse: the smaller intercept goes.
Better(lops, i, j) ==
  IF Abs(lops[i].intercept) < Abs(lops[j].intercept) THEN i ELSE j

\* The larger intercept of the two is the blunder, the first one on a tie.
Worse(lops, i, j) ==
  IF Abs(lops[i].intercept) >= Abs(lops[j].intercept) THEN i ELSE j

\* Mutant of Contradicted: only neighbours in the sequence are compared.
ContradictedByNeighbour(lops, kept) ==
  {Worse(lops, i, i + 1) : i \in
     {k \in kept : k + 1 \in kept /\ Contradict(lops[k], lops[k + 1])}}

\* Lines i and j meet: of two that contradict each other one is dropped.
Meet(lops, dropped, i, j) ==
  IF dropped \cap {i, j} = {} /\ Contradict(lops[i], lops[j])
    THEN dropped \cup {Worse(lops, i, j)}
    ELSE dropped

\* What is dropped once line i has met every kept line after it.
MeetLater(lops, kept, dropped, i) ==
  LET after[j \in 0 .. Len(lops)] ==
        IF j = 0 THEN dropped
        ELSE IF i < j /\ j \in kept THEN Meet(lops, after[j - 1], i, j)
                                   ELSE after[j - 1]
  IN after[Len(lops)]

Contradicted(lops, kept) ==
  LET after[i \in 0 .. Len(lops)] ==
        IF i = 0 THEN {}
        ELSE IF i \in kept THEN MeetLater(lops, kept, after[i - 1], i)
                           ELSE after[i - 1]
  IN after[Len(lops)]

-----------------------------------------------------------------------------
(* Pass 3: lines far from the consensus of the others.                      *)

\* The positions 1 .. n that belong to ids, in order.
InOrder(ids, n) == SelectSeq([k \in 1 .. n |-> k], LAMBDA k : k \in ids)

\* robust_median, doubled: the two middle values of a bag of integers added,
\* or the middle one twice; 0 if there are none.
Median2(values) ==
  LET sorted == SortSeq(values, LAMBDA x, y : x < y)
      n == Len(values)
  IN IF n = 0 THEN 0 ELSE sorted[(n + 1) \div 2] + sorted[(n \div 2) + 1]

InterceptsOf(lops, ids) ==
  LET order == InOrder(ids, Len(lops))
  IN [k \in DOMAIN order |-> lops[order[k]].intercept]

\* Four times the median absolute deviation of the values about half of m2.
Mad4(values, m2) ==
  Median2([k \in DOMAIN values |-> Abs(2 * values[k] - m2)])

\* 40000 times the sigma a residual is measured in: 1.4826 MAD of the others,
\* or the line's own sigma if that is larger.
Scatter4(lop, mad4) ==
  IF 14826 * mad4 > 40000 * lop.sigma THEN 14826 * mad4
                                      ELSE 40000 * lop.sigma

Outlying(lops, kept, i) ==
  LET others == InterceptsOf(lops, kept \ {i})
      m2 == Median2(others)
      residual2 == Abs(2 * lops[i].intercept - m2)
  IN 20000 * residual2 > OutlierK * Scatter4(lops[i], Mad4(others, m2))

\* Every residual is judged against all the lines this pass began with.
Outliers(lops, kept) ==
  IF Cardinality(kept) >= MinSightsForOutlier
    THEN {i \in kept : Outlying(lops, kept, i)}
    ELSE {}

-----------------------------------------------------------------------------
\* What pass 3 sees, and screen_sights: the positions of the lines kept.
Consistent(lops) == Plausible(lops) \ Contradicted(lops, Plausible(lops))

Kept(lops) == Consistent(lops) \ Outliers(lops, Consistent(lops))

=============================================================================
