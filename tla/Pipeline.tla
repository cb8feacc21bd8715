------------------------------ MODULE Pipeline ------------------------------
(***************************************************************************)
(* Stages A to D of one frame after another (bris-streaming/src/pipeline):  *)
(* classify, look for the horizon, look for a body, look again for the      *)
(* horizon with a reflected pair, solve the stars.  One action per stage;    *)
(* a horizon provider is an action of its own, they run in a fixed order    *)
(* until one is good enough.                                                *)
(*                                                                         *)
(* What a detector sees in an image is nondeterministic.  A horizon line is *)
(* its angle, a fraction, and its precision, the inverse of its variance;   *)
(* a sigma is finite, so no precision is 0.                                 *)
(***************************************************************************)
EXTENDS Hysteresis, Listing

CONSTANTS
  Enabled,          \* EngineConfig::horizon_provider_set, with the features built
  Lines,            \* what a provider may report: [angle, precision, lifts]
  Bands,            \* the twilight bands the Sun may be in
  SkyFractions,     \* percent of sky a segmentation mask may have
  EarlyPrecision,   \* of horizon_early_termination_sigma_rad, 0 if it is infinite
  MaxPrecision,     \* of HorizonFusionConfig::sigma_floor_rad
  ConcordanceK2,    \* the square of HorizonFusionConfig::concordance_k
  MaxSeen,          \* bound: saturated blobs, and peaks, in a frame
  MaxHypotheses     \* bound: providers that see something in a frame

ASSUME PipelineConstants ==
  /\ Condition = {"Day", "Twilight", "Night"}
  /\ Lines \subseteq [angle : Int, precision : Nat \ {0}, lifts : BOOLEAN]
  /\ MaxPrecision \in Nat \ {0}

NoSky == -1         \* no segmentation mask
NoHorizon == [by |-> {}]

VARIABLES
  stage,     \* the stage to run next, "idle" between frames
  evidence,  \* the frame's image and Sun evidence, and its sky fraction
  turn,      \* the provider to run next
  hyps,      \* the hypotheses so far, in the order found
  horizon,   \* the horizon outcome
  body,      \* the body detection: its kind and how many points
  best       \* history: the best precision among hypotheses that lift

fvars == <<stage, evidence, turn, hyps, horizon, body, best>>
pvars == <<vars, fvars>>

NoBody == [kind |-> "None", n |-> 0]

-----------------------------------------------------------------------------
(* Stage A: condition.rs.                                                  *)

NoBand == "none"   \* the Sun's altitude is not known

\* TwilightBand::implied_condition
ImpliedCondition(band) ==
  CASE band = "AboveHorizon" -> "Day"
    [] band = "Night"        -> "Night"
    [] OTHER                 -> "Twilight"

\* pick_conservative.  Unusable is no outcome of either kind of evidence.
PickConservative(a, b) == IF a = b THEN a ELSE "Twilight"

\* classify_with_masks, combine
Classification(image, band) ==
  IF band = NoBand THEN image ELSE PickConservative(image, ImpliedCondition(band))

Classify(image, band, sky) ==
  /\ stage = "idle"
  /\ Update(Classification(image, band))
  /\ evidence' = [image |-> image, band |-> band, sky |-> sky]
  /\ stage' = "horizon" /\ turn' = 1 /\ hyps' = <<>>
  /\ horizon' = NoHorizon /\ body' = NoBody /\ best' = 0

-----------------------------------------------------------------------------
(* Fusion: horizon_providers/fusion.rs.                                    *)

Capped(precision) == IF precision > MaxPrecision THEN MaxPrecision ELSE precision

\* The angle between two lines is at most k times their combined sigma.
Concordant(g, h) ==
  LET gap == g.angle[1] * h.angle[2] - h.angle[1] * g.angle[2]
      v == Capped(g.precision) + Capped(h.precision)
  IN gap * gap * Capped(g.precision) * Capped(h.precision)
       <= ConcordanceK2 * v * (g.angle[2] * h.angle[2]) * (g.angle[2] * h.angle[2])

\* lowest_sigma_index: the first of the most precise.
Lowest(hs) ==
  CHOOSE i \in DOMAIN hs :
    \A j \in DOMAIN hs : \/ hs[j].precision < hs[i].precision
                         \/ hs[j].precision = hs[i].precision /\ i <= j

\* The hypotheses that lift to a ray.
Lifting(hs) == {i \in DOMAIN hs : hs[i].lifts}

\* Mutant of ClusterOrder: the entries stay in the order they were found.
AsFound(hs) == Ascending(Lifting(hs))

\* The more precise one, or the one found first.
Sharper(hs, i, j) ==
  \/ Capped(hs[i].precision) > Capped(hs[j].precision)
  \/ Capped(hs[i].precision) = Capped(hs[j].precision) /\ i < j

\* The hypotheses that lift, the most precise first.
ClusterOrder(hs) ==
  Listed([i \in Lifting(hs) |-> {j \in Lifting(hs) : Sharper(hs, j, i)}])

\* Complete link: an entry joins if it agrees with all that have.
Join(hs, cluster, i) ==
  IF \A j \in cluster : Concordant(hs[i], hs[j]) THEN cluster \cup {i} ELSE cluster

Cluster(hs) ==
  LET order == ClusterOrder(hs)
      after[n \in 0 .. Len(order)] ==
        IF n = 0 THEN {} ELSE Join(hs, after[n - 1], order[n])
  IN after[Len(order)]

Weighed(mean, h) ==
  LET w == Capped(h.precision)
  IN [n |-> mean.n * h.angle[2] * mean.w + h.angle[1] * mean.d * w,
      d |-> mean.d * h.angle[2] * (mean.w + w),
      w |-> mean.w + w]

\* The mean by inverse variance.
Mean(hs, cluster) ==
  LET after[n \in 0 .. Len(hs)] ==
        IF n = 0 THEN [n |-> 0, d |-> 1, w |-> 0]
        ELSE IF n \in cluster THEN Weighed(after[n - 1], hs[n])
                              ELSE after[n - 1]
  IN after[Len(hs)]

Fused(hs, cluster) ==
  LET mean == Mean(hs, cluster)
  IN [by |-> UNION {hs[i].by : i \in cluster},
      angle |-> <<mean.n, mean.d>>,
      precision |-> Capped(mean.w),
      lifts |-> TRUE,
      direct |-> \E i \in cluster : hs[i].direct]

\* fuse_horizon_hypotheses, fuse_to_outcome.  A mean that makes no line in the
\* image, which falls back to the most precise hypothesis too, is left out.
Fuse(hs) ==
  IF hs = <<>> THEN NoHorizon
  ELSE IF Cardinality(Cluster(hs)) < 2 THEN hs[Lowest(hs)]
  ELSE Fused(hs, Cluster(hs))

-----------------------------------------------------------------------------
(* Stage C: horizon.rs.                                                    *)

Providers == <<"gradient", "sky_region", "night", "night_textured",
               "segmentation", "vertical_line", "vanishing_point", "ml_gravity">>

ByDay == {"gradient", "sky_region"}
ByNight == {"night", "night_textured"}

\* MIN_SKY_FRACTION_*, in percent
MinSky == [gradient |-> 10, sky_region |-> 15, night |-> 10,
           night_textured |-> 10, reflection_pair |-> 5]

\* Mutant of SkyGateAllows: the gate asks for some sky only.
AnySkyAllows(provider) == evidence.sky # 0

\* sky_gate_allows: without a mask the gate stands open.
SkyGateAllows(provider) ==
  provider \in DOMAIN MinSky /\ evidence.sky # NoSky
    => evidence.sky >= MinSky[provider]

\* The provider is switched on, made for this light, and sees enough sky.
Runs(provider) ==
  /\ provider \in Enabled
  /\ provider \in ByDay => smoothed \in {"Day", "Twilight"}
  /\ provider \in ByNight => smoothed \in {"Night", "Twilight"}
  /\ SkyGateAllows(provider)

\* best_below: no hypothesis at all counts as an infinite sigma.
BestBelow(hs) ==
  \/ EarlyPrecision = 0
  \/ \E i \in DOMAIN hs : hs[i].precision >= EarlyPrecision

\* The last two providers are not followed by the test.
EndsEarly(hs) == turn <= 6 /\ BestBelow(hs)

Seen(line, provider) ==
  [by |-> {provider}, angle |-> <<line.angle, 1>>, precision |-> line.precision,
   lifts |-> line.lifts, direct |-> provider = "reflection_pair"]

BestWith(h) == IF h.lifts /\ Capped(h.precision) > best THEN Capped(h.precision)
                                                      ELSE best

\* Go on with hypotheses hs, or finish.
After(hs) ==
  IF EndsEarly(hs) \/ turn = Len(Providers)
    THEN /\ horizon' = Fuse(hs) /\ hyps' = <<>>
         /\ stage' = "body" /\ UNCHANGED turn
    ELSE /\ hyps' = hs /\ turn' = turn + 1 /\ UNCHANGED <<stage, horizon>>

\* The provider finds a line.
Detect(line) ==
  /\ stage = "horizon"
  /\ Runs(Providers[turn])
  /\ Providers[turn] = "segmentation" => evidence.sky # NoSky
  /\ Len(hyps) < MaxHypotheses
  /\ LET h == Seen(line, Providers[turn])
     IN After(Append(hyps, h)) /\ best' = BestWith(h)
  /\ UNCHANGED <<vars, evidence, body>>

\* It finds none.
DetectNothing ==
  /\ stage = "horizon"
  /\ Runs(Providers[turn])
  /\ After(hyps)
  /\ UNCHANGED <<vars, evidence, body, best>>

\* It does not run: no test follows either.
Pass ==
  /\ stage = "horizon"
  /\ ~ Runs(Providers[turn])
  /\ IF turn = Len(Providers)
       THEN /\ horizon' = Fuse(hyps) /\ hyps' = <<>>
            /\ stage' = "body" /\ UNCHANGED turn
       ELSE turn' = turn + 1 /\ UNCHANGED <<stage, horizon, hyps>>
  /\ UNCHANGED <<vars, evidence, body, best>>

-----------------------------------------------------------------------------
(* Stages B and D, and the second pass of Stage C: mod.rs, stage_d.rs.     *)

\* detect_day_body: the brightest blob, the others as its secondaries.
DayBody(blobs) == IF blobs = 0 THEN NoBody ELSE [kind |-> "Day", n |-> blobs]

\* detect_night_peaks: with a horizon, only the peaks above it.
NightPeaks(above, below) ==
  LET n == IF horizon = NoHorizon THEN above + below ELSE above
  IN IF n = 0 THEN NoBody ELSE [kind |-> "Night", n |-> n]

\* detect_twilight: the day's body without its secondaries, or the peaks.
TwilightBody(blobs, above, below) ==
  IF blobs = 0 THEN NightPeaks(above, below) ELSE DayBody(1)

DetectBody(blobs, above, below) ==
  /\ stage = "body"
  /\ body' = CASE smoothed = "Day" -> DayBody(blobs)
               [] smoothed = "Night" -> NightPeaks(above, below)
               [] smoothed = "Twilight" -> TwilightBody(blobs, above, below)
  /\ stage' = "pair"
  /\ UNCHANGED <<vars, evidence, turn, hyps, horizon, best>>

\* The second pass runs: two candidates at least, and some sky.
PairRuns == body.n >= 2 /\ SkyGateAllows("reflection_pair")

\* merge_reflection_pair: the first pass counts as one hypothesis.
MergeReflectionPair(line) ==
  /\ stage = "pair"
  /\ PairRuns /\ "reflection_pair" \in Enabled
  /\ LET h == Seen(line, "reflection_pair")
     IN /\ horizon' = Fuse((IF horizon = NoHorizon THEN <<>> ELSE <<horizon>>)
                             \o <<h>>)
        /\ best' = BestWith(h)
  /\ stage' = "solve"
  /\ UNCHANGED <<vars, evidence, turn, hyps, body>>

NoPair ==
  /\ stage = "pair"
  /\ stage' = "solve"
  /\ UNCHANGED <<vars, evidence, turn, hyps, horizon, body, best>>

\* stage_d::run: the peaks lent to a solver that declines are put back.
SolveStars(identified) ==
  /\ stage = "solve"
  /\ body' = IF body.kind # "Night" THEN body
             ELSE IF identified THEN [body EXCEPT !.kind = "IdentifiedStars"]
             ELSE body
  /\ stage' = "idle"
  /\ UNCHANGED <<vars, evidence, turn, hyps, horizon, best>>

-----------------------------------------------------------------------------

PInit ==
  /\ Init
  /\ stage = "idle" /\ evidence = [image |-> "Day", band |-> NoBand, sky |-> NoSky]
  /\ turn = 1 /\ hyps = <<>> /\ horizon = NoHorizon
  /\ body = NoBody /\ best = 0

PNext ==
  \/ \E image \in Condition, band \in Bands \cup {NoBand},
        sky \in SkyFractions \cup {NoSky} : Classify(image, band, sky)
  \/ \E line \in Lines : Detect(line) \/ MergeReflectionPair(line)
  \/ DetectNothing \/ Pass
  \/ \E blobs, above, below \in 0 .. MaxSeen : DetectBody(blobs, above, below)
  \/ NoPair
  \/ \E identified \in BOOLEAN : SolveStars(identified)

PSpec == PInit /\ [][PNext]_pvars

-----------------------------------------------------------------------------
(* Properties.                                                             *)

Finished == stage \notin {"idle", "horizon"}

\* The published horizon is at least as precise as every hypothesis of the
\* frame that can be placed in the sky, up to the floor on sigma: the cluster
\* is seeded by the best of them, in the first pass and in the second, so an
\* outlier can cost a member but never the best (fusion.rs:160-226).
NeverLessCertain == Finished /\ horizon # NoHorizon => horizon.precision >= best

\* No horizon rests, alone or fused, on a provider that was off, made for
\* another light, or shown too little sky; the second pass has a gate of its
\* own (horizon.rs:257-405, mod.rs:369-410).
RestsOnFitProviders ==
  Finished =>
    \A provider \in horizon.by :
      /\ provider \in Enabled
      /\ smoothed = "Day" => provider \notin ByNight
      /\ smoothed = "Night" => provider \notin ByDay
      /\ provider \in DOMAIN MinSky =>
           evidence.sky = NoSky \/ evidence.sky >= MinSky[provider]

\* Image and ephemeris may disagree, and then what either of them alone would
\* have run is run: the conservative condition leaves no provider out
\* (condition.rs:226-272).
NeitherIsOverruled ==
  stage # "idle" =>
    LET raw == Classification(evidence.image, evidence.band)
        pairOf(c) == IF c = "Twilight" THEN {"Day", "Night"} ELSE {c}
    IN /\ pairOf(evidence.image) \subseteq pairOf(raw)
       /\ evidence.band # NoBand =>
            pairOf(ImpliedCondition(evidence.band)) \subseteq pairOf(raw)

=============================================================================
