------------------------------- MODULE StageE -------------------------------
(***************************************************************************)
(* Stage E as a function (bris-streaming/src/pipeline/stage_e.rs): which    *)
(* body and horizon records are paired, which sights a pair yields, how the *)
(* sight window takes and drops sights, and which fixes a window may        *)
(* publish.  Engine drives it.                                              *)
(*                                                                         *)
(* Sigmas enter as variances, in which Sigma::combine is an addition.  A    *)
(* body detection carries the `lines` its bodies reduce to: one for Day,    *)
(* one per identified star, none for Night and for a detection whose        *)
(* reduction fails on its data (altitude, almanac or LOP error).  Its       *)
(* `shows_sun` tells whether one of its pixels verifies the Sun there.      *)
(* FrameEvicted has no outcome of its own: a queued record's frame is in    *)
(* the ring (Storage's RecordsReferenceLiveFrames).                         *)
(* The spherical geometry is left out: whether the panorama stitch succeeds *)
(* is decided by the time gap, which also gives the variance a stitch adds, *)
(* and what a solver's covariance passes is open.                           *)
(***************************************************************************)
EXTENDS Storage, Screening, Listing

CONSTANTS
  SightWindowCapacity,   \* EngineConfig::sight_window_capacity
  SightWindowSeconds,    \* EngineConfig::sight_window_seconds
  PanoramaReach,         \* the largest gap the panorama stitch still bridges
  EphemerisFallback,     \* EngineConfig::enable_ephemeris_stitch_fallback
  ColdStartEnabled,      \* ColdStartEngineConfig::enabled
  LockAp,                \* EngineConfig::lock_ap_for_replay
  StaleIntercept,        \* stale_prior_intercept_threshold_nm
  MinAzimuthSpread,      \* PublicationGateConfig::min_azimuth_spread_rad
  NoFrame,               \* FrameId(u64::MAX) of a sight read from disk
  NoTime                 \* Option<Tt>::None

\* The bodies a detection may show, and a line of one of them.
SightBody == UNION {{d.lines[i].body : i \in DOMAIN d.lines} : d \in BodyDetections}

Line == [body : SightBody, azimuth : Int, intercept : Int, sigma : Int]

\* try_insert panics on a full window of capacity 0.  A detection shows a body
\* once: the plate solver gives each peak another star.
ASSUME StageEConstants ==
  /\ \A d \in BodyDetections :
       /\ d.lines \in Seq(Line)
       /\ \A i, j \in DOMAIN d.lines : d.lines[i].body = d.lines[j].body => i = j
  /\ SightWindowCapacity \in Nat \ {0}
  /\ SightWindowSeconds \in Nat
  /\ PanoramaReach \in Nat
  /\ {EphemerisFallback, ColdStartEnabled, LockAp} \subseteq BOOLEAN
  /\ StaleIntercept \in Nat
  /\ MinAzimuthSpread \in Nat
  /\ NoFrame \notin FrameId
  /\ NoTime \notin Times

-----------------------------------------------------------------------------
(* Pair selection.                                                         *)

\* The variance stitching two frames adds.
StitchVariance(a, b) == Gap(a.frame_tt, b.frame_tt) * Gap(a.frame_tt, b.frame_tt)

\* The body's own sigma is the same for all its horizons.
PairVariance(body, horizon) ==
  horizon.detection.sigma_key
    + IF body.frame_id = horizon.frame_id THEN 0 ELSE StitchVariance(body, horizon)

\* select_pairs: the horizon with the least combined sigma, the first in the
\* queue's order on a tie.
BestHorizon(s, body) ==
  CHOOSE h \in s.horizon_q : \A g \in s.horizon_q \ {h} :
    \/ PairVariance(body, h) < PairVariance(body, g)
    \/ PairVariance(body, h) = PairVariance(body, g) /\ Precedes(h, g)

\* The candidates in the order Stage E visits them: one per body record, if
\* there is a horizon at all.
Candidates(s) ==
  IF s.horizon_q = {}
    THEN <<>>
    ELSE LET bodies == Listed([r \in s.body_q |->
                                 {p \in s.body_q : Precedes(p, r)}])
         IN [i \in DOMAIN bodies |->
              [body |-> bodies[i], horizon |-> BestHorizon(s, bodies[i])]]

-----------------------------------------------------------------------------
(* Reduction of a pair to sights.                                          *)

SameFrame(c) == c.body.frame_id = c.horizon.frame_id

\* try_ephemeris_stitch: the record of the horizon's own frame must show a
\* candidate where the ephemeris puts the Sun.
EphemerisStitches(s, c) ==
  /\ EphemerisFallback
  /\ \E r \in s.body_q : /\ r.frame_id = c.horizon.frame_id
                         /\ r.detection.shows_sun

Stitches(s, c) ==
  \/ Gap(c.body.frame_tt, c.horizon.frame_tt) <= PanoramaReach
  \/ EphemerisStitches(s, c)

\* Identified stars take the horizon of another frame as it is; only a Day
\* pair is stitched, and pays for it in sigma.
Reducible(s, c) ==
  \/ c.body.detection.kind = "IdentifiedStars"
  \/ c.body.detection.kind = "Day" /\ (SameFrame(c) \/ Stitches(s, c))

SightVariance(c, line) ==
  line.sigma + c.horizon.detection.sigma_key
    + IF SameFrame(c) \/ c.body.detection.kind # "Day"
        THEN 0
        ELSE StitchVariance(c.body, c.horizon)

\* A sight; `obs` is a history field that names the observation it comes
\* from.
SightOf(c, line, session) ==
  [body |-> line.body, azimuth |-> line.azimuth,
   intercept |-> line.intercept, sigma |-> SightVariance(c, line),
   anchor_tt |-> c.body.frame_tt,
   source_frame_id |-> c.body.frame_id,
   horizon_frame_id |-> c.horizon.frame_id,
   obs |-> <<session, c.body.frame_id, line.body>>]

\* reduce_to_sight
Reduce(s, c, session) ==
  LET lines == c.body.detection.lines
  IN IF Reducible(s, c)
       THEN [i \in DOMAIN lines |-> SightOf(c, lines[i], session)]
       ELSE <<>>

-----------------------------------------------------------------------------
(* The sight window: a sequence of sights.                                 *)

\* The last of the sights with the largest sigma (Iterator::max_by).
WorstSight(w) ==
  CHOOSE i \in DOMAIN w : \A j \in DOMAIN w :
    w[j].sigma < w[i].sigma \/ (w[j].sigma = w[i].sigma /\ j <= i)

HasRoom(w) == Len(w) < SightWindowCapacity

\* Mutant of Admits: a full window takes any sight.
AdmitsAlways(w, sight) == TRUE

Admits(w, sight) == HasRoom(w) \/ sight.sigma < w[WorstSight(w)].sigma

\* SightWindow::try_insert
TryInsert(w, sight) ==
  IF HasRoom(w) THEN Append(w, sight)
  ELSE IF Admits(w, sight) THEN [w EXCEPT ![WorstSight(w)] = sight]
  ELSE w

\* Mutant of EvictAged: the limit is off by one.
EvictAgedLate(w, now) ==
  Picked(w, {i \in DOMAIN w : Gap(now, w[i].anchor_tt) <= SightWindowSeconds + 1})

\* SightWindow::evict_aged
EvictAged(w, now) ==
  Picked(w, {i \in DOMAIN w : Gap(now, w[i].anchor_tt) <= SightWindowSeconds})

\* Mutant of ContainsSource: the dedup looks at the horizon's frame.
ContainsSourceByHorizon(w, id) == \E i \in DOMAIN w : w[i].horizon_frame_id = id

\* SightWindow::contains_source
ContainsSource(w, id) == \E i \in DOMAIN w : w[i].source_frame_id = id

\* Mutant of Hydrated: the oldest sights, unsorted.
HydratedUnsorted(read) ==
  SubSeq(read, 1, IF Len(read) < SightWindowCapacity
                    THEN Len(read) ELSE SightWindowCapacity)

\* SightWindow::hydrate: the best sights, in a stable order of sigma.
Hydrated(read) ==
  LET order == Listed([i \in DOMAIN read |-> {j \in DOMAIN read :
                         \/ read[j].sigma < read[i].sigma
                         \/ read[j].sigma = read[i].sigma /\ j < i}])
      taken == IF Len(read) < SightWindowCapacity
                 THEN Len(read) ELSE SightWindowCapacity
  IN [k \in 1 .. taken |-> read[order[k]]]

\* One sight offered to the window; acc.inserted lists those it took.
Offer(acc, sight) ==
  IF Admits(acc.window, sight)
    THEN [window |-> TryInsert(acc.window, sight),
          inserted |-> Append(acc.inserted, sight)]
    ELSE acc

\* The sights of one candidate, one after the other.
OfferAll(acc, sights) ==
  LET after[n \in 0 .. Len(sights)] ==
        IF n = 0 THEN acc ELSE Offer(after[n - 1], sights[n])
  IN after[Len(sights)]

\* One candidate: nothing if the window still holds a sight of its frame.
Visit(s, acc, c, session) ==
  IF ContainsSource(acc.window, c.body.frame_id)
    THEN acc
    ELSE OfferAll(acc, Reduce(s, c, session))

\* All candidates, in their order.
Emit(s, w, session) ==
  LET candidates == Candidates(s)
      after[n \in 0 .. Len(candidates)] ==
        IF n = 0 THEN [window |-> w, inserted |-> <<>>]
                 ELSE Visit(s, after[n - 1], candidates[n], session)
  IN after[Len(candidates)]

\* Mutant of Now: the candidate with the best sigma gives the time.
NowOfBest(s, w) ==
  IF Candidates(s) # <<>> THEN Candidates(s)[1].body.frame_tt
  ELSE IF w # <<>> THEN w[1].anchor_tt
  ELSE NoTime

\* now_tt of a run: the latest candidate body, or else the first sight.
Now(s, w) ==
  LET c == Candidates(s)
  IN IF c # <<>> THEN CHOOSE t \in {c[i].body.frame_tt : i \in DOMAIN c} :
                        \A i \in DOMAIN c : c[i].body.frame_tt <= t
     ELSE IF w # <<>> THEN w[1].anchor_tt
     ELSE NoTime

-----------------------------------------------------------------------------
(* Publication.                                                            *)

\* Stage E's screen leaves the absolute-intercept gate open: the stale-prior
\* trigger below deals with large intercepts.
KeptSights(w) ==
  LET all == DOMAIN w
      consistent == all \ Contradicted(w, all)
  IN consistent \ Outliers(w, consistent)

\* The normal equations are singular iff all lines are parallel.
Singular(sights) ==
  \A i, j \in DOMAIN sights :
    (2 * (sights[i].azimuth - sights[j].azimuth)) % FullTurn = 0

\* azimuth_spread_of: the smallest arc that holds every azimuth.
SpreadFrom(sights, i) ==
  CHOOSE d \in {(sights[j].azimuth - sights[i].azimuth) % FullTurn :
                  j \in DOMAIN sights} :
    \A j \in DOMAIN sights :
      (sights[j].azimuth - sights[i].azimuth) % FullTurn <= d

\* Mutant of Diverse: two sights are enough.
DiverseByCount(sights) == Len(sights) >= 2

Diverse(sights) ==
  /\ Len(sights) >= 2
  /\ \A i \in DOMAIN sights : SpreadFrom(sights, i) >= MinAzimuthSpread

\* apply_gate: the fixes a solution may become; none if the geometry is too
\* narrow.  (The ellipse and sigma gates depend on the covariance: they may
\* also refuse any of these.)
Gated(sights, now, provenance) ==
  IF Diverse(sights)
    THEN {[timestamp |-> now, sights |-> sights, provenance |-> provenance]}
    ELSE {}

\* solve_cold_start over the circles of the whole window, behind the gate.
ColdStarted(w, now) ==
  IF Len(w) >= 2
    THEN Gated(w, now, "ColdStart") \cup Gated(w, now, "ColdStartAmbiguous")
    ELSE {}

MayColdStart == ColdStartEnabled /\ ~ LockAp

StalePrior(sights) == \E i \in DOMAIN sights :
                        Abs(sights[i].intercept) > StaleIntercept

\* try_publish: every fix this window may publish at `now`, over what the
\* solvers may make of it.  Too few sights without a prior, or parallel ones,
\* call for a cold start; so does a solution far from the assumed position,
\* and then the tighter one is taken.
Publishable(w, now, has_prior) ==
  LET kept == Picked(w, KeptSights(w))
      solved == Len(kept) >= 2 /\ ~ Singular(kept)
      cold == IF MayColdStart /\ \/ solved /\ StalePrior(kept)
                                 \/ Len(kept) >= 2 /\ Singular(kept)
                                 \/ Len(kept) < 2 /\ ~ has_prior
                THEN ColdStarted(w, now) ELSE {}
  IN cold \cup (IF solved THEN Gated(kept, now, "SaintHilaire") ELSE {})

=============================================================================
