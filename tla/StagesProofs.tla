---------------------------- MODULE StagesProofs ----------------------------
(***************************************************************************)
(* What holds of the pipeline whatever the detectors see and however many   *)
(* providers there are.  First the hysteresis alone (Hysteresis): its        *)
(* inductive invariant is the conjunction of the two properties with the     *)
(* fact that something is trusted exactly when something was seen; each      *)
(* clause needs the others: a promotion settles the new frame because the    *)
(* pending run is that long, and an unpromoted frame is not settled because  *)
(* the run is no longer than pending_count.  Then the pipeline: of one frame *)
(* after another it makes one history of classifications, so what was shown  *)
(* of such a history is true of the condition the stages are dispatched on.  *)
(* Then the fusion of a frame's hypotheses and the horizon the frame ends     *)
(* with, which is as certain as the best of them and rests on fit ones only.  *)
(* Last the screen: what its two passes keep of any list of lines.           *)
(***************************************************************************)
EXTENDS Pipeline, Screen, ListingProofs

IInv ==
  /\ TypeOK
  /\ smoothed = NoCondition <=> raws = <<>>
  /\ PendingIsTheStreak
  /\ SmoothedIsLastSettled

\* Settle is a positive natural number whatever the configuration says.
LEMMA SettlePositive == Settle \in Nat /\ Settle >= 1
BY HysteresisConstants DEF Settle

\* A classification appended to the history is its last element and disturbs
\* no other.
LEMMA AppendedHistory ==
  ASSUME TypeOK, NEW raw \in Condition, raws' = Append(raws, raw)
  PROVE  /\ raws' \in Seq(Condition)
         /\ raws' # <<>>
         /\ Len(raws) \in Nat
         /\ Len(raws') = Len(raws) + 1
         /\ raws'[Len(raws')] = raw
         /\ \A i \in 1 .. Len(raws) : raws'[i] = raws[i]
BY DEF TypeOK

\* Whether an old frame settled does not change when another is appended.
LEMMA SettledIsHistory ==
  ASSUME TypeOK, NEW raw \in Condition, raws' = Append(raws, raw),
         NEW i \in 1 .. Len(raws)
  PROVE  Settled(raws', i) <=> Settled(raws, i)
<1>1. \A j \in 1 .. Len(raws) : raws'[j] = raws[j]
  BY AppendedHistory
<1>2. Len(raws) \in Nat
  BY AppendedHistory
<1>3. \A j \in (i - Settle + 1) .. i : i >= Settle => j \in 1 .. Len(raws)
  BY <1>2, SettlePositive
<1>4. i >= Settle =>
        ((\A j \in (i - Settle + 1) .. i : raws'[j] = raws'[i])
           <=> (\A j \in (i - Settle + 1) .. i : raws[j] = raws[i]))
  BY <1>1, <1>2, <1>3
<1>5. Settle' = Settle
  BY DEF Settle
<1> QED
  BY <1>4, <1>5 DEF Settled

LEMMA InitIInv == Init => IInv
<1> SUFFICES ASSUME Init PROVE IInv
  OBVIOUS
<1>1. raws = <<>> /\ raws \in Seq(Condition)
  BY DEF Init
<1>2. TypeOK
  BY <1>1, SettlePositive DEF Init, TypeOK
<1>3. PendingIsTheStreak /\ SmoothedIsLastSettled
  BY <1>1 DEF Init, PendingIsTheStreak, SmoothedIsLastSettled
<1> QED
  BY <1>1, <1>2, <1>3 DEF IInv, Init

\* If the appended frame is settled and becomes the trusted condition, the
\* trusted condition is the last settled one.
LEMMA NewestSettled ==
  ASSUME TypeOK, NEW raw \in Condition, raws' = Append(raws, raw),
         Settled(raws', Len(raws')), smoothed' = raw
  PROVE  SmoothedIsLastSettled'
<1>1. /\ Len(raws') \in 1 .. Len(raws')
      /\ raws'[Len(raws')] = raw
      /\ (Len(raws') + 1) .. Len(raws') = {}
  BY AppendedHistory
<1> QED
  BY <1>1 DEF SmoothedIsLastSettled

\* If the appended frame is not settled and the trusted condition stays, it is
\* still the last settled one.
LEMMA NewestUnsettled ==
  ASSUME IInv, raws # <<>>, NEW raw \in Condition,
         raws' = Append(raws, raw),
         ~ Settled(raws', Len(raws')), smoothed' = smoothed
  PROVE  SmoothedIsLastSettled'
<1>1. PICK i \in 1 .. Len(raws) :
        /\ Settled(raws, i)
        /\ smoothed = raws[i]
        /\ \A k \in (i + 1) .. Len(raws) : ~ Settled(raws, k)
  BY DEF IInv, SmoothedIsLastSettled
<1>2. /\ Len(raws) \in Nat
      /\ Len(raws') = Len(raws) + 1
      /\ raws'[i] = raws[i]
  BY AppendedHistory DEF IInv
<1>3. Settled(raws', i)
  BY <1>1, SettledIsHistory DEF IInv
<1>4. ASSUME NEW k \in (i + 1) .. Len(raws')
      PROVE  ~ Settled(raws', k)
  <2>1. CASE k = Len(raws')
    BY <2>1
  <2>2. CASE k # Len(raws')
    <3>1. k \in (i + 1) .. Len(raws) /\ k \in 1 .. Len(raws)
      BY <1>2, <2>2
    <3> QED
      BY <1>1, <3>1, SettledIsHistory DEF IInv
  <2> QED
    BY <2>1, <2>2
<1> QED
  BY <1>1, <1>2, <1>3, <1>4 DEF SmoothedIsLastSettled

\* The run the history ends in once a disagreeing raw is appended: Streak(raw)
\* frames say raw and the one before them does not.
LEMMA StreakIsTheRun ==
  ASSUME IInv, NEW raw \in Condition, raws' = Append(raws, raw),
         smoothed \notin {NoCondition, raw}
  PROVE  /\ Streak(raw) \in 1 .. Len(raws)
         /\ raws'[Len(raws') - Streak(raw)] # raw
         /\ \A j \in (Len(raws') - Streak(raw) + 1) .. Len(raws') :
              raws'[j] = raw
<1> DEFINE n == Len(raws)
<1>1. /\ n \in Nat /\ n # 0
      /\ Len(raws') = n + 1
      /\ raws'[n + 1] = raw
      /\ \A j \in 1 .. n : raws'[j] = raws[j]
  <2>1. raws # <<>> /\ raws \in Seq(Condition)
    BY DEF IInv, TypeOK
  <2>2. Len(raws) # 0
    BY <2>1
  <2> QED
    BY <2>2, AppendedHistory DEF IInv
<1> HIDE DEF n
<1>2. pending_count \in Nat
  BY SettlePositive DEF IInv, TypeOK
<1>3. CASE raw = pending
  <2>1. /\ pending_count < n
        /\ pending_count >= 1
        /\ raws[n - pending_count] # raw
        /\ \A j \in (n - pending_count + 1) .. n : raws[j] = raw
    BY <1>3, SettlePositive, HysteresisConstants
       DEF IInv, PendingIsTheStreak, n
  <2>2. Streak(raw) = pending_count + 1
    BY <1>3 DEF Streak
  <2>3. n - pending_count \in 1 .. n
    BY <1>1, <1>2, <2>1
  <2>4. /\ Streak(raw) \in 1 .. n
        /\ raws'[(n + 1) - Streak(raw)] # raw
    BY <1>1, <1>2, <2>1, <2>2, <2>3
  <2>5. ASSUME NEW j \in ((n + 1) - Streak(raw) + 1) .. (n + 1)
        PROVE  raws'[j] = raw
    <3>1. j = n + 1 \/ (j \in (n - pending_count + 1) .. n /\ j \in 1 .. n)
      BY <1>1, <1>2, <2>1, <2>2
    <3> QED
      BY <1>1, <2>1, <3>1
  <2> QED
    BY <1>1, <2>4, <2>5 DEF n
<1>4. CASE raw # pending
  <2>1. Streak(raw) = 1
    BY <1>4 DEF Streak
  <2>2. raws[n] # raw
    <3>1. CASE pending = NoCondition
      BY <1>1, <3>1 DEF IInv, PendingIsTheStreak, n
    <3>2. CASE pending # NoCondition
      <4>1. pending_count >= 1 /\ pending_count < n
            /\ \A j \in (n - pending_count + 1) .. n : raws[j] = pending
        BY <3>2, SettlePositive DEF IInv, PendingIsTheStreak, n
      <4>2. n \in (n - pending_count + 1) .. n
        BY <1>1, <1>2, <4>1
      <4> QED
        BY <1>4, <4>1, <4>2
    <3> QED
      BY <3>1, <3>2
  <2>3. Streak(raw) \in 1 .. n /\ raws'[(n + 1) - Streak(raw)] # raw
    BY <1>1, <2>1, <2>2
  <2>4. ASSUME NEW j \in ((n + 1) - Streak(raw) + 1) .. (n + 1)
        PROVE  raws'[j] = raw
    BY <1>1, <2>1
  <2> QED
    BY <1>1, <2>3, <2>4 DEF n
<1> QED
  BY <1>3, <1>4

LEMMA UpdateKeepsIInv ==
  ASSUME IInv, NEW raw \in Condition, Update(raw)
  PROVE  IInv'
<1> DEFINE n == Len(raws')
<1>1. /\ raws' = Append(raws, raw)
      /\ raws' \in Seq(Condition) /\ raws' # <<>>
      /\ n \in Nat /\ n = Len(raws) + 1 /\ Len(raws) \in Nat
      /\ raws'[n] = raw
  BY AppendedHistory DEF IInv, Update
<1>2. raw # NoCondition
  BY HysteresisConstants
<1>3. Settle' = Settle
  BY DEF Settle
<1>4. CASE TrustFirst(raw)
  <2>1. TypeOK' /\ smoothed' # NoCondition /\ PendingIsTheStreak'
    BY <1>1, <1>2, <1>3, <1>4, SettlePositive
       DEF TrustFirst, TypeOK, PendingIsTheStreak
  <2>2. n = 1
    BY <1>1, <1>4 DEF TrustFirst, IInv
  <2>3. SmoothedIsLastSettled'
    <3>1. Settled(raws', n)
      BY <2>2 DEF Settled
    <3> QED
      BY <1>1, <1>4, <3>1, NewestSettled DEF IInv, TrustFirst
  <2> QED
    BY <1>1, <2>1, <2>3 DEF IInv
<1>5. CASE Agree(raw)
  <2>1. TypeOK' /\ smoothed' # NoCondition /\ PendingIsTheStreak'
    BY <1>1, <1>2, <1>3, <1>5, SettlePositive
       DEF Agree, TypeOK, PendingIsTheStreak, IInv
  <2>2. raws # <<>>
    BY <1>2, <1>5 DEF Agree, IInv
  <2>3. Settled(raws', n) => SmoothedIsLastSettled'
    BY <1>1, <1>5, NewestSettled DEF IInv, Agree
  <2>4. ~ Settled(raws', n) => SmoothedIsLastSettled'
    BY <1>1, <1>5, <2>2, NewestUnsettled DEF Agree
  <2> QED
    BY <1>1, <2>1, <2>3, <2>4 DEF IInv
<1>6. CASE Promote(raw)
  <2>1. TypeOK' /\ smoothed' # NoCondition /\ PendingIsTheStreak'
    BY <1>1, <1>2, <1>3, <1>6, SettlePositive
       DEF Promote, TypeOK, PendingIsTheStreak, IInv
  <2>2. /\ Streak(raw) \in 1 .. Len(raws)
        /\ Streak(raw) >= Settle
        /\ \A j \in (n - Streak(raw) + 1) .. n : raws'[j] = raw
    BY <1>1, <1>6, StreakIsTheRun DEF Promote
  <2>3. n >= Settle /\ \A j \in (n - Settle + 1) .. n : raws'[j] = raws'[n]
    <3>1. \A j \in (n - Settle + 1) .. n : j \in (n - Streak(raw) + 1) .. n
      BY <1>1, <2>2, SettlePositive
    <3> QED
      BY <1>1, <2>2, <3>1, SettlePositive
  <2>4. SmoothedIsLastSettled'
    <3>1. Settled(raws', n)
      BY <1>3, <2>3 DEF Settled
    <3> QED
      BY <1>1, <1>6, <3>1, NewestSettled DEF IInv, Promote
  <2> QED
    BY <1>1, <2>1, <2>4 DEF IInv
<1>7. CASE Extend(raw)
  <2>1. /\ Streak(raw) \in 1 .. Len(raws)
        /\ Streak(raw) < Settle
        /\ raws'[n - Streak(raw)] # raw
        /\ \A j \in (n - Streak(raw) + 1) .. n : raws'[j] = raw
    BY <1>1, <1>7, StreakIsTheRun DEF Extend
  <2>2. TypeOK' /\ smoothed' # NoCondition
    BY <1>1, <1>3, <1>7, <2>1, SettlePositive DEF Extend, TypeOK, IInv
  <2>3. PendingIsTheStreak'
    <3>1. /\ pending' = raw /\ pending' # NoCondition /\ pending' # smoothed'
          /\ pending_count' = Streak(raw)
      BY <1>2, <1>7 DEF Extend
    <3>2. pending_count' \in 1 .. (Settle - 1) /\ pending_count' < n
      BY <1>1, <2>1, <3>1, SettlePositive
    <3> QED
      BY <1>3, <2>1, <3>1, <3>2 DEF PendingIsTheStreak
  <2>4. ~ Settled(raws', n)
    <3>1. n # 1
      BY <1>1, <2>1
    <3>2. n >= Settle => n - Streak(raw) \in (n - Settle + 1) .. n
      BY <1>1, <2>1, SettlePositive
    <3> QED
      BY <1>1, <1>3, <2>1, <3>1, <3>2 DEF Settled
  <2>5. raws # <<>>
    BY <1>7 DEF Extend, IInv
  <2>6. SmoothedIsLastSettled'
    BY <1>1, <1>7, <2>4, <2>5, NewestUnsettled DEF Extend
  <2> QED
    BY <1>1, <2>2, <2>3, <2>6 DEF IInv
<1> QED
  BY <1>4, <1>5, <1>6, <1>7 DEF Update

LEMMA InvariantOfSpec == Spec => []IInv
<1>1. IInv /\ [Next]_vars => IInv'
  <2> SUFFICES ASSUME IInv, [Next]_vars PROVE IInv'
    OBVIOUS
  <2>1. CASE Next
    BY <2>1, UpdateKeepsIInv DEF Next
  <2>2. CASE UNCHANGED vars
    BY <2>2 DEF vars, IInv, TypeOK, PendingIsTheStreak,
                SmoothedIsLastSettled, Settled, Settle
  <2> QED
    BY <2>1, <2>2
<1> QED
  BY InitIInv, <1>1, PTL DEF Spec

-----------------------------------------------------------------------------
\* The fields of the hysteresis keep their types, and pending_count stays
\* below the settle time: its saturating_add never saturates.
THEOREM TypeCorrect == Spec => []TypeOK
<1>1. IInv => TypeOK
  BY DEF IInv
<1> QED
  BY <1>1, InvariantOfSpec, PTL

\* For every settle time and every history of classifications, the condition
\* the pipeline dispatches on is the last settled one of that history.
THEOREM TrustsTheLastSettled == Spec => []SmoothedIsLastSettled
<1>1. IInv => SmoothedIsLastSettled
  BY DEF IInv
<1> QED
  BY <1>1, InvariantOfSpec, PTL

\* The pending candidate is always the maximal run the history ends in.
THEOREM CountsTheStreak == Spec => []PendingIsTheStreak
<1>1. IInv => PendingIsTheStreak
  BY DEF IInv
<1> QED
  BY <1>1, InvariantOfSpec, PTL

-----------------------------------------------------------------------------
(* The pipeline.                                                           *)

\* Image and ephemeris are combined into a condition.
LEMMA ClassificationIsACondition ==
  ASSUME NEW image \in Condition, NEW band
  PROVE  Classification(image, band) \in Condition
BY PipelineConstants DEF Classification, PickConservative, ImpliedCondition

\* Classify is the only stage that touches the hysteresis, and it updates it
\* once.
LEMMA StagesUpdateOnce == [PNext]_pvars => [Next]_vars
<1> SUFFICES ASSUME PNext PROVE [Next]_vars
  BY DEF pvars
<1>1. ASSUME NEW image \in Condition, NEW band \in Bands \cup {NoBand},
             NEW sky \in SkyFractions \cup {NoSky}, Classify(image, band, sky)
      PROVE  Next
  BY <1>1, ClassificationIsACondition DEF Classify, Next
<1>2. ASSUME NEW line \in Lines, Detect(line) \/ MergeReflectionPair(line)
      PROVE  UNCHANGED vars
  BY <1>2 DEF Detect, MergeReflectionPair
<1>3. ASSUME DetectNothing \/ Pass \/ NoPair
      PROVE  UNCHANGED vars
  BY <1>3 DEF DetectNothing, Pass, NoPair
<1>4. ASSUME NEW blobs, NEW above, NEW below, DetectBody(blobs, above, below)
      PROVE  UNCHANGED vars
  BY <1>4 DEF DetectBody
<1>5. ASSUME NEW identified, SolveStars(identified)
      PROVE  UNCHANGED vars
  BY <1>5 DEF SolveStars
<1> QED
  BY <1>1, <1>2, <1>3, <1>4, <1>5 DEF PNext

\* The pipeline implements the hysteresis: no stage but the classifier moves
\* the condition, and the classifier moves it as ClassifierHysteresis::update
\* does (mod.rs: process_frame).
THEOREM PipelineIsHysteresis == PSpec => Spec
<1>1. PInit => Init
  BY DEF PInit
<1> QED
  BY <1>1, StagesUpdateOnce, PTL DEF PSpec, Spec

\* Through all the stages of every frame, the condition they are dispatched on
\* is the last settled one.
THEOREM DispatchesOnTheLastSettled == PSpec => []SmoothedIsLastSettled
BY PipelineIsHysteresis, TrustsTheLastSettled, PTL

-----------------------------------------------------------------------------
\* The detectors either piece of evidence asks for are among those that the
\* condition made of both runs.
LEMMA EvidenceIsHeeded ==
  (stage # "idle" => evidence.image \in Condition)
    => NeitherIsOverruled
<1> SUFFICES ASSUME stage # "idle", evidence.image \in Condition
             PROVE  NeitherIsOverruled
  BY DEF NeitherIsOverruled
<1> DEFINE image == evidence.image
           band  == evidence.band
           implied == ImpliedCondition(band)
<1>1. implied \in {"Day", "Twilight", "Night"}
  BY DEF ImpliedCondition
<1>2. image \in {"Day", "Twilight", "Night"}
  BY PipelineConstants
<1> HIDE DEF image, implied
<1>3. Classification(evidence.image, evidence.band)
        = IF band = NoBand THEN image
          ELSE IF image = implied THEN image ELSE "Twilight"
  BY DEF Classification, PickConservative, image, implied
<1> QED
  BY <1>1, <1>2, <1>3 DEF NeitherIsOverruled, image, implied

\* Neither piece of evidence is overruled: the detectors that either of them
\* alone would have run are run (condition.rs: pick_conservative).
THEOREM NoEvidenceOverruled == PSpec => []NeitherIsOverruled
<1> DEFINE I == stage # "idle" => evidence.image \in Condition
<1>1. PInit => I
  BY DEF PInit
<1>2. I /\ [PNext]_pvars => I'
  <2> SUFFICES ASSUME I, [PNext]_pvars PROVE I'
    OBVIOUS
  <2>1. ASSUME NEW image \in Condition, NEW band \in Bands \cup {NoBand},
               NEW sky \in SkyFractions \cup {NoSky}, Classify(image, band, sky)
        PROVE  I'
    BY <2>1 DEF Classify
  <2>2. ASSUME NEW line \in Lines, Detect(line) \/ MergeReflectionPair(line)
        PROVE  I'
    BY <2>2 DEF Detect, MergeReflectionPair
  <2>3. CASE DetectNothing \/ Pass \/ NoPair
    BY <2>3 DEF DetectNothing, Pass, NoPair
  <2>4. ASSUME NEW blobs, NEW above, NEW below, DetectBody(blobs, above, below)
        PROVE  I'
    BY <2>4 DEF DetectBody
  <2>5. ASSUME NEW identified, SolveStars(identified)
        PROVE  I'
    BY <2>5 DEF SolveStars
  <2>6. CASE UNCHANGED pvars
    BY <2>6 DEF pvars, fvars
  <2> QED
    BY <2>1, <2>2, <2>3, <2>4, <2>5, <2>6 DEF PNext
<1> QED
  BY <1>1, <1>2, EvidenceIsHeeded, PTL DEF PSpec

-----------------------------------------------------------------------------
(* The blunder screen.                                                     *)

\* What line i makes of the dropped lines d when the loop comes to line j, and
\* what the outer loop makes of them when it comes to line i.
InnerRound(ls, kept, d, i, j) ==
  IF i < j /\ j \in kept THEN Meet(ls, d, i, j) ELSE d

OuterRound(ls, kept, d, i) ==
  IF i \in kept THEN MeetLater(ls, kept, d, i) ELSE d

\* What every round of the inner loop preserves holds at its end.
LEMMA MeetLaterKeeps ==
  ASSUME NEW ls, Len(ls) \in Nat, NEW kept, NEW dropped, NEW i, NEW Reached,
         <<0, dropped>> \in Reached,
         \A k \in 0 .. Len(ls) - 1 : \A d :
           <<k, d>> \in Reached
             => <<k + 1, InnerRound(ls, kept, d, i, k + 1)>> \in Reached
  PROVE  <<Len(ls), MeetLater(ls, kept, dropped, i)>> \in Reached
<1> DEFINE n == Len(ls)
           Loops(f) == f = [k \in 0 .. n |-> IF k = 0 THEN dropped
                                            ELSE IF i < k /\ k \in kept
                                              THEN Meet(ls, f[k - 1], i, k) ELSE f[k - 1]]
           step == [p \in Reached |-> InnerRound(ls, kept, p[2], i, p[1] + 1)]
<1>1. \A k \in 0 .. n - 1 : \A a :
        <<k, a>> \in Reached => /\ step[<<k, a>>] = InnerRound(ls, kept, a, i, k + 1)
                                /\ <<k + 1, step[<<k, a>>]>> \in Reached
  OBVIOUS
<1>2. PICK f : /\ \A k \in 0 .. n : f[k] = IF k = 0 THEN dropped
                                             ELSE step[<<k - 1, f[k - 1]>>]
               /\ \A k \in 0 .. n : <<k, f[k]>> \in Reached
  <2>1. n \in Nat
    OBVIOUS
  <2> HIDE DEF step, n
  <2>2. StaysIn(Reached, step, n)
    BY <1>1 DEF StaysIn
  <2>3. RunsIn(Reached, step, n, dropped)
    BY <2>1, <2>2, LoopExists
  <2>4. QED
    BY <2>3 DEF RunsIn
<1>3. \E g : Loops(g)
  <2>1. \A k \in 0 .. n : k # 0 => step[<<k - 1, f[k - 1]>>] = InnerRound(ls, kept, f[k - 1], i, k)
    <3> SUFFICES ASSUME NEW k \in 0 .. n, k # 0
                 PROVE  step[<<k - 1, f[k - 1]>>] = InnerRound(ls, kept, f[k - 1], i, k)
      OBVIOUS
    <3>1. k - 1 \in 0 .. n - 1 /\ k - 1 \in 0 .. n /\ (k - 1) + 1 = k
      OBVIOUS
    <3>2. <<k - 1, f[k - 1]>> \in Reached
      BY <1>2, <3>1
    <3> HIDE DEF step
    <3>3. step[<<k - 1, f[k - 1]>>] = InnerRound(ls, kept, f[k - 1], i, (k - 1) + 1)
      BY <1>1, <3>1, <3>2
    <3>4. QED
      BY <3>1, <3>3
  <2> HIDE DEF step
  <2> DEFINE h == [k \in 0 .. n |-> f[k]]
  <2>2. \A k \in 0 .. n : k # 0 => k - 1 \in 0 .. n
    OBVIOUS
  <2>3. Loops(h)
    BY <1>2, <2>1, <2>2 DEF InnerRound
  <2>4. QED
    BY <2>3
<1> DEFINE g == CHOOSE h : Loops(h)
<1>4. Loops(g)
  BY <1>3
<1>5. MeetLater(ls, kept, dropped, i) = g[n]
  BY DEF MeetLater
<1>6. \A k \in 0 .. n : g[k] = IF k = 0 THEN dropped ELSE InnerRound(ls, kept, g[k - 1], i, k)
  <2> HIDE DEF g
  <2> QED BY <1>4 DEF InnerRound
<1> HIDE DEF g
<1> DEFINE S == {k \in 0 .. n : <<k, g[k]>> \in Reached}
<1>7. 0 \in S
  <2>1. 0 \in 0 .. n
    OBVIOUS
  <2>2. QED
    BY <1>6, <2>1
<1>8. ASSUME NEW k \in 0 .. n - 1, k \in S
      PROVE  k + 1 \in S
  <2>1. k + 1 \in 0 .. n /\ k + 1 # 0 /\ (k + 1) - 1 = k
    OBVIOUS
  <2>2. g[k + 1] = InnerRound(ls, kept, g[k], i, k + 1)
    BY <1>6, <2>1
  <2>3. QED
    BY <1>8, <2>1, <2>2
<1>9. n \in S
  <2> HIDE DEF S
  <2> QED BY <1>7, <1>8, AfterEveryRound
<1>10. QED
  BY <1>5, <1>9

\* The same of the outer loop.
LEMMA ContradictedKeeps ==
  ASSUME NEW ls, Len(ls) \in Nat, NEW kept, NEW Reached,
         <<0, {}>> \in Reached,
         \A k \in 0 .. Len(ls) - 1 : \A d :
           <<k, d>> \in Reached
             => <<k + 1, OuterRound(ls, kept, d, k + 1)>> \in Reached
  PROVE  <<Len(ls), Contradicted(ls, kept)>> \in Reached
<1> DEFINE n == Len(ls)
           Loops(f) == f = [k \in 0 .. n |-> IF k = 0 THEN {}
                                            ELSE IF k \in kept THEN MeetLater(ls, kept, f[k - 1], k)
                                                          ELSE f[k - 1]]
           step == [p \in Reached |-> OuterRound(ls, kept, p[2], p[1] + 1)]
<1>1. \A k \in 0 .. n - 1 : \A a :
        <<k, a>> \in Reached => /\ step[<<k, a>>] = OuterRound(ls, kept, a, k + 1)
                                /\ <<k + 1, step[<<k, a>>]>> \in Reached
  OBVIOUS
<1>2. PICK f : /\ \A k \in 0 .. n : f[k] = IF k = 0 THEN {}
                                             ELSE step[<<k - 1, f[k - 1]>>]
               /\ \A k \in 0 .. n : <<k, f[k]>> \in Reached
  <2>1. n \in Nat
    OBVIOUS
  <2> HIDE DEF step, n
  <2>2. StaysIn(Reached, step, n)
    BY <1>1 DEF StaysIn
  <2>3. RunsIn(Reached, step, n, {})
    BY <2>1, <2>2, LoopExists
  <2>4. QED
    BY <2>3 DEF RunsIn
<1>3. \E g : Loops(g)
  <2>1. \A k \in 0 .. n : k # 0 => step[<<k - 1, f[k - 1]>>] = OuterRound(ls, kept, f[k - 1], k)
    <3> SUFFICES ASSUME NEW k \in 0 .. n, k # 0
                 PROVE  step[<<k - 1, f[k - 1]>>] = OuterRound(ls, kept, f[k - 1], k)
      OBVIOUS
    <3>1. k - 1 \in 0 .. n - 1 /\ k - 1 \in 0 .. n /\ (k - 1) + 1 = k
      OBVIOUS
    <3>2. <<k - 1, f[k - 1]>> \in Reached
      BY <1>2, <3>1
    <3> HIDE DEF step
    <3>3. step[<<k - 1, f[k - 1]>>] = OuterRound(ls, kept, f[k - 1], (k - 1) + 1)
      BY <1>1, <3>1, <3>2
    <3>4. QED
      BY <3>1, <3>3
  <2> HIDE DEF step
  <2> DEFINE h == [k \in 0 .. n |-> f[k]]
  <2>2. \A k \in 0 .. n : k # 0 => k - 1 \in 0 .. n
    OBVIOUS
  <2>3. Loops(h)
    BY <1>2, <2>1, <2>2 DEF OuterRound
  <2>4. QED
    BY <2>3
<1> DEFINE g == CHOOSE h : Loops(h)
<1>4. Loops(g)
  BY <1>3
<1>5. Contradicted(ls, kept) = g[n]
  BY DEF Contradicted
<1>6. \A k \in 0 .. n : g[k] = IF k = 0 THEN {} ELSE OuterRound(ls, kept, g[k - 1], k)
  <2> HIDE DEF g
  <2> QED BY <1>4 DEF OuterRound
<1> HIDE DEF g
<1> DEFINE S == {k \in 0 .. n : <<k, g[k]>> \in Reached}
<1>7. 0 \in S
  <2>1. 0 \in 0 .. n
    OBVIOUS
  <2>2. QED
    BY <1>6, <2>1
<1>8. ASSUME NEW k \in 0 .. n - 1, k \in S
      PROVE  k + 1 \in S
  <2>1. k + 1 \in 0 .. n /\ k + 1 # 0 /\ (k + 1) - 1 = k
    OBVIOUS
  <2>2. g[k + 1] = OuterRound(ls, kept, g[k], k + 1)
    BY <1>6, <2>1
  <2>3. QED
    BY <1>8, <2>1, <2>2
<1>9. n \in S
  <2> HIDE DEF S
  <2> QED BY <1>7, <1>8, AfterEveryRound
<1>10. QED
  BY <1>5, <1>9

\* Of the multiples of m only 0 and m are less than twice m.
LEMMA SmallMultiples ==
  ASSUME NEW m \in Nat \ {0}, NEW k \in Int, 0 <= m * k, m * k < 2 * m
  PROVE  k = 0 \/ k = 1
<1>1. k <= -1 => m * k <= -m
  <2> SUFFICES ASSUME k <= -1 PROVE m * k <= -m
    OBVIOUS
  <2>1. m * (-1 - k) >= 0 /\ m * (-1 - k) = -m - m * k
    OBVIOUS
  <2>2. QED
    BY <2>1
<1>2. k >= 2 => m * k >= 2 * m
  <2> SUFFICES ASSUME k >= 2 PROVE m * k >= 2 * m
    OBVIOUS
  <2>1. m * (k - 2) >= 0 /\ m * (k - 2) = m * k - 2 * m
    OBVIOUS
  <2>2. QED
    BY <2>1
<1>3. QED
  BY <1>1, <1>2

\* A remainder and that of the opposite number add up to the divisor, or are
\* both zero.
LEMMA OppositeRemainders ==
  ASSUME NEW m \in Nat \ {0}, NEW x \in Int
  PROVE  /\ x % m \in 0 .. m - 1
         /\ (-x) % m = IF x % m = 0 THEN 0 ELSE m - (x % m)
<1> DEFINE r == x % m
           q == x \div m
           s == (-x) % m
           p == (-x) \div m
<1>1. r \in 0 .. m - 1 /\ q \in Int /\ x = m * q + r
  OBVIOUS
<1>2. s \in 0 .. m - 1 /\ p \in Int /\ -x = m * p + s
  OBVIOUS
<1> HIDE DEF r, q, s, p
<1> DEFINE k == -(p + q)
<1>3. k \in Int /\ m * k = r + s
  <2>1. m * (p + q) = m * p + m * q /\ m * k = -(m * (p + q))
    BY <1>1, <1>2
  <2>2. m * p \in Int /\ m * q \in Int /\ m * (p + q) \in Int
    BY <1>1, <1>2
  <2>3. QED
    BY <1>1, <1>2, <2>1, <2>2
<1>4. r + s >= 0 /\ r + s < 2 * m
  BY <1>1, <1>2
<1> HIDE DEF k
<1>5. k = 0 \/ k = 1
  BY <1>3, <1>4, SmallMultiples
<1>6. r + s = 0 \/ r + s = m
  BY <1>3, <1>5
<1>7. s = IF r = 0 THEN 0 ELSE m - r
  BY <1>1, <1>2, <1>6
<1>8. QED
  BY <1>1, <1>7 DEF r, s

\* The angle between two azimuths does not depend on their order.
LEMMA DeltaIsSymmetric ==
  ASSUME NEW a \in Int, NEW b \in Int
  PROVE  CircularDelta(a, b) = CircularDelta(b, a)
<1> DEFINE d == (a - b) % FullTurn
           e == (b - a) % FullTurn
<1>1. a - b \in Int /\ b - a = -(a - b) /\ FullTurn \in Nat \ {0}
  BY ScreeningConstants
<1>2. d \in 0 .. FullTurn - 1 /\ e = IF d = 0 THEN 0 ELSE FullTurn - d
  BY <1>1, OppositeRemainders
<1>3. (IF 2 * d > FullTurn THEN FullTurn - d ELSE d)
        = (IF 2 * e > FullTurn THEN FullTurn - e ELSE e)
  <2> HIDE DEF d, e
  <2> QED BY <1>1, <1>2
<1>4. QED
  BY <1>3 DEF CircularDelta

\* A line of position.
Line == [azimuth : Int, intercept : Int, sigma : Nat]

\* One of a and b is dropped, or they do not contradict each other.
Agreed(ls, d, a, b) == a \in d \/ b \in d \/ ~ Contradict(ls[a], ls[b])

\* Each line dropped had, in its direction, another that is no farther out.
Justified(ls, kept, d) ==
  \A x \in d : \E y \in kept :
    /\ y # x
    /\ CircularDelta(ls[x].azimuth, ls[y].azimuth) <= SameLookDirection
    /\ Abs(ls[y].intercept) <= Abs(ls[x].intercept)

Sound(ls, kept, d) == d \subseteq kept /\ Justified(ls, kept, d)

\* Two lines that meet agree from then on, and nothing else is undone.
LEMMA MeetingSettles ==
  ASSUME NEW ls \in Seq(Line), NEW kept \in SUBSET DOMAIN ls, NEW d,
         Sound(ls, kept, d), NEW i \in kept, NEW j \in kept, i # j
  PROVE  /\ Sound(ls, kept, Meet(ls, d, i, j))
         /\ d \subseteq Meet(ls, d, i, j)
         /\ Agreed(ls, Meet(ls, d, i, j), i, j)
<1>1. CASE d \cap {i, j} = {} /\ Contradict(ls[i], ls[j])
  <2> DEFINE w == Worse(ls, i, j)
  <2>1. Meet(ls, d, i, j) = d \cup {w}
    BY <1>1 DEF Meet
  <2>2. ls[i] \in Line /\ ls[j] \in Line
    BY LenProperties, ElementOfSeq
  <2>3. /\ ls[i].azimuth \in Int /\ ls[j].azimuth \in Int
        /\ Abs(ls[i].intercept) \in Int /\ Abs(ls[j].intercept) \in Int
    BY <2>2 DEF Line, Abs
  <2>4. /\ CircularDelta(ls[i].azimuth, ls[j].azimuth) <= SameLookDirection
        /\ CircularDelta(ls[j].azimuth, ls[i].azimuth) <= SameLookDirection
    BY <1>1, <2>3, DeltaIsSymmetric DEF Contradict
  <2>5. \/ w = i /\ Abs(ls[j].intercept) <= Abs(ls[i].intercept)
        \/ w = j /\ Abs(ls[i].intercept) <= Abs(ls[j].intercept)
    <3> DEFINE p == Abs(ls[i].intercept)
               q == Abs(ls[j].intercept)
    <3>1. w = IF p >= q THEN i ELSE j
      BY DEF Worse
    <3> HIDE DEF p, q, w
    <3>2. p \in Int /\ q \in Int
      BY <2>3 DEF p, q
    <3>3. (w = i /\ q <= p) \/ (w = j /\ p <= q)
      BY <3>1, <3>2
    <3>4. QED
      BY <3>3 DEF p, q
  <2> HIDE DEF w
  <2>6. Sound(ls, kept, d \cup {w})
    <3>1. \E y \in kept :
            /\ y # w
            /\ CircularDelta(ls[w].azimuth, ls[y].azimuth) <= SameLookDirection
            /\ Abs(ls[y].intercept) <= Abs(ls[w].intercept)
      BY <2>4, <2>5
    <3>2. QED
      BY <2>5, <3>1 DEF Sound, Justified
  <2>7. Agreed(ls, d \cup {w}, i, j)
    BY <2>5 DEF Agreed
  <2>8. QED
    BY <2>1, <2>6, <2>7
<1>2. CASE ~ (d \cap {i, j} = {} /\ Contradict(ls[i], ls[j]))
  <2>1. Meet(ls, d, i, j) = d
    BY <1>2 DEF Meet
  <2>2. Agreed(ls, d, i, j)
    BY <1>2 DEF Agreed
  <2>3. QED
    BY <2>1, <2>2
<1>3. QED
  BY <1>1, <1>2

\* The inner loop: line i agrees with all later ones.
LEMMA InnerLoop ==
  ASSUME NEW ls \in Seq(Line), NEW kept \in SUBSET DOMAIN ls, NEW d,
         Sound(ls, kept, d), NEW i \in kept
  PROVE  LET e == MeetLater(ls, kept, d, i)
         IN /\ Sound(ls, kept, e)
            /\ d \subseteq e
            /\ \A j \in kept : i < j => Agreed(ls, e, i, j)
<1> DEFINE n == Len(ls)
           Settles(k, e) == /\ Sound(ls, kept, e)
                            /\ d \subseteq e
                            /\ \A j \in kept : i < j /\ j <= k => Agreed(ls, e, i, j)
           Reached == {p \in (0 .. n) \X SUBSET kept : Settles(p[1], p[2])}
<1>1. n \in Nat /\ DOMAIN ls = 1 .. n /\ kept \subseteq 1 .. n
  BY LenProperties
<1> HIDE DEF n
<1>2. <<0, d>> \in Reached
  <2>1. Settles(0, d)
    <3>1. \A j \in kept : ~ (j <= 0)
      BY <1>1
    <3>2. QED
      BY <3>1
  <2>2. d \in SUBSET kept /\ 0 \in 0 .. n
    BY <1>1 DEF Sound
  <2> HIDE DEF Settles
  <2>3. QED
    BY <2>1, <2>2
<1>3. ASSUME NEW k \in 0 .. n - 1, NEW a, <<k, a>> \in Reached
      PROVE  <<k + 1, InnerRound(ls, kept, a, i, k + 1)>> \in Reached
  <2>1. Settles(k, a)
    <3> HIDE DEF Settles
    <3> QED BY <1>3
  <2> DEFINE b == InnerRound(ls, kept, a, i, k + 1)
  <2>2. /\ Sound(ls, kept, b) /\ a \subseteq b
        /\ i < k + 1 /\ k + 1 \in kept => Agreed(ls, b, i, k + 1)
    <3>1. CASE i < k + 1 /\ k + 1 \in kept
      <4>1. i # k + 1 /\ b = Meet(ls, a, i, k + 1)
        BY <1>1, <3>1 DEF InnerRound
      <4>2. Sound(ls, kept, a) /\ k + 1 \in kept
        BY <2>1, <3>1
      <4>3. /\ Sound(ls, kept, Meet(ls, a, i, k + 1))
            /\ a \subseteq Meet(ls, a, i, k + 1)
            /\ Agreed(ls, Meet(ls, a, i, k + 1), i, k + 1)
        BY <4>1, <4>2, MeetingSettles
      <4>4. QED
        BY <4>1, <4>3
    <3>2. CASE ~ (i < k + 1 /\ k + 1 \in kept)
      <4>1. b = a
        BY <3>2 DEF InnerRound
      <4>2. QED
        BY <2>1, <3>2, <4>1
    <3>3. QED
      BY <3>1, <3>2
  <2> HIDE DEF b
  <2>3. \A j \in kept : i < j /\ j <= k + 1 => Agreed(ls, b, i, j)
    <3>1. \A j \in kept : j <= k + 1 => j <= k \/ j = k + 1
      BY <1>1
    <3>2. \A j \in kept : Agreed(ls, a, i, j) => Agreed(ls, b, i, j)
      BY <2>2 DEF Agreed
    <3>3. QED
      BY <2>1, <2>2, <3>1, <3>2
  <2>4. Settles(k + 1, b)
    BY <2>1, <2>2, <2>3
  <2>5. k + 1 \in 0 .. n /\ b \in SUBSET kept
    BY <1>1, <2>2 DEF Sound
  <2> HIDE DEF Settles
  <2>6. <<k + 1, b>> \in Reached
    BY <2>4, <2>5
  <2>7. QED
    BY <2>6 DEF b
<1> HIDE DEF Reached
<1>4. <<n, MeetLater(ls, kept, d, i)>> \in Reached
  BY <1>1, <1>2, <1>3, MeetLaterKeeps DEF n
<1>5. Settles(n, MeetLater(ls, kept, d, i))
  <2> HIDE DEF Settles
  <2> QED BY <1>4 DEF Reached
<1>6. \A j \in kept : j <= n
  BY <1>1
<1>7. QED
  BY <1>5, <1>6

\* The outer loop: all agree.
LEMMA OuterLoop ==
  ASSUME NEW ls \in Seq(Line), NEW kept \in SUBSET DOMAIN ls
  PROVE  LET e == Contradicted(ls, kept)
         IN /\ Sound(ls, kept, e)
            /\ \A i, j \in kept : i < j => Agreed(ls, e, i, j)
<1> DEFINE n == Len(ls)
           Settles(k, e) ==
             /\ Sound(ls, kept, e)
             /\ \A i, j \in kept : i <= k /\ i < j => Agreed(ls, e, i, j)
           Reached == {p \in (0 .. n) \X SUBSET kept : Settles(p[1], p[2])}
<1>1. n \in Nat /\ DOMAIN ls = 1 .. n /\ kept \subseteq 1 .. n
  BY LenProperties
<1> HIDE DEF n
<1>2. <<0, {}>> \in Reached
  <2>1. Settles(0, {})
    <3>1. \A i \in kept : ~ (i <= 0)
      BY <1>1
    <3>2. Sound(ls, kept, {})
      BY DEF Sound, Justified
    <3>3. QED
      BY <3>1, <3>2
  <2>2. {} \in SUBSET kept /\ 0 \in 0 .. n
    BY <1>1
  <2> HIDE DEF Settles
  <2>3. QED
    BY <2>1, <2>2
<1>3. ASSUME NEW k \in 0 .. n - 1, NEW a, <<k, a>> \in Reached
      PROVE  <<k + 1, OuterRound(ls, kept, a, k + 1)>> \in Reached
  <2>1. Settles(k, a)
    <3> HIDE DEF Settles
    <3> QED BY <1>3
  <2> DEFINE b == OuterRound(ls, kept, a, k + 1)
  <2>2. /\ Sound(ls, kept, b) /\ a \subseteq b
        /\ k + 1 \in kept => \A j \in kept : k + 1 < j => Agreed(ls, b, k + 1, j)
    <3>1. CASE k + 1 \in kept
      <4>1. b = MeetLater(ls, kept, a, k + 1)
        BY <3>1 DEF OuterRound
      <4>2. Sound(ls, kept, a)
        BY <2>1
      <4> DEFINE e == MeetLater(ls, kept, a, k + 1)
      <4>3. /\ Sound(ls, kept, e) /\ a \subseteq e
            /\ \A j \in kept : k + 1 < j => Agreed(ls, e, k + 1, j)
        BY <3>1, <4>2, InnerLoop
      <4> HIDE DEF e
      <4>4. b = e
        BY <4>1 DEF e
      <4>5. QED
        BY <4>3, <4>4
    <3>2. CASE k + 1 \notin kept
      <4>1. b = a
        BY <3>2 DEF OuterRound
      <4>2. QED
        BY <2>1, <3>2, <4>1
    <3>3. QED
      BY <3>1, <3>2
  <2> HIDE DEF b
  <2>3. \A i, j \in kept : i <= k + 1 /\ i < j => Agreed(ls, b, i, j)
    <3>1. \A i \in kept : i <= k + 1 => i <= k \/ i = k + 1
      BY <1>1
    <3>2. \A i, j \in kept : Agreed(ls, a, i, j) => Agreed(ls, b, i, j)
      BY <2>2 DEF Agreed
    <3>3. QED
      BY <2>1, <2>2, <3>1, <3>2
  <2>4. Settles(k + 1, b)
    BY <2>2, <2>3
  <2>5. k + 1 \in 0 .. n /\ b \in SUBSET kept
    BY <1>1, <2>2 DEF Sound
  <2> HIDE DEF Settles
  <2>6. <<k + 1, b>> \in Reached
    BY <2>4, <2>5
  <2>7. QED
    BY <2>6 DEF b
<1> HIDE DEF Reached
<1>4. <<n, Contradicted(ls, kept)>> \in Reached
  BY <1>1, <1>2, <1>3, ContradictedKeeps DEF n
<1>5. Settles(n, Contradicted(ls, kept))
  <2> HIDE DEF Settles
  <2> QED BY <1>4 DEF Reached
<1>6. \A j \in kept : j <= n
  BY <1>1
<1>7. QED
  BY <1>5, <1>6

\* The screen is given lines of position.
Received == lops \in Seq(Line)

LEMMA LinesReceived == ScreenSpec => []Received
<1>1. ScreenInit => Received
  BY DEF ScreenInit, Received
<1>2. Received /\ [ScreenNext]_lops => Received'
  <2> SUFFICES ASSUME lops \in Seq(Line),
                      NEW az \in Azimuths, NEW p \in Intercepts, NEW s \in Sigmas,
                      Receive(az, p, s)
               PROVE  lops' \in Seq(Line)
    BY DEF ScreenNext, Received
  <2>1. [azimuth |-> az, intercept |-> p, sigma |-> s] \in Line
    BY ScreenConstants DEF Line
  <2>2. QED
    BY <2>1, AppendProperties DEF Receive
<1>3. QED
  BY <1>1, <1>2, PTL DEF ScreenSpec

\* However many lines the solver is given, no two of them look the same way and
\* disagree about which way the body lies (screen.rs: screen_sights).
THEOREM KeptLinesAgree == ScreenSpec => []NoContradictionKept
<1>1. Received => NoContradictionKept
  <2> SUFFICES ASSUME lops \in Seq(Line), NEW i \in Kept(lops), NEW j \in Kept(lops)
               PROVE  ~ Contradict(lops[i], lops[j])
    BY DEF NoContradictionKept, Received
  <2> DEFINE kept == Plausible(lops)
             e == Contradicted(lops, kept)
  <2>1. kept \subseteq DOMAIN lops
    BY DEF Plausible
  <2>2. i \in kept \ e /\ j \in kept \ e
    BY DEF Kept, Consistent
  <2> HIDE DEF kept, e
  <2>3. \A a, b \in kept : a < b => Agreed(lops, e, a, b)
    BY <2>1, OuterLoop DEF e
  <2>4. /\ i \in Int /\ j \in Int
        /\ lops[i].azimuth \in Int /\ lops[j].azimuth \in Int
    <3>1. DOMAIN lops = 1 .. Len(lops) /\ Len(lops) \in Nat
      BY LenProperties
    <3>2. lops[i] \in Line /\ lops[j] \in Line
      BY <2>1, <2>2, <3>1, ElementOfSeq
    <3>3. QED
      BY <2>1, <2>2, <3>1, <3>2 DEF Line
  <2>5. Contradict(lops[i], lops[j]) => Contradict(lops[j], lops[i])
    BY <2>4, DeltaIsSymmetric DEF Contradict
  <2>6. CASE i = j
    BY <2>6 DEF Contradict
  <2>7. CASE i < j
    BY <2>2, <2>3, <2>7 DEF Agreed
  <2>8. CASE j < i
    BY <2>2, <2>3, <2>5, <2>8 DEF Agreed
  <2>9. QED
    BY <2>4, <2>6, <2>7, <2>8
<1>2. QED
  BY <1>1, LinesReceived, PTL

\* A line nearer than all others of its direction is never dropped for
\* contradicting one of them (screen.rs: screen_sights, its second pass).
THEOREM TheNearestLineSurvives == ScreenSpec => []NearestSurvivesContradiction
<1>1. Received => NearestSurvivesContradiction
  <2> DEFINE kept == Plausible(lops)
             e == Contradicted(lops, kept)
  <2> SUFFICES ASSUME lops \in Seq(Line), NEW i \in kept,
                      \A j \in kept \ {i} :
                        CircularDelta(lops[i].azimuth, lops[j].azimuth) <= SameLookDirection
                          => Abs(lops[i].intercept) < Abs(lops[j].intercept)
               PROVE  i \in Consistent(lops)
    BY DEF NearestSurvivesContradiction, Received
  <2>1. kept \subseteq DOMAIN lops
    BY DEF Plausible
  <2> HIDE DEF kept, e
  <2>2. Justified(lops, kept, e)
    BY <2>1, OuterLoop DEF e, Sound
  <2>3. ASSUME NEW y \in kept
        PROVE  Abs(lops[y].intercept) \in Int
    <3>1. DOMAIN lops = 1 .. Len(lops) /\ Len(lops) \in Nat
      BY LenProperties
    <3>2. lops[y] \in Line
      BY <2>1, <3>1, ElementOfSeq
    <3>3. QED
      BY <3>2 DEF Line, Abs
  <2>4. i \notin e
    <3> SUFFICES ASSUME i \in e PROVE FALSE
      OBVIOUS
    <3>1. PICK y \in kept :
            /\ y # i
            /\ CircularDelta(lops[i].azimuth, lops[y].azimuth) <= SameLookDirection
            /\ Abs(lops[y].intercept) <= Abs(lops[i].intercept)
      BY <2>2 DEF Justified
    <3>2. Abs(lops[i].intercept) < Abs(lops[y].intercept)
      BY <3>1
    <3>3. QED
      BY <2>3, <3>1, <3>2
  <2>5. QED
    BY <2>4 DEF Consistent, kept, e
<1>2. QED
  BY <1>1, LinesReceived, PTL

-----------------------------------------------------------------------------
(* Fusion.                                                                 *)

\* What every entry preserves holds of the cluster.
LEMMA ClusterKeeps ==
  ASSUME NEW hs, Len(ClusterOrder(hs)) \in Nat, NEW Reached,
         <<0, {}>> \in Reached,
         \A k \in 0 .. Len(ClusterOrder(hs)) - 1 : \A c :
           <<k, c>> \in Reached
             => <<k + 1, Join(hs, c, ClusterOrder(hs)[k + 1])>> \in Reached
  PROVE  <<Len(ClusterOrder(hs)), Cluster(hs)>> \in Reached
<1> DEFINE order == ClusterOrder(hs)
           n == Len(order)
           Loops(f) == f = [k \in 0 .. n |-> IF k = 0 THEN {}
                                             ELSE Join(hs, f[k - 1], order[k])]
           step == [p \in Reached |-> Join(hs, p[2], order[p[1] + 1])]
<1>1. \A k \in 0 .. n - 1 : \A a :
        <<k, a>> \in Reached => /\ step[<<k, a>>] = Join(hs, a, order[k + 1])
                                /\ <<k + 1, step[<<k, a>>]>> \in Reached
  OBVIOUS
<1>2. PICK f : /\ \A k \in 0 .. n : f[k] = IF k = 0 THEN {}
                                             ELSE step[<<k - 1, f[k - 1]>>]
               /\ \A k \in 0 .. n : <<k, f[k]>> \in Reached
  <2>1. n \in Nat
    OBVIOUS
  <2> HIDE DEF step, n
  <2>2. StaysIn(Reached, step, n)
    BY <1>1 DEF StaysIn
  <2>3. RunsIn(Reached, step, n, {})
    BY <2>1, <2>2, LoopExists
  <2>4. QED
    BY <2>3 DEF RunsIn
<1>3. \E g : Loops(g)
  <2>1. \A k \in 0 .. n : k # 0 => step[<<k - 1, f[k - 1]>>] = Join(hs, f[k - 1], order[k])
    <3> SUFFICES ASSUME NEW k \in 0 .. n, k # 0
                 PROVE  step[<<k - 1, f[k - 1]>>] = Join(hs, f[k - 1], order[k])
      OBVIOUS
    <3>1. k - 1 \in 0 .. n - 1 /\ k - 1 \in 0 .. n /\ (k - 1) + 1 = k
      OBVIOUS
    <3>2. <<k - 1, f[k - 1]>> \in Reached
      BY <1>2, <3>1
    <3> HIDE DEF step
    <3>3. step[<<k - 1, f[k - 1]>>] = Join(hs, f[k - 1], order[(k - 1) + 1])
      BY <1>1, <3>1, <3>2
    <3>4. QED
      BY <3>1, <3>3
  <2> HIDE DEF step
  <2> DEFINE h == [k \in 0 .. n |-> f[k]]
  <2>2. \A k \in 0 .. n : k # 0 => k - 1 \in 0 .. n
    OBVIOUS
  <2>3. Loops(h)
    BY <1>2, <2>1, <2>2
  <2>4. QED
    BY <2>3
<1> DEFINE g == CHOOSE h : Loops(h)
<1>4. Loops(g)
  BY <1>3
<1>5. Cluster(hs) = g[n]
  BY DEF Cluster
<1>6. \A k \in 0 .. n : g[k] = IF k = 0 THEN {} ELSE Join(hs, g[k - 1], order[k])
  <2> HIDE DEF g
  <2> QED BY <1>4
<1> HIDE DEF g
<1> DEFINE S == {k \in 0 .. n : <<k, g[k]>> \in Reached}
<1>7. 0 \in S
  <2>1. 0 \in 0 .. n
    OBVIOUS
  <2>2. QED
    BY <1>6, <2>1
<1>8. ASSUME NEW k \in 0 .. n - 1, k \in S
      PROVE  k + 1 \in S
  <2>1. k + 1 \in 0 .. n /\ k + 1 # 0 /\ (k + 1) - 1 = k
    OBVIOUS
  <2>2. g[k + 1] = Join(hs, g[k], order[k + 1])
    BY <1>6, <2>1
  <2>3. QED
    BY <1>8, <2>1, <2>2
<1>9. n \in S
  <2> HIDE DEF S
  <2> QED BY <1>7, <1>8, AfterEveryRound
<1>10. QED
  BY <1>5, <1>9

\* What the n-th hypothesis makes of the mean m.
MeanRound(hs, cluster, m, n) == IF n \in cluster THEN Weighed(m, hs[n]) ELSE m

\* The same of the mean.
LEMMA MeanKeeps ==
  ASSUME NEW hs, Len(hs) \in Nat, NEW cluster, NEW Reached,
         <<0, [n |-> 0, d |-> 1, w |-> 0]>> \in Reached,
         \A k \in 0 .. Len(hs) - 1 : \A m :
           <<k, m>> \in Reached => <<k + 1, MeanRound(hs, cluster, m, k + 1)>> \in Reached
  PROVE  <<Len(hs), Mean(hs, cluster)>> \in Reached
<1> DEFINE start == [n |-> 0, d |-> 1, w |-> 0]
           n == Len(hs)
           Loops(f) == f = [k \in 0 .. n |-> IF k = 0 THEN start
                                             ELSE IF k \in cluster THEN Weighed(f[k - 1], hs[k]) ELSE f[k - 1]]
           step == [p \in Reached |-> MeanRound(hs, cluster, p[2], p[1] + 1)]
<1>1. \A k \in 0 .. n - 1 : \A a :
        <<k, a>> \in Reached => /\ step[<<k, a>>] = MeanRound(hs, cluster, a, k + 1)
                                /\ <<k + 1, step[<<k, a>>]>> \in Reached
  OBVIOUS
<1>2. PICK f : /\ \A k \in 0 .. n : f[k] = IF k = 0 THEN start
                                             ELSE step[<<k - 1, f[k - 1]>>]
               /\ \A k \in 0 .. n : <<k, f[k]>> \in Reached
  <2>1. n \in Nat
    OBVIOUS
  <2> HIDE DEF step, n
  <2>2. StaysIn(Reached, step, n)
    BY <1>1 DEF StaysIn
  <2>3. RunsIn(Reached, step, n, start)
    BY <2>1, <2>2, LoopExists
  <2>4. QED
    BY <2>3 DEF RunsIn
<1>3. \E g : Loops(g)
  <2>1. \A k \in 0 .. n : k # 0 => step[<<k - 1, f[k - 1]>>] = MeanRound(hs, cluster, f[k - 1], k)
    <3> SUFFICES ASSUME NEW k \in 0 .. n, k # 0
                 PROVE  step[<<k - 1, f[k - 1]>>] = MeanRound(hs, cluster, f[k - 1], k)
      OBVIOUS
    <3>1. k - 1 \in 0 .. n - 1 /\ k - 1 \in 0 .. n /\ (k - 1) + 1 = k
      OBVIOUS
    <3>2. <<k - 1, f[k - 1]>> \in Reached
      BY <1>2, <3>1
    <3> HIDE DEF step
    <3>3. step[<<k - 1, f[k - 1]>>] = MeanRound(hs, cluster, f[k - 1], (k - 1) + 1)
      BY <1>1, <3>1, <3>2
    <3>4. QED
      BY <3>1, <3>3
  <2> HIDE DEF step
  <2> DEFINE h == [k \in 0 .. n |-> f[k]]
  <2>2. \A k \in 0 .. n : k # 0 => k - 1 \in 0 .. n
    OBVIOUS
  <2>3. Loops(h)
    BY <1>2, <2>1, <2>2 DEF MeanRound
  <2>4. QED
    BY <2>3
<1> DEFINE g == CHOOSE h : Loops(h)
<1>4. Loops(g)
  BY <1>3
<1>5. Mean(hs, cluster) = g[n]
  BY DEF Mean
<1>6. \A k \in 0 .. n : g[k] = IF k = 0 THEN start ELSE MeanRound(hs, cluster, g[k - 1], k)
  <2> HIDE DEF g
  <2> QED BY <1>4 DEF MeanRound
<1> HIDE DEF g
<1> DEFINE S == {k \in 0 .. n : <<k, g[k]>> \in Reached}
<1>7. 0 \in S
  <2>1. 0 \in 0 .. n
    OBVIOUS
  <2>2. QED
    BY <1>6, <2>1
<1>8. ASSUME NEW k \in 0 .. n - 1, k \in S
      PROVE  k + 1 \in S
  <2>1. k + 1 \in 0 .. n /\ k + 1 # 0 /\ (k + 1) - 1 = k
    OBVIOUS
  <2>2. g[k + 1] = MeanRound(hs, cluster, g[k], k + 1)
    BY <1>6, <2>1
  <2>3. QED
    BY <1>8, <2>1, <2>2
<1>9. n \in S
  <2> HIDE DEF S
  <2> QED BY <1>7, <1>8, AfterEveryRound
<1>10. QED
  BY <1>5, <1>9

\* A hypothesis about the horizon, a provider's or a fused one.
Hypothesis == [by : SUBSET Enabled, angle : Int \X Int, precision : Nat,
               lifts : BOOLEAN, direct : BOOLEAN]

LEMMA CappedIsBounded ==
  ASSUME NEW p \in Nat
  PROVE  /\ Capped(p) \in Nat /\ Capped(p) <= MaxPrecision /\ Capped(p) <= p
         /\ \A q \in Nat : q <= p => Capped(q) <= Capped(p)
         /\ \A q \in Nat : q <= p /\ q <= MaxPrecision => q <= Capped(p)
BY PipelineConstants DEF Capped

LEMMA HypothesesOf ==
  ASSUME NEW hs \in Seq(Hypothesis)
  PROVE  /\ Len(hs) \in Nat /\ DOMAIN hs = 1 .. Len(hs)
         /\ \A i \in DOMAIN hs : /\ hs[i] \in Hypothesis
                                 /\ hs[i].precision \in Nat
                                 /\ Capped(hs[i].precision) \in Nat
         /\ IsFiniteSet(Lifting(hs)) /\ Lifting(hs) \subseteq DOMAIN hs
<1>1. Len(hs) \in Nat /\ DOMAIN hs = 1 .. Len(hs)
  BY LenProperties
<1>2. \A i \in DOMAIN hs : hs[i] \in Hypothesis
  BY <1>1, ElementOfSeq
<1>3. \A i \in DOMAIN hs : hs[i].precision \in Nat
  BY <1>2 DEF Hypothesis
<1>4. \A i \in DOMAIN hs : Capped(hs[i].precision) \in Nat
  BY <1>3, CappedIsBounded
<1>5. IsFiniteSet(1 .. Len(hs))
  BY <1>1, FS_Interval
<1>6. Lifting(hs) \subseteq DOMAIN hs
  BY DEF Lifting
<1>7. IsFiniteSet(Lifting(hs))
  BY <1>1, <1>5, <1>6, FS_Subset
<1>8. QED
  BY <1>1, <1>2, <1>3, <1>4, <1>6, <1>7

\* lowest_sigma_index finds one, and none is more precise.
LEMMA LowestIsSharpest ==
  ASSUME NEW hs \in Seq(Hypothesis), hs # <<>>
  PROVE  /\ Lowest(hs) \in DOMAIN hs
         /\ \A j \in DOMAIN hs : hs[j].precision <= hs[Lowest(hs)].precision
<1>1. /\ Len(hs) \in Nat /\ DOMAIN hs = 1 .. Len(hs) /\ 1 \in DOMAIN hs
      /\ \A i \in DOMAIN hs : hs[i].precision \in Nat
  <2>1. Len(hs) # 0
    BY EmptySeq
  <2>2. QED
    BY <2>1, HypothesesOf
<1> DEFINE values == {hs[i].precision : i \in DOMAIN hs}
<1>2. PICK top \in values : \A v \in values : v <= top
  <2>1. IsFiniteSet(DOMAIN hs)
    BY <1>1, FS_Interval
  <2> DEFINE f == [i \in DOMAIN hs |-> hs[i].precision]
  <2>2. f \in Surjection(DOMAIN hs, values)
    BY DEF Surjection
  <2> HIDE DEF f
  <2>3. IsFiniteSet(values)
    BY <2>1, <2>2, FS_Surjection
  <2>4. values \in SUBSET Int /\ values # {}
    BY <1>1
  <2> HIDE DEF values
  <2>5. QED
    BY <2>3, <2>4, GreatestOfFinite
<1> DEFINE best_at == {i \in DOMAIN hs : hs[i].precision = top}
<1>3. PICK i \in best_at : \A j \in best_at : i <= j
  <2>1. best_at \in SUBSET Nat /\ best_at # {}
    BY <1>1
  <2> HIDE DEF best_at
  <2>2. QED
    BY <2>1, LeastOfNaturals
<1> DEFINE First(k) == \A j \in DOMAIN hs :
             \/ hs[j].precision < hs[k].precision
             \/ hs[j].precision = hs[k].precision /\ k <= j
<1>4. i \in DOMAIN hs /\ First(i)
  <2>1. i \in DOMAIN hs /\ hs[i].precision = top
    BY <1>3
  <2>2. \A j \in DOMAIN hs : hs[j].precision <= top
    BY <1>2
  <2>3. \A j \in DOMAIN hs : hs[j].precision = top => i <= j
    BY <1>3
  <2>4. QED
    BY <1>1, <2>1, <2>2, <2>3
<1> DEFINE l == CHOOSE k \in DOMAIN hs : First(k)
<1>5. l \in DOMAIN hs /\ First(l)
  BY <1>4
<1>6. Lowest(hs) = l
  BY DEF Lowest
<1> HIDE DEF l
<1>7. QED
  BY <1>1, <1>5, <1>6

\* The cluster is seeded with the most precise of those that lift.
LEMMA ClusterOrderIsSorted ==
  ASSUME NEW hs \in Seq(Hypothesis)
  PROVE  /\ Len(ClusterOrder(hs)) \in Nat
         /\ \A n \in 1 .. Len(ClusterOrder(hs)) : ClusterOrder(hs)[n] \in Lifting(hs)
         /\ \A i \in Lifting(hs) :
              /\ Len(ClusterOrder(hs)) >= 1
              /\ Capped(hs[i].precision) <= Capped(hs[ClusterOrder(hs)[1]].precision)
<1> DEFINE L == Lifting(hs)
           c == [i \in L |-> Capped(hs[i].precision)]
           before == [i \in L |-> {j \in L : Sharper(hs, j, i)}]
           order == ClusterOrder(hs)
           size == Cardinality(L)
<1>1. IsFiniteSet(L) /\ L \subseteq Int /\ c \in [L -> Nat]
  BY HypothesesOf
<1>2. order = Listed(before)
  BY DEF ClusterOrder
<1>3. \A i, j \in L : j \in before[i] <=> c[j] > c[i] \/ (c[j] = c[i] /\ j < i)
  BY DEF Sharper
<1>4. Orders(before, L)
  <2>1. before \in [L -> SUBSET L]
    OBVIOUS
  <2> HIDE DEF before, c, L
  <2>2. QED
    BY <1>1, <1>3, <2>1 DEF Orders
<1> HIDE DEF before, order, L
<1>5. /\ size \in Nat /\ order \in [1 .. size -> L]
      /\ \A x \in L : \E n \in 1 .. size : order[n] = x
      /\ \A m, n \in 1 .. size : m < n => order[m] \in before[order[n]]
  BY <1>1, <1>2, <1>4, ListedIsInOrder
<1>6. Len(order) = size
  <2>1. order \in Seq(L)
    BY <1>5, IsASeq
  <2>2. QED
    BY <1>5, <2>1, LenProperties
<1>7. ASSUME NEW i \in L
      PROVE  size >= 1 /\ c[i] <= c[order[1]]
  <2>1. PICK n \in 1 .. size : order[n] = i
    BY <1>5
  <2>2. 1 \in 1 .. size /\ order[1] \in L /\ size >= 1
    BY <1>5
  <2>3. n # 1 => order[1] \in before[i]
    BY <1>5, <2>1, <2>2
  <2>4. c[i] \in Nat /\ c[order[1]] \in Nat
    BY <1>1, <2>2
  <2>5. n # 1 => c[order[1]] > c[i] \/ (c[order[1]] = c[i] /\ order[1] < i)
    BY <1>3, <2>2, <2>3
  <2> HIDE DEF c
  <2>6. CASE n = 1
    BY <2>1, <2>2, <2>4, <2>6
  <2>7. CASE n # 1
    BY <2>2, <2>4, <2>5, <2>7
  <2>8. QED
    BY <2>6, <2>7
<1>8. \A i \in L : size >= 1 /\ Capped(hs[i].precision) <= Capped(hs[order[1]].precision)
  <2>1. \A i \in L : 1 \in 1 .. size /\ order[1] \in L
    BY <1>5, <1>7
  <2>2. QED
    BY <1>7, <2>1
<1>9. QED
  BY <1>5, <1>6, <1>8 DEF order, L

LEMMA ClusterHasTheSharpest ==
  ASSUME NEW hs \in Seq(Hypothesis)
  PROVE  /\ Cluster(hs) \subseteq Lifting(hs)
         /\ Lifting(hs) # {} => ClusterOrder(hs)[1] \in Cluster(hs)
<1> DEFINE L == Lifting(hs)
           order == ClusterOrder(hs)
           n == Len(order)
           Seeded(k, c) == /\ k = 0 => c = {}
                           /\ k # 0 => order[1] \in c
           Reached == {p \in (0 .. n) \X SUBSET L : Seeded(p[1], p[2])}
<1>1. /\ n \in Nat /\ \A k \in 1 .. n : order[k] \in L
      /\ L # {} => n >= 1
  BY ClusterOrderIsSorted
<1> HIDE DEF n, L
<1>2. <<0, {}>> \in Reached
  BY <1>1
<1>3. ASSUME NEW k \in 0 .. n - 1, NEW c, <<k, c>> \in Reached
      PROVE  <<k + 1, Join(hs, c, order[k + 1])>> \in Reached
  <2> DEFINE d == Join(hs, c, order[k + 1])
  <2>1. c \in SUBSET L /\ Seeded(k, c)
    BY <1>3
  <2>2. k + 1 \in 0 .. n /\ k + 1 \in 1 .. n /\ k + 1 # 0
    BY <1>1
  <2>3. d \in SUBSET L /\ c \subseteq d
    <3> HIDE DEF order
    <3> QED BY <1>1, <2>1, <2>2 DEF Join
  <2>4. order[1] \in d
    <3>1. CASE k = 0
      <4>1. c = {}
        BY <2>1, <3>1
      <4>2. d = {order[k + 1]} /\ k + 1 = 1
        BY <3>1, <4>1 DEF Join
      <4>3. QED
        BY <4>2
    <3>2. CASE k # 0
      BY <2>1, <2>3, <3>2
    <3>3. QED
      BY <3>1, <3>2
  <2> HIDE DEF d
  <2>5. <<k + 1, d>> \in Reached
    BY <2>2, <2>3, <2>4
  <2>6. QED
    BY <2>5 DEF d
<1> HIDE DEF Reached
<1>4. <<n, Cluster(hs)>> \in Reached
  BY <1>1, <1>2, <1>3, ClusterKeeps DEF n
<1>5. Cluster(hs) \in SUBSET L /\ Seeded(n, Cluster(hs))
  BY <1>4 DEF Reached
<1>6. QED
  BY <1>1, <1>5 DEF L

MeanType == [n : Int, d : Int, w : Nat]

\* The mean weighs at least as much as each that goes into it.
LEMMA MeanIsHeavy ==
  ASSUME NEW hs \in Seq(Hypothesis), NEW cluster \in SUBSET DOMAIN hs
  PROVE  /\ Mean(hs, cluster) \in MeanType
         /\ \A i \in cluster : Capped(hs[i].precision) <= Mean(hs, cluster).w
<1> DEFINE n == Len(hs)
           Heavy(k, m) == \A i \in cluster : i <= k => Capped(hs[i].precision) <= m.w
           Reached == {p \in (0 .. n) \X MeanType : Heavy(p[1], p[2])}
<1>1. /\ n \in Nat /\ DOMAIN hs = 1 .. n
      /\ \A i \in DOMAIN hs : hs[i] \in Hypothesis /\ Capped(hs[i].precision) \in Nat
  BY HypothesesOf
<1> HIDE DEF n
<1>2. <<0, [n |-> 0, d |-> 1, w |-> 0]>> \in Reached
  <2>1. [n |-> 0, d |-> 1, w |-> 0] \in MeanType
    BY DEF MeanType
  <2>2. \A i \in cluster : ~ (i <= 0)
    BY <1>1
  <2>3. QED
    BY <1>1, <2>1, <2>2
<1>3. ASSUME NEW k \in 0 .. n - 1, NEW m, <<k, m>> \in Reached
      PROVE  <<k + 1, MeanRound(hs, cluster, m, k + 1)>> \in Reached
  <2> DEFINE r == MeanRound(hs, cluster, m, k + 1)
  <2>1. m \in MeanType /\ Heavy(k, m)
    BY <1>3
  <2>2. k + 1 \in 0 .. n /\ k + 1 \in DOMAIN hs
    BY <1>1
  <2>3. CASE k + 1 \in cluster
    <3> DEFINE h == hs[k + 1]
               w == Capped(h.precision)
    <3>1. r = Weighed(m, h)
      BY <2>3 DEF MeanRound
    <3>2. /\ m.n \in Int /\ m.d \in Int /\ m.w \in Nat /\ w \in Nat
          /\ h.angle[1] \in Int /\ h.angle[2] \in Int
      BY <1>1, <2>1, <2>2 DEF MeanType, Hypothesis
    <3> HIDE DEF h
    <3>3. r = [n |-> m.n * h.angle[2] * m.w + h.angle[1] * m.d * w,
               d |-> m.d * h.angle[2] * (m.w + w),
               w |-> m.w + w]
      BY <3>1 DEF Weighed
    <3> HIDE DEF w, r
    <3>4. r \in MeanType /\ r.w = m.w + w
      <4> DEFINE a == m.n * h.angle[2] * m.w + h.angle[1] * m.d * w
                 b == m.d * h.angle[2] * (m.w + w)
      <4>1. m.w + w \in Nat
        BY <3>2
      <4>2. m.n * h.angle[2] \in Int /\ h.angle[1] * m.d \in Int /\ m.d * h.angle[2] \in Int
        BY <3>2
      <4>3. a \in Int /\ b \in Int
        BY <3>2, <4>1, <4>2
      <4>4. r = [n |-> a, d |-> b, w |-> m.w + w]
        BY <3>3
      <4> HIDE DEF a, b
      <4>5. QED
        BY <4>1, <4>3, <4>4 DEF MeanType
    <3>5. Heavy(k + 1, r)
      <4> SUFFICES ASSUME NEW i \in cluster, i <= k + 1
                   PROVE  Capped(hs[i].precision) <= r.w
        OBVIOUS
      <4>1. i \in Int /\ Capped(hs[i].precision) \in Nat
        BY <1>1
      <4>2. CASE i = k + 1
        <5>1. Capped(hs[i].precision) = w
          BY <4>2 DEF w, h
        <5>2. QED
          BY <3>2, <3>4, <5>1
      <4>3. CASE i <= k
        <5>1. Capped(hs[i].precision) <= m.w
          BY <2>1, <4>3
        <5>2. QED
          BY <3>2, <3>4, <4>1, <5>1
      <4>4. QED
        BY <4>1, <4>2, <4>3
    <3> HIDE DEF Heavy
    <3>6. <<k + 1, r>> \in Reached
      BY <2>2, <3>4, <3>5
    <3>7. QED
      BY <3>6 DEF r
  <2>4. CASE k + 1 \notin cluster
    <3>1. r = m
      BY <2>4 DEF MeanRound
    <3>2. \A i \in cluster : i <= k + 1 => i <= k
      BY <1>1, <2>4
    <3>3. Heavy(k + 1, m)
      BY <2>1, <3>2
    <3> HIDE DEF Heavy, r
    <3>4. <<k + 1, r>> \in Reached
      BY <2>1, <2>2, <3>1, <3>3
    <3>5. QED
      BY <3>4 DEF r
  <2>5. QED
    BY <2>3, <2>4
<1> HIDE DEF Reached
<1>4. <<n, Mean(hs, cluster)>> \in Reached
  BY <1>1, <1>2, <1>3, MeanKeeps DEF n
<1>5. Mean(hs, cluster) \in MeanType /\ Heavy(n, Mean(hs, cluster))
  <2> HIDE DEF Heavy
  <2> QED BY <1>4 DEF Reached
<1>6. \A i \in cluster : i <= n
  BY <1>1
<1>7. QED
  BY <1>5, <1>6

\* What fusion makes of hypotheses is a hypothesis, rests on theirs, and is as
\* precise as each that lifts; where it falls back to one, as all.
LEMMA FusionIsSound ==
  ASSUME NEW hs \in Seq(Hypothesis), hs # <<>>
  PROVE  /\ Fuse(hs) \in Hypothesis
         /\ \A p \in Fuse(hs).by : \E i \in DOMAIN hs : p \in hs[i].by
         /\ \A i \in Lifting(hs) : Capped(hs[i].precision) <= Fuse(hs).precision
         /\ Cardinality(Cluster(hs)) < 2
              => \A i \in DOMAIN hs : hs[i].precision <= Fuse(hs).precision
<1>1. /\ \A i \in DOMAIN hs : /\ hs[i] \in Hypothesis
                              /\ hs[i].precision \in Nat
                              /\ Capped(hs[i].precision) \in Nat
                              /\ Capped(hs[i].precision) <= hs[i].precision
                              /\ Capped(hs[i].precision) <= MaxPrecision
      /\ Lifting(hs) \subseteq DOMAIN hs
  BY HypothesesOf, CappedIsBounded
<1>2. CASE Cardinality(Cluster(hs)) < 2
  <2> DEFINE h == hs[Lowest(hs)]
  <2>1. Fuse(hs) = h
    BY <1>2 DEF Fuse
  <2>2. Lowest(hs) \in DOMAIN hs /\ \A j \in DOMAIN hs : hs[j].precision <= h.precision
    BY LowestIsSharpest
  <2>3. h \in Hypothesis /\ h.precision \in Nat
    BY <1>1, <2>2
  <2>4. \A p \in h.by : \E i \in DOMAIN hs : p \in hs[i].by
    BY <2>2
  <2> HIDE DEF h
  <2>5. \A i \in Lifting(hs) : Capped(hs[i].precision) <= h.precision
    BY <1>1, <2>2, <2>3
  <2>6. QED
    BY <2>1, <2>2, <2>3, <2>4, <2>5
<1>3. CASE ~ (Cardinality(Cluster(hs)) < 2)
  <2> DEFINE c == Cluster(hs)
             mean == Mean(hs, c)
             f == [by |-> UNION {hs[i].by : i \in c},
                   angle |-> <<mean.n, mean.d>>,
                   precision |-> Capped(mean.w),
                   lifts |-> TRUE,
                   direct |-> \E i \in c : hs[i].direct]
  <2>1. Fuse(hs) = f
    BY <1>3 DEF Fuse, Fused
  <2>2. c \subseteq Lifting(hs) /\ c \subseteq DOMAIN hs
        /\ (Lifting(hs) # {} => ClusterOrder(hs)[1] \in c)
    BY <1>1, ClusterHasTheSharpest
  <2> HIDE DEF c
  <2>3. /\ mean.n \in Int /\ mean.d \in Int /\ mean.w \in Nat
        /\ \A i \in c : Capped(hs[i].precision) <= mean.w
    BY <2>2, MeanIsHeavy DEF MeanType
  <2> HIDE DEF mean
  <2>4. Capped(mean.w) \in Nat
    BY <2>3, CappedIsBounded
  <2>5. UNION {hs[i].by : i \in c} \subseteq Enabled
    BY <1>1, <2>2 DEF Hypothesis
  <2>6. f \in Hypothesis
    BY <2>3, <2>4, <2>5 DEF Hypothesis
  <2>7. \A p \in f.by : \E i \in DOMAIN hs : p \in hs[i].by
    BY <2>2
  <2>8. ASSUME NEW i \in Lifting(hs)
        PROVE  Capped(hs[i].precision) <= f.precision
    <3> DEFINE s == ClusterOrder(hs)[1]
    <3>1. s \in c /\ Capped(hs[i].precision) <= Capped(hs[s].precision)
      BY <2>2, ClusterOrderIsSorted
    <3> HIDE DEF s
    <3>2. Capped(hs[s].precision) <= mean.w
      BY <2>3, <3>1
    <3>3. /\ Capped(hs[i].precision) \in Nat /\ Capped(hs[s].precision) \in Nat
          /\ Capped(hs[i].precision) <= MaxPrecision
      BY <1>1, <2>2, <3>1
    <3>4. Capped(hs[i].precision) <= mean.w
      BY <2>3, <3>1, <3>2, <3>3
    <3>5. Capped(hs[i].precision) <= Capped(mean.w)
      BY <2>3, <3>3, <3>4, CappedIsBounded
    <3>6. QED
      BY <3>5
  <2> HIDE DEF f
  <2>9. QED
    BY <1>3, <2>1, <2>6, <2>7, <2>8
<1>4. QED
  BY <1>2, <1>3

-----------------------------------------------------------------------------
(* The horizon from the first provider to the last, and in the second pass. *)

\* The provider was on, made for this light, and shown enough sky.
IsFit(provider) ==
  /\ provider \in Enabled
  /\ smoothed = "Day" => provider \notin ByNight
  /\ smoothed = "Night" => provider \notin ByDay
  /\ provider \in DOMAIN MinSky =>
       evidence.sky = NoSky \/ evidence.sky >= MinSky[provider]

Grounded(h) == \A provider \in h.by : IsFit(provider)

\* b is the best precision among the hypotheses that lift.
BestAmong(hs, b) ==
  b # 0 => \E i \in Lifting(hs) : Capped(hs[i].precision) = b

\* An outcome no less certain than b.
AsCertainAs(h, b) ==
  \/ h = NoHorizon /\ b = 0
  \/ h \in Hypothesis /\ b <= h.precision

PInv ==
  /\ best \in Nat /\ best <= MaxPrecision
  /\ stage = "horizon" =>
       /\ hyps \in Seq(Hypothesis)
       /\ \A i \in DOMAIN hyps : Grounded(hyps[i])
       /\ BestAmong(hyps, best)
       /\ turn \in 1 .. 8
  /\ Finished => Grounded(horizon) /\ AsCertainAs(horizon, best)

\* A provider that runs is fit, and what it sees is a hypothesis.
LEMMA WhatIsSeen ==
  ASSUME NEW line \in Lines, NEW provider, IsFit(provider)
  PROVE  Seen(line, provider) \in Hypothesis /\ Grounded(Seen(line, provider))
<1>1. line.angle \in Int /\ line.precision \in Nat /\ line.lifts \in BOOLEAN
  BY PipelineConstants
<1>2. provider \in Enabled
  BY DEF IsFit
<1>3. Seen(line, provider) \in Hypothesis
  BY <1>1, <1>2 DEF Seen, Hypothesis
<1>4. Seen(line, provider).by = {provider}
  BY DEF Seen
<1>5. QED
  BY <1>3, <1>4 DEF Grounded

LEMMA RunningIsFit ==
  ASSUME turn \in 1 .. 8, Runs(Providers[turn])
  PROVE  IsFit(Providers[turn])
<1>1. Providers[turn] \in ByDay => smoothed # "Night"
  BY DEF Runs
<1>2. Providers[turn] \in ByNight => smoothed # "Day"
  BY DEF Runs
<1>3. QED
  BY <1>1, <1>2 DEF Runs, IsFit, SkyGateAllows

\* What fusion publishes of the hypotheses.
LEMMA PublishedHorizon ==
  ASSUME NEW hs \in Seq(Hypothesis), NEW b \in Nat, BestAmong(hs, b),
         \A i \in DOMAIN hs : Grounded(hs[i])
  PROVE  Grounded(Fuse(hs)) /\ AsCertainAs(Fuse(hs), b)
<1>1. CASE hs = <<>>
  <2>1. Fuse(hs) = NoHorizon
    BY <1>1 DEF Fuse
  <2>2. Lifting(hs) = {}
    BY <1>1 DEF Lifting
  <2>3. QED
    BY <2>1, <2>2 DEF Grounded, AsCertainAs, BestAmong, NoHorizon
<1>2. CASE hs # <<>>
  <2>1. /\ Fuse(hs) \in Hypothesis
        /\ \A p \in Fuse(hs).by : \E i \in DOMAIN hs : p \in hs[i].by
        /\ \A i \in Lifting(hs) : Capped(hs[i].precision) <= Fuse(hs).precision
    BY <1>2, FusionIsSound
  <2>2. Grounded(Fuse(hs))
    BY <2>1 DEF Grounded
  <2>3. Fuse(hs).precision \in Nat
    BY <2>1 DEF Hypothesis
  <2>4. b <= Fuse(hs).precision
    BY <2>1, <2>3 DEF BestAmong
  <2>5. QED
    BY <2>1, <2>2, <2>4 DEF AsCertainAs
<1>3. QED
  BY <1>1, <1>2

LEMMA BestIsKept ==
  ASSUME best \in Nat, best <= MaxPrecision, NEW h \in Hypothesis
  PROVE  /\ BestWith(h) \in Nat /\ BestWith(h) <= MaxPrecision
         /\ \/ BestWith(h) = best
            \/ h.lifts /\ BestWith(h) = Capped(h.precision)
<1>1. h.precision \in Nat
  BY DEF Hypothesis
<1>2. Capped(h.precision) \in Nat /\ Capped(h.precision) <= MaxPrecision
  BY <1>1, CappedIsBounded
<1>3. QED
  BY <1>2 DEF BestWith

LEMMA OneMoreHypothesis ==
  ASSUME NEW hs \in Seq(Hypothesis), NEW h \in Hypothesis,
         best \in Nat, best <= MaxPrecision, BestAmong(hs, best),
         Grounded(h), \A i \in DOMAIN hs : Grounded(hs[i])
  PROVE  /\ Append(hs, h) \in Seq(Hypothesis)
         /\ \A i \in DOMAIN Append(hs, h) : Grounded(Append(hs, h)[i])
         /\ BestAmong(Append(hs, h), BestWith(h))
<1> DEFINE more == Append(hs, h)
           n == Len(hs)
<1>1. /\ n \in Nat /\ DOMAIN hs = 1 .. n
      /\ more \in Seq(Hypothesis) /\ DOMAIN more = 1 .. (n + 1)
      /\ \A i \in 1 .. n : more[i] = hs[i]
      /\ more[n + 1] = h
  BY AppendProperties, LenProperties
<1> HIDE DEF more, n
<1>2. \A i \in DOMAIN more : Grounded(more[i])
  <2> SUFFICES ASSUME NEW i \in DOMAIN more PROVE Grounded(more[i])
    OBVIOUS
  <2>1. CASE i = n + 1
    BY <1>1, <2>1
  <2>2. CASE i # n + 1
    <3>1. i \in 1 .. n
      BY <1>1, <2>2
    <3>2. QED
      BY <1>1, <3>1
  <2>3. QED
    BY <2>1, <2>2
<1>3. BestAmong(more, BestWith(h))
  <2>1. CASE BestWith(h) = best
    <3> SUFFICES ASSUME best # 0
                 PROVE  \E i \in Lifting(more) : Capped(more[i].precision) = best
      BY <2>1 DEF BestAmong
    <3>1. PICK i \in Lifting(hs) : Capped(hs[i].precision) = best
      BY DEF BestAmong
    <3>2. i \in 1 .. n /\ hs[i].lifts
      BY <1>1, <3>1 DEF Lifting
    <3>3. i \in DOMAIN more /\ more[i] = hs[i]
      BY <1>1, <3>2
    <3>4. i \in Lifting(more)
      BY <3>2, <3>3 DEF Lifting
    <3>5. QED
      BY <3>1, <3>3, <3>4
  <2>2. CASE h.lifts /\ BestWith(h) = Capped(h.precision)
    <3>1. n + 1 \in DOMAIN more
      BY <1>1
    <3>2. n + 1 \in Lifting(more)
      BY <1>1, <2>2, <3>1 DEF Lifting
    <3>3. QED
      BY <1>1, <2>2, <3>2 DEF BestAmong
  <2>3. QED
    BY <2>1, <2>2, BestIsKept
<1>4. QED
  BY <1>1, <1>2, <1>3 DEF more

\* The second pass cannot lose what the first one gained: the first horizon is
\* in the cluster's order with its precision up to the floor, or lifts to no
\* ray, and then the reflected pair is alone in the cluster and the sharper
\* of the two is taken as it is.
LEMMA SecondPass ==
  ASSUME NEW f \in Hypothesis, NEW h \in Hypothesis,
         best \in Nat, best <= MaxPrecision, best <= f.precision,
         Grounded(f), Grounded(h),
         NEW hs \in Seq(Hypothesis), Len(hs) = 2, hs[1] = f, hs[2] = h
  PROVE  /\ Grounded(Fuse(hs))
         /\ AsCertainAs(Fuse(hs), BestWith(h))
<1>1. hs # <<>> /\ DOMAIN hs = 1 .. 2
  BY LenProperties, EmptySeq
<1>2. /\ Fuse(hs) \in Hypothesis
      /\ \A p \in Fuse(hs).by : \E i \in DOMAIN hs : p \in hs[i].by
      /\ \A i \in Lifting(hs) : Capped(hs[i].precision) <= Fuse(hs).precision
      /\ Cardinality(Cluster(hs)) < 2
           => \A i \in DOMAIN hs : hs[i].precision <= Fuse(hs).precision
  BY <1>1, FusionIsSound
<1>3. \A i \in DOMAIN hs : i = 1 \/ i = 2
  BY <1>1
<1>4. Grounded(Fuse(hs))
  BY <1>1, <1>2, <1>3 DEF Grounded
<1>5. f.precision \in Nat /\ h.precision \in Nat /\ Fuse(hs).precision \in Nat
  BY <1>2 DEF Hypothesis
<1>6. BestWith(h) <= Fuse(hs).precision
  <2>1. CASE h.lifts /\ BestWith(h) = Capped(h.precision)
    <3>1. 2 \in Lifting(hs)
      BY <1>1, <2>1 DEF Lifting
    <3>2. QED
      BY <1>1, <1>2, <2>1, <3>1
  <2>2. CASE BestWith(h) = best /\ f.lifts
    <3>1. 1 \in Lifting(hs)
      BY <1>1, <2>2 DEF Lifting
    <3>2. Capped(f.precision) <= Fuse(hs).precision /\ Capped(f.precision) \in Nat
      BY <1>1, <1>2, <1>5, <3>1, CappedIsBounded
    <3>3. best <= Capped(f.precision)
      BY <1>5, CappedIsBounded
    <3>4. QED
      BY <1>5, <2>2, <3>2, <3>3
  <2>3. CASE BestWith(h) = best /\ ~ f.lifts
    <3>1. Lifting(hs) \subseteq {2}
      BY <1>1, <1>3, <2>3 DEF Lifting
    <3>2. Cluster(hs) \subseteq {2}
      BY <1>1, <3>1, ClusterHasTheSharpest
    <3>3. Cardinality(Cluster(hs)) < 2
      <4>1. CASE Cluster(hs) = {}
        BY <4>1, FS_EmptySet
      <4>2. CASE Cluster(hs) = {2}
        <5>1. Cardinality({2}) = 1
          BY FS_Singleton
        <5>2. QED
          BY <4>2, <5>1
      <4>3. QED
        BY <3>2, <4>1, <4>2
    <3>4. f.precision <= Fuse(hs).precision
      BY <1>1, <1>2, <3>3
    <3>5. QED
      BY <1>5, <2>3, <3>4
  <2>4. QED
    BY <2>1, <2>2, <2>3, BestIsKept
<1>7. QED
  BY <1>2, <1>4, <1>6 DEF AsCertainAs

\* The hypotheses and the outcome that follow one provider, whichever it was.
Searching(hs, b) ==
  /\ hs \in Seq(Hypothesis)
  /\ \A i \in DOMAIN hs : Grounded(hs[i])
  /\ BestAmong(hs, b)

\* A provider that leaves hypotheses behind which the search can go on with,
\* or finish on, keeps the invariant.
LEMMA GoingOn ==
  ASSUME NEW hs, NEW b \in Nat, b <= MaxPrecision, Searching(hs, b),
         stage = "horizon", turn \in 1 .. 8, best' = b,
         UNCHANGED <<vars, evidence>>,
         \/ horizon' = Fuse(hs) /\ stage' = "body"
         \/ hyps' = hs /\ turn' = turn + 1 /\ stage' = stage /\ turn # 8
  PROVE  PInv'
<1>1. UNCHANGED <<smoothed, evidence>>
  BY DEF vars
<1>2. \A h : Grounded(h) => \A p \in h.by : IsFit(p)'
  BY <1>1 DEF Grounded, IsFit, SkyGateAllows
<1>3. CASE horizon' = Fuse(hs) /\ stage' = "body"
  <2>1. Grounded(Fuse(hs)) /\ AsCertainAs(Fuse(hs), b)
    BY PublishedHorizon DEF Searching
  <2>2. Grounded(horizon)' /\ AsCertainAs(horizon, best)'
    BY <1>2, <1>3, <2>1 DEF Grounded, AsCertainAs
  <2>3. QED
    BY <1>3, <2>2 DEF PInv
<1>4. CASE hyps' = hs /\ turn' = turn + 1 /\ stage' = stage /\ turn # 8
  <2>1. \A i \in DOMAIN hyps' : Grounded(hyps[i])'
    BY <1>2, <1>4 DEF Searching, Grounded
  <2>2. BestAmong(hyps, best)'
    BY <1>4 DEF Searching, BestAmong
  <2>3. turn' \in 1 .. 8
    BY <1>4
  <2>4. ~ Finished'
    BY <1>4 DEF Finished
  <2>5. QED
    BY <1>4, <2>1, <2>2, <2>3, <2>4 DEF PInv, Searching
<1>5. QED
  BY <1>3, <1>4

\* A stage that leaves the horizon and the light alone keeps the invariant.
LEMMA OtherStages ==
  ASSUME PInv, UNCHANGED <<vars, evidence, horizon, best>>,
         stage' # "horizon", Finished' => Finished
  PROVE  PInv'
<1>1. UNCHANGED <<smoothed, evidence>>
  BY DEF vars
<1>2. Grounded(horizon) => Grounded(horizon)'
  BY <1>1 DEF Grounded, IsFit
<1>3. AsCertainAs(horizon, best) => AsCertainAs(horizon, best)'
  BY DEF AsCertainAs
<1>4. QED
  BY <1>2, <1>3 DEF PInv

LEMMA PipelineStep ==
  ASSUME PInv, [PNext]_pvars
  PROVE  PInv'
<1>1. ASSUME NEW image \in Condition, NEW band \in Bands \cup {NoBand},
             NEW sky \in SkyFractions \cup {NoSky}, Classify(image, band, sky)
      PROVE  PInv'
  <2>1. stage' = "horizon" /\ turn' = 1 /\ hyps' = <<>> /\ best' = 0
    BY <1>1 DEF Classify
  <2>2. hyps' \in Seq(Hypothesis) /\ DOMAIN hyps' = {}
    BY <2>1
  <2>3. QED
    BY <2>1, <2>2, PipelineConstants DEF PInv, BestAmong, Finished
<1>2. ASSUME NEW line \in Lines, Detect(line)
      PROVE  PInv'
  <2> DEFINE h == Seen(line, Providers[turn])
             hs == Append(hyps, h)
  <2>1. /\ stage = "horizon" /\ turn \in 1 .. 8 /\ Runs(Providers[turn])
        /\ After(hs) /\ best' = BestWith(h) /\ UNCHANGED <<vars, evidence>>
        /\ best \in Nat /\ best <= MaxPrecision
        /\ hyps \in Seq(Hypothesis) /\ \A i \in DOMAIN hyps : Grounded(hyps[i])
        /\ BestAmong(hyps, best)
    BY <1>2 DEF Detect, PInv
  <2>2. h \in Hypothesis /\ Grounded(h)
    BY <2>1, RunningIsFit, WhatIsSeen
  <2> HIDE DEF h
  <2>3. Searching(hs, BestWith(h))
    BY <2>1, <2>2, OneMoreHypothesis DEF Searching
  <2>4. BestWith(h) \in Nat /\ BestWith(h) <= MaxPrecision
    BY <2>1, <2>2, BestIsKept
  <2> HIDE DEF hs
  <2>5. \/ horizon' = Fuse(hs) /\ stage' = "body"
        \/ hyps' = hs /\ turn' = turn + 1 /\ stage' = stage /\ turn # 8
    BY <2>1 DEF After, Providers
  <2>6. QED
    BY <2>1, <2>3, <2>4, <2>5, GoingOn
<1>3. CASE DetectNothing \/ Pass
  <2>1. /\ stage = "horizon" /\ turn \in 1 .. 8
        /\ UNCHANGED <<vars, evidence, best>>
        /\ best \in Nat /\ best <= MaxPrecision
        /\ Searching(hyps, best)
    BY <1>3 DEF DetectNothing, Pass, PInv, Searching
  <2>2. \/ horizon' = Fuse(hyps) /\ stage' = "body"
        \/ hyps' = hyps /\ turn' = turn + 1 /\ stage' = stage /\ turn # 8
    BY <1>3, <2>1 DEF DetectNothing, Pass, After, Providers
  <2>3. QED
    BY <2>1, <2>2, GoingOn
<1>4. ASSUME NEW line \in Lines, MergeReflectionPair(line)
      PROVE  PInv'
  <2> DEFINE h == Seen(line, "reflection_pair")
             hs == (IF horizon = NoHorizon THEN <<>> ELSE <<horizon>>) \o <<h>>
  <2>1. /\ stage = "pair" /\ SkyGateAllows("reflection_pair")
        /\ "reflection_pair" \in Enabled /\ horizon' = Fuse(hs)
        /\ best' = BestWith(h) /\ stage' = "solve"
        /\ UNCHANGED <<vars, evidence>>
        /\ best \in Nat /\ best <= MaxPrecision
        /\ Grounded(horizon) /\ AsCertainAs(horizon, best)
    BY <1>4 DEF MergeReflectionPair, PairRuns, PInv, Finished
  <2>2. IsFit("reflection_pair")
    BY <2>1 DEF IsFit, SkyGateAllows, ByDay, ByNight
  <2>3. h \in Hypothesis /\ Grounded(h)
    BY <2>2, WhatIsSeen
  <2> HIDE DEF h
  <2>4. BestWith(h) \in Nat /\ BestWith(h) <= MaxPrecision
    BY <2>1, <2>3, BestIsKept
  <2>5. Grounded(Fuse(hs)) /\ AsCertainAs(Fuse(hs), BestWith(h))
    <3>1. CASE horizon = NoHorizon
      <4>1. horizon \notin Hypothesis
        <5>1. DOMAIN NoHorizon = {"by"}
          BY DEF NoHorizon
        <5>2. \A f \in Hypothesis : "angle" \in DOMAIN f
          BY DEF Hypothesis
        <5>3. QED
          BY <3>1, <5>1, <5>2
      <4>2. best = 0
        BY <2>1, <4>1 DEF AsCertainAs
      <4>3. hs = Append(<<>>, h)
        BY <3>1
      <4>4. /\ BestAmong(<<>>, best) /\ <<>> \in Seq(Hypothesis)
            /\ \A i \in DOMAIN <<>> : Grounded(<<>>[i])
        BY <4>2 DEF BestAmong
      <4>5. Searching(Append(<<>>, h), BestWith(h))
        BY <2>1, <2>3, <4>4, OneMoreHypothesis DEF Searching
      <4>6. QED
        BY <2>4, <4>3, <4>5, PublishedHorizon DEF Searching
    <3>2. CASE horizon # NoHorizon
      <4>1. horizon \in Hypothesis /\ best <= horizon.precision
        BY <2>1, <3>2 DEF AsCertainAs
      <4>2. hs = <<horizon>> \o <<h>>
        BY <3>2
      <4>3. <<horizon>> \in Seq(Hypothesis) /\ <<h>> \in Seq(Hypothesis)
        BY <2>3, <4>1
      <4> HIDE DEF hs
      <4>4. /\ hs \in Seq(Hypothesis) /\ Len(hs) = 2
            /\ hs[1] = horizon /\ hs[2] = h
        BY <4>2, <4>3, ConcatProperties
      <4>5. QED
        BY <2>1, <2>3, <4>1, <4>4, SecondPass
    <3>3. QED
      BY <3>1, <3>2
  <2>6. UNCHANGED <<smoothed, evidence>>
    BY <2>1 DEF vars
  <2> HIDE DEF hs
  <2>7. Grounded(horizon)' /\ AsCertainAs(horizon, best)'
    BY <2>1, <2>5, <2>6 DEF Grounded, IsFit, AsCertainAs
  <2>8. QED
    BY <2>1, <2>4, <2>7 DEF PInv
<1>5. ASSUME NEW blobs, NEW above, NEW below, DetectBody(blobs, above, below)
      PROVE  PInv'
  BY <1>5, OtherStages DEF DetectBody, Finished
<1>6. CASE NoPair
  BY <1>6, OtherStages DEF NoPair, Finished
<1>7. ASSUME NEW identified, SolveStars(identified)
      PROVE  PInv'
  BY <1>7, OtherStages DEF SolveStars, Finished
<1>8. CASE UNCHANGED pvars
  BY <1>8 DEF pvars, fvars, vars, PInv, Finished, Grounded, IsFit, AsCertainAs,
              BestAmong
<1>9. QED
  BY <1>1, <1>2, <1>3, <1>4, <1>5, <1>6, <1>7, <1>8 DEF PNext

LEMMA PipelineInvariant == PSpec => []PInv
<1>1. PInit => PInv
  BY PipelineConstants DEF PInit, PInv, Finished
<1>2. PInv /\ [PNext]_pvars => PInv'
  BY PipelineStep
<1>3. QED
  BY <1>1, <1>2, PTL DEF PSpec

\* The published horizon is as precise as every hypothesis of its frame that
\* can be placed in the sky, whatever the providers see and whichever are on
\* (fusion.rs: fuse_horizon_hypotheses, mod.rs: merge_reflection_pair).
THEOREM NothingCertainIsLost == PSpec => []NeverLessCertain
<1>1. PInv => NeverLessCertain
  BY DEF PInv, NeverLessCertain, AsCertainAs
<1>2. QED
  BY <1>1, PipelineInvariant, PTL

\* Every provider a horizon rests on was on, made for the light of the frame,
\* and shown enough sky (horizon.rs: run, mod.rs: merge_reflection_pair).
THEOREM HorizonIsGrounded == PSpec => []RestsOnFitProviders
<1>1. PInv => RestsOnFitProviders
  BY DEF PInv, RestsOnFitProviders, Grounded, IsFit
<1>2. QED
  BY <1>1, PipelineInvariant, PTL

=============================================================================
