----------------------------- MODULE Hysteresis -----------------------------
(***************************************************************************)
(* The day/twilight/night classifier's hysteresis                           *)
(* (bris-streaming/src/pipeline/hysteresis.rs): the condition the pipeline  *)
(* dispatches on changes only after settle_frames consecutive frames agree  *)
(* on another one.                                                          *)
(*                                                                         *)
(* `raws` is a history variable, the classifications so far; the code keeps *)
(* only the other three.  pending_count is a u32 added to with saturation;  *)
(* PendingIsTheStreak keeps it below Settle, so it never saturates.         *)
(***************************************************************************)
EXTENDS Integers, Sequences

CONSTANTS
  Condition,     \* Day, Twilight, Night
  NoCondition,   \* Option::None
  SettleFrames,  \* EngineConfig::classifier_hysteresis_frames
  MaxUpdates     \* bound: classifications in one behaviour

ASSUME HysteresisConstants ==
  /\ SettleFrames \in Nat
  /\ NoCondition \notin Condition
  /\ MaxUpdates \in Nat

VARIABLES
  smoothed,       \* the trusted condition, NoCondition before the first frame
  pending,        \* the disagreeing candidate, or NoCondition
  pending_count,  \* how many frames in a row it was seen
  raws            \* history: every classification, in order

vars == <<smoothed, pending, pending_count, raws>>

Settle == IF SettleFrames < 1 THEN 1 ELSE SettleFrames

Init ==
  /\ smoothed = NoCondition
  /\ pending = NoCondition
  /\ pending_count = 0
  /\ raws = <<>>

\* Mutant of Streak: a new candidate continues the count of the last one.
StreakKept(raw) == pending_count + 1

\* The pending streak once raw, which disagrees, is counted in.
Streak(raw) == IF raw = pending THEN pending_count + 1 ELSE 1

TrustFirst(raw) ==
  /\ smoothed = NoCondition
  /\ smoothed' = raw
  /\ pending' = NoCondition
  /\ pending_count' = 0

Agree(raw) ==
  /\ raw = smoothed
  /\ smoothed' = smoothed
  /\ pending' = NoCondition
  /\ pending_count' = 0

Promote(raw) ==
  /\ smoothed \notin {NoCondition, raw}
  /\ Streak(raw) >= Settle
  /\ smoothed' = raw
  /\ pending' = NoCondition
  /\ pending_count' = 0

Extend(raw) ==
  /\ smoothed \notin {NoCondition, raw}
  /\ Streak(raw) < Settle
  /\ smoothed' = smoothed
  /\ pending' = raw
  /\ pending_count' = Streak(raw)

\* ClassifierHysteresis::update
Update(raw) ==
  /\ Len(raws) < MaxUpdates
  /\ raws' = Append(raws, raw)
  /\ TrustFirst(raw) \/ Agree(raw) \/ Promote(raw) \/ Extend(raw)

Next == \E raw \in Condition : Update(raw)

Spec == Init /\ [][Next]_vars

-----------------------------------------------------------------------------
(* Properties.                                                             *)

TypeOK ==
  /\ smoothed \in Condition \cup {NoCondition}
  /\ pending \in Condition \cup {NoCondition}
  /\ pending_count \in 0 .. (Settle - 1)
  /\ raws \in Seq(Condition)

\* What a reader of the classifications h would trust at frame i: the first
\* one, and any that ends a run of Settle equal ones.
Settled(h, i) ==
  \/ i = 1
  \/ /\ i >= Settle
     /\ \A j \in (i - Settle + 1) .. i : h[j] = h[i]

\* The smoothed condition is the last settled classification of the whole
\* history: three fields of state answer as if every frame were kept
\* (hysteresis.rs:80-119).
SmoothedIsLastSettled ==
  raws # <<>> =>
    \E i \in 1 .. Len(raws) :
      /\ Settled(raws, i)
      /\ smoothed = raws[i]
      /\ \A k \in (i + 1) .. Len(raws) : ~ Settled(raws, k)

\* The pending candidate is exactly the run the history ends in: the last
\* pending_count frames, not one more, said it, and they are fewer than Settle
\* (hysteresis.rs:58-66).
PendingIsTheStreak ==
  IF pending = NoCondition
    THEN /\ pending_count = 0
         /\ raws # <<>> => raws[Len(raws)] = smoothed
    ELSE /\ pending # smoothed
         /\ pending_count \in 1 .. (Settle - 1)
         /\ pending_count < Len(raws)
         /\ raws[Len(raws) - pending_count] # pending
         /\ \A j \in (Len(raws) - pending_count + 1) .. Len(raws) :
              raws[j] = pending

=============================================================================
