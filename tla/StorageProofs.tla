--------------------------- MODULE StorageProofs ---------------------------
(***************************************************************************)
(* What holds of Storage, of StorageHistory and of StorageVec for every     *)
(* ring capacity, stitching window, set of times and number of frames.      *)
(*                                                                         *)
(* Storage: the inductive invariant is IInv: the type invariant, the two    *)
(* safety properties, and that every id in the ring was handed out already  *)
(* (which is why a record is never mistaken for one of a later frame).  The *)
(* history theorem adds, for each frame evict let go, the newer frame and   *)
(* the distance to every record that justified it.                         *)
(*                                                                         *)
(* StorageVec implements Storage: VecInv says of the three Vecs what binary *)
(* search and remove(0) take for granted: the ring in the order of ids,     *)
(* each queue in the order Precedes, every id handed out already.           *)
(***************************************************************************)
EXTENDS StorageHistory, StorageVec, ListingProofs

-----------------------------------------------------------------------------
(* The ring, as a finite set ordered by id.                                *)

\* A set of frames that is not empty has an oldest one.
LEMMA OldestExists ==
  ASSUME NEW frames \in SUBSET RingFrame, frames # {}
  PROVE  \E f \in frames : IsOldest(frames, f)
<1> DEFINE ids == {f.frame_id : f \in frames}
<1>1. ids \in SUBSET Nat /\ ids # {}
  BY DEF RingFrame, FrameId
<1>2. PICK least \in ids : \A id \in ids : least <= id
  <2> HIDE DEF ids
  <2> QED BY <1>1, LeastOfNaturals
<1>3. PICK f \in frames : f.frame_id = least
  OBVIOUS
<1>4. QED
  BY <1>2, <1>3 DEF IsOldest

\* A full ring loses at least one frame, so admitting one leaves no more than
\* the capacity.
LEMMA AdmitWithinCapacity ==
  ASSUME NEW s, s.ring \in SUBSET RingFrame, IsFiniteSet(s.ring),
         Cardinality(s.ring) <= Capacity, NEW frame
  PROVE  /\ IsFiniteSet((s.ring \ ForcedOut(s)) \cup {frame})
         /\ Cardinality((s.ring \ ForcedOut(s)) \cup {frame}) <= Capacity
<1> DEFINE kept == s.ring \ ForcedOut(s)
<1>1. Capacity \in Nat /\ Capacity >= 1
  BY StorageConstants DEF Capacity
<1>2. kept \in SUBSET s.ring
  OBVIOUS
<1>3. /\ IsFiniteSet(kept)
      /\ Cardinality(kept) <= Cardinality(s.ring)
      /\ Cardinality(s.ring) = Cardinality(kept) => s.ring = kept
  <2> HIDE DEF kept
  <2> QED BY <1>2, FS_Subset
<1>4. Cardinality(kept) \in Nat /\ Cardinality(s.ring) \in Nat
  BY <1>3, FS_CardinalityType
<1>5. Cardinality(kept) < Capacity
  <2>1. CASE Cardinality(s.ring) < Capacity
    BY <2>1, <1>1, <1>3, <1>4
  <2>2. CASE Cardinality(s.ring) >= Capacity
    <3>1. s.ring # {}
      BY <2>2, <1>1, FS_EmptySet
    <3>2. PICK f \in s.ring : IsOldest(s.ring, f)
      BY <3>1, OldestExists
    <3>3. kept # s.ring
      BY <3>2, <2>2 DEF ForcedOut
    <3>4. QED
      BY <3>3, <1>1, <1>3, <1>4
  <2>3. QED
    BY <2>1, <2>2, <1>1, <1>4
<1>6. /\ IsFiniteSet(kept \cup {frame})
      /\ Cardinality(kept \cup {frame}) <= Cardinality(kept) + 1
  <2> HIDE DEF kept
  <2> QED BY <1>3, <1>4, FS_AddElement
<1>7. Cardinality(kept \cup {frame}) \in Nat
  BY <1>6, FS_CardinalityType
<1>8. QED
  BY <1>1, <1>4, <1>5, <1>6, <1>7

-----------------------------------------------------------------------------
(* The inductive invariant.                                                *)

\* Ids in the ring were handed out before the next one.
IdsBelowNext == \A f \in storage.ring : f.frame_id < next_frame_id

IInv ==
  /\ TypeOK
  /\ IdsBelowNext
  /\ RecordsReferenceLiveFrames
  /\ RingWithinCapacity

\* The frames evict chooses from: those not forced out, and the new one.
Considered(tt) == (storage.ring \ ForcedOut(storage)) \cup {NewFrame(tt)}

\* What one push leaves in the storage, operation by operation: the records
\* are those of frames not forced out plus the new ones, and of the candidate
\* frames evict keeps those that are referenced, near a record or recent.
LEMMA PushEffect ==
  ASSUME NEW tt, NEW body, NEW horizon,
         storage' = StorageAfter(tt, body, horizon)
  PROVE  /\ storage' = [ring |-> storage'.ring, body_q |-> storage'.body_q,
                        horizon_q |-> storage'.horizon_q]
         /\ storage'.body_q =
              DropRecordsFor(storage.body_q, {f.frame_id : f \in ForcedOut(storage)})
                \cup RecordFrom(NewFrame(tt), body)
         /\ storage'.horizon_q =
              DropRecordsFor(storage.horizon_q, {f.frame_id : f \in ForcedOut(storage)})
                \cup RecordFrom(NewFrame(tt), horizon)
         /\ storage'.ring =
              {f \in Considered(tt) :
                 \/ \E r \in Records(storage') : r.frame_id = f.frame_id
                 \/ \E r \in Records(storage') :
                       Gap(r.frame_tt, f.frame_tt) <= StitchingWindow
                 \/ \E m \in Considered(tt) :
                       /\ \A g \in Considered(tt) : m.frame_tt >= g.frame_tt
                       /\ Gap(m.frame_tt, f.frame_tt) <= StitchingWindow}
<1> DEFINE n == NewFrame(tt)
           out == {f.frame_id : f \in ForcedOut(storage)}
           bq == DropRecordsFor(storage.body_q, out) \cup RecordFrom(n, body)
           hq == DropRecordsFor(storage.horizon_q, out) \cup RecordFrom(n, horizon)
           s1 == AdmitPyramid(storage, n)
           s2 == AdmitRecords(s1, n, body, horizon)
<1>1. s1 = [ring |-> Considered(tt),
            body_q |-> DropRecordsFor(storage.body_q, out),
            horizon_q |-> DropRecordsFor(storage.horizon_q, out)]
  BY DEF AdmitPyramid, Considered
<1>2. s2 = [ring |-> Considered(tt), body_q |-> bq, horizon_q |-> hq]
  <2> HIDE DEF s1
  <2> QED BY <1>1 DEF AdmitRecords
<1>3. storage' = Evict(s2)
  BY DEF StorageAfter
<1> HIDE DEF s1, s2, bq, hq
<1>4. /\ storage' = [ring |-> storage'.ring, body_q |-> storage'.body_q,
                     horizon_q |-> storage'.horizon_q]
      /\ storage'.body_q = bq
      /\ storage'.horizon_q = hq
      /\ storage'.ring = {f \in Considered(tt) :
                            \/ ProtectedByRecord(s2, f)
                            \/ ProtectedByQueueWindow(s2, f)
                            \/ ProtectedByRecency(s2, f)}
  BY <1>2, <1>3 DEF Evict
<1>5. Records(s2) = Records(storage') /\ s2.ring = Considered(tt)
  BY <1>2, <1>4 DEF Records
<1>6. QED
  BY <1>4, <1>5 DEF ProtectedByRecord, ProtectedByQueueWindow,
     ProtectedByRecency, bq, hq

\* A new record is of the new frame.
LEMMA RecordFromFrame ==
  ASSUME NEW frame, NEW d, NEW r \in RecordFrom(frame, d)
  PROVE  /\ r = RecordOf(frame, d)
         /\ r.frame_id = frame.frame_id
         /\ r.frame_tt = frame.frame_tt
         /\ d # NoDetection
  BY DEF RecordFrom, RecordOf

LEMMA InitIInv == Init => IInv
<1> SUFFICES ASSUME Init PROVE IInv
  OBVIOUS
<1>1. TypeOK /\ IdsBelowNext /\ RecordsReferenceLiveFrames
  BY DEF Init, EmptyStorage, TypeOK, IdsBelowNext,
     RecordsReferenceLiveFrames, Records
<1>2. RingWithinCapacity
  BY FS_EmptySet, StorageConstants
  DEF Init, EmptyStorage, RingWithinCapacity, Capacity
<1>3. QED
  BY <1>1, <1>2 DEF IInv

LEMMA PushKeepsIInv ==
  ASSUME IInv,
         NEW tt \in Times,
         NEW body \in BodyDetections \cup {NoDetection},
         NEW horizon \in HorizonDetections \cup {NoDetection},
         PushFrame(tt, body, horizon)
  PROVE  IInv'
<1> DEFINE n == NewFrame(tt)
           out == {f.frame_id : f \in ForcedOut(storage)}
<1>1. storage' = StorageAfter(tt, body, horizon) /\ next_frame_id' = next_frame_id + 1
  BY DEF PushFrame
<1>2. next_frame_id \in Nat /\ n \in RingFrame /\ n.frame_id = next_frame_id /\ n.frame_tt = tt
  BY DEF IInv, TypeOK, NewFrame, RingFrame, FrameId
<1>3. storage'.ring \subseteq Considered(tt)
  BY <1>1, PushEffect
<1>4. TypeOK'
  <2>1. storage'.ring \subseteq RingFrame
    BY <1>2, <1>3 DEF IInv, TypeOK, Considered
  <2>2. RecordFrom(n, body) \subseteq BodyRecord
    BY <1>2 DEF RecordFrom, RecordOf, BodyRecord, RingFrame
  <2>3. RecordFrom(n, horizon) \subseteq HorizonRecord
    BY <1>2 DEF RecordFrom, RecordOf, HorizonRecord, RingFrame
  <2>4. storage'.body_q \subseteq BodyRecord
    BY <1>1, <2>2, PushEffect DEF IInv, TypeOK, DropRecordsFor
  <2>5. storage'.horizon_q \subseteq HorizonRecord
    BY <1>1, <2>3, PushEffect DEF IInv, TypeOK, DropRecordsFor
  <2>6. storage' = [ring |-> storage'.ring, body_q |-> storage'.body_q,
                    horizon_q |-> storage'.horizon_q]
    BY <1>1, PushEffect
  <2>7. QED
    BY <1>1, <1>2, <2>1, <2>4, <2>5, <2>6 DEF TypeOK
<1>5. IdsBelowNext'
  BY <1>1, <1>2, <1>3 DEF IInv, IdsBelowNext, TypeOK, RingFrame, FrameId, Considered
<1>6. RecordsReferenceLiveFrames'
  <2> SUFFICES ASSUME NEW r \in Records(storage')
               PROVE  \E f \in storage'.ring : /\ f.frame_id = r.frame_id
                                               /\ f.frame_tt = r.frame_tt
    BY DEF RecordsReferenceLiveFrames
  <2>1. \/ r \in Records(storage) /\ r.frame_id \notin out
        \/ r \in RecordFrom(n, body) \cup RecordFrom(n, horizon)
    BY <1>1, PushEffect DEF Records, DropRecordsFor
  <2>2. \E f \in Considered(tt) : f.frame_id = r.frame_id /\ f.frame_tt = r.frame_tt
    <3>1. CASE r \in Records(storage) /\ r.frame_id \notin out
      BY <3>1 DEF IInv, RecordsReferenceLiveFrames, Considered
    <3>2. CASE r \in RecordFrom(n, body) \cup RecordFrom(n, horizon)
      BY <3>2, RecordFromFrame DEF Considered
    <3>3. QED
      BY <2>1, <3>1, <3>2
  <2>3. QED
    BY <1>1, <2>2, PushEffect
<1>7. RingWithinCapacity'
  <2>1. /\ IsFiniteSet(Considered(tt))
        /\ Cardinality(Considered(tt)) <= Capacity
    BY AdmitWithinCapacity DEF IInv, TypeOK, RingWithinCapacity, Considered
  <2>2. /\ IsFiniteSet(storage'.ring)
        /\ Cardinality(storage'.ring) <= Cardinality(Considered(tt))
    BY <1>3, <2>1, FS_Subset
  <2>3. /\ Cardinality(storage'.ring) \in Nat
        /\ Cardinality(Considered(tt)) \in Nat
        /\ Capacity \in Nat
    BY <2>1, <2>2, FS_CardinalityType, StorageConstants DEF Capacity
  <2>4. Cardinality(storage'.ring) <= Capacity
    BY <2>1, <2>2, <2>3
  <2>5. QED
    BY <2>2, <2>4 DEF RingWithinCapacity, Capacity
<1>8. QED
  BY <1>4, <1>5, <1>6, <1>7 DEF IInv

LEMMA NextKeepsIInv == IInv /\ [Next]_vars => IInv'
<1> SUFFICES ASSUME IInv, [Next]_vars PROVE IInv'
  OBVIOUS
<1>1. CASE Next
  BY <1>1, PushKeepsIInv DEF Next
<1>2. CASE UNCHANGED vars
  BY <1>2 DEF vars, IInv, TypeOK, IdsBelowNext, RecordsReferenceLiveFrames,
     Records, RingWithinCapacity
<1>3. QED
  BY <1>1, <1>2

LEMMA InvariantOfSpec == Spec => []IInv
  BY InitIInv, NextKeepsIInv, PTL DEF Spec

\* Type correctness: the ring holds frames, the queues hold records of the
\* kinds of detection they are for, and ids are naturals.
THEOREM TypeCorrect == Spec => []TypeOK
<1>1. IInv => TypeOK
  BY DEF IInv
<1>2. QED
  BY <1>1, InvariantOfSpec, PTL

\* Stage E can re-read the frame of every record it selects, whatever the
\* capacity, the window and the order of the captures.
THEOREM RecordsLive == Spec => []RecordsReferenceLiveFrames
<1>1. IInv => RecordsReferenceLiveFrames
  BY DEF IInv
<1>2. QED
  BY <1>1, InvariantOfSpec, PTL

\* The ring is bounded by its capacity, even when every frame is protected.
THEOREM RingBounded == Spec => []RingWithinCapacity
<1>1. IInv => RingWithinCapacity
  BY DEF IInv
<1>2. QED
  BY <1>1, InvariantOfSpec, PTL

\* Records leave a queue only with the oldest frame of a full ring.
THEOREM OnlyForceDropsRecords == Spec => RecordsLeaveOnlyByForce
<1>1. ASSUME NEW tt, NEW body, NEW horizon, PushFrame(tt, body, horizon),
             NEW r \in Records(storage), r \notin Records(storage')
      PROVE  \E f \in ForcedOut(storage) : f.frame_id = r.frame_id
  <2>1. storage' = StorageAfter(tt, body, horizon)
    BY <1>1 DEF PushFrame
  <2>2. r.frame_id \in {f.frame_id : f \in ForcedOut(storage)}
    BY <1>1, <2>1, PushEffect DEF Records, DropRecordsFor
  <2>3. QED
    BY <2>2
<1>2. [Next]_vars =>
        [\A r \in Records(storage) :
           \/ r \in Records(storage')
           \/ \E f \in ForcedOut(storage) : f.frame_id = r.frame_id]_vars
  BY <1>1 DEF Next
<1>3. QED
  BY <1>2, PTL DEF Spec, RecordsLeaveOnlyByForce

-----------------------------------------------------------------------------
(* What the ring owes to the frames that left it.                          *)

\* A frame evict let go is older than some frame still in the ring by more
\* than the window, and as far from every record.
LeftBehind(f) ==
  /\ \E g \in storage.ring : g.frame_tt > f.frame_tt + StitchingWindow
  /\ \A r \in Records(storage) : Gap(r.frame_tt, f.frame_tt) > StitchingWindow

\* The ring holds frames that were pushed, each under an id of its own.
IdInv ==
  /\ IInv
  /\ pushed \in SUBSET RingFrame
  /\ storage.ring \subseteq pushed
  /\ \A f \in pushed : f.frame_id < next_frame_id
  /\ \A f, g \in pushed : f.frame_id = g.frame_id => f = g

HInv ==
  /\ IdInv
  /\ \A f \in pushed \ (storage.ring \cup forced) : LeftBehind(f)
  /\ NewestFrameRetained

LEMMA HInitHInv == HInit => HInv
  BY InitIInv DEF HInit, HInv, IdInv, Init, EmptyStorage, NewestFrameRetained

LEMMA PushKeepsIdInv ==
  ASSUME IdInv,
         NEW tt \in Times,
         NEW body \in BodyDetections \cup {NoDetection},
         NEW horizon \in HorizonDetections \cup {NoDetection},
         HPushFrame(tt, body, horizon)
  PROVE  IdInv'
<1> DEFINE n == NewFrame(tt)
<1>1. /\ storage' = StorageAfter(tt, body, horizon)
      /\ next_frame_id' = next_frame_id + 1
      /\ pushed' = pushed \cup {n}
  BY DEF HPushFrame, PushFrame
<1>2. /\ next_frame_id \in Nat
      /\ n \in RingFrame /\ n.frame_id = next_frame_id
  BY DEF IdInv, IInv, TypeOK, NewFrame, RingFrame, FrameId
<1>3. IInv'
  BY PushKeepsIInv DEF IdInv, HPushFrame
<1>4. storage'.ring \subseteq Considered(tt)
  BY <1>1, PushEffect
<1>5. pushed' \in SUBSET RingFrame /\ storage'.ring \subseteq pushed'
  BY <1>1, <1>2, <1>4 DEF IdInv, Considered
<1>6. \A f \in pushed' : f.frame_id < next_frame_id'
  BY <1>1, <1>2 DEF IdInv, RingFrame, FrameId
<1>7. \A f, g \in pushed' : f.frame_id = g.frame_id => f = g
  BY <1>1, <1>2 DEF IdInv, RingFrame, FrameId
<1>8. QED
  BY <1>3, <1>5, <1>6, <1>7 DEF IdInv

LEMMA PushKeepsHInv ==
  ASSUME HInv, CaptureInOrder,
         NEW tt \in Times,
         NEW body \in BodyDetections \cup {NoDetection},
         NEW horizon \in HorizonDetections \cup {NoDetection},
         HPushFrame(tt, body, horizon)
  PROVE  HInv'
<1> DEFINE n == NewFrame(tt)
<1>1. /\ storage' = StorageAfter(tt, body, horizon)
      /\ next_frame_id' = next_frame_id + 1
      /\ \A f \in storage.ring : f.frame_tt <= tt
      /\ pushed' = pushed \cup {n}
      /\ forced' = forced \cup ForcedOut(storage)
  BY DEF HPushFrame, PushFrame, MayCapture
<1>2. /\ next_frame_id \in Nat
      /\ n \in RingFrame /\ n.frame_id = next_frame_id /\ n.frame_tt = tt
      /\ Times \subseteq Int /\ StitchingWindow \in Nat
  BY StorageConstants DEF HInv, IdInv, IInv, TypeOK, NewFrame, RingFrame, FrameId
<1>3. IdInv'
  BY PushKeepsIdInv DEF HInv
<1>4. storage.ring \in SUBSET RingFrame /\ storage'.ring \in SUBSET RingFrame
  BY <1>3 DEF HInv, IdInv, IInv, TypeOK
<1>5. \A f \in Considered(tt) : f \in RingFrame /\ f.frame_tt <= tt
  BY <1>1, <1>2, <1>4 DEF Considered, RingFrame
<1>6. n \in storage'.ring
  <2>1. /\ n \in Considered(tt)
        /\ \A g \in Considered(tt) : n.frame_tt >= g.frame_tt
        /\ Gap(n.frame_tt, n.frame_tt) <= StitchingWindow
    BY <1>2, <1>5 DEF Considered, Gap, RingFrame
  <2>2. QED
    BY <1>1, <2>1, PushEffect
<1>7. storage'.ring \subseteq Considered(tt)
  BY <1>1, PushEffect
<1>8. ASSUME NEW f \in pushed' \ (storage'.ring \cup forced')
       PROVE  LeftBehind(f)'
  <2>1. f \in pushed /\ f \in RingFrame
    BY <1>1, <1>6, <1>8 DEF HInv, IdInv
  <2>2. /\ tt > f.frame_tt + StitchingWindow
        /\ \A r \in Records(storage) \cap Records(storage') :
              Gap(r.frame_tt, f.frame_tt) > StitchingWindow
    <3>1. CASE f \in storage.ring
      <4>1. f \in Considered(tt)
        BY <1>1, <1>8, <3>1 DEF Considered
      <4>2. \A r \in Records(storage') :
               ~ (Gap(r.frame_tt, f.frame_tt) <= StitchingWindow)
        BY <1>1, <1>8, <4>1, PushEffect
      <4>3. ~ (Gap(n.frame_tt, f.frame_tt) <= StitchingWindow)
        <5>1. n \in Considered(tt) /\ \A g \in Considered(tt) : n.frame_tt >= g.frame_tt
          BY <1>2, <1>5 DEF Considered, RingFrame
        <5>2. QED
          BY <1>1, <1>8, <4>1, <5>1, PushEffect
      <4>4. \A r \in Records(storage') : r.frame_tt \in Int
        BY <1>2, <1>3 DEF IdInv, IInv, TypeOK, Records, BodyRecord, HorizonRecord
      <4>5. f.frame_tt \in Int /\ f.frame_tt <= tt /\ tt \in Int
        BY <1>2, <1>5, <2>1, <4>1 DEF RingFrame
      <4>6. QED
        BY <1>2, <4>2, <4>3, <4>4, <4>5 DEF Gap
    <3>2. CASE f \notin storage.ring
      <4>1. LeftBehind(f)
        BY <1>1, <1>8, <2>1, <3>2 DEF HInv
      <4>2. PICK g \in storage.ring : g.frame_tt > f.frame_tt + StitchingWindow
        BY <4>1 DEF LeftBehind
      <4>3. g.frame_tt <= tt /\ g.frame_tt \in Int /\ f.frame_tt \in Int /\ tt \in Int
        BY <1>1, <1>2, <1>4, <2>1 DEF RingFrame
      <4>4. tt > f.frame_tt + StitchingWindow
        BY <1>2, <4>2, <4>3
      <4>5. QED
        BY <4>1, <4>4 DEF LeftBehind
    <3>3. QED
      BY <3>1, <3>2
  <2>3. f.frame_tt \in Int /\ tt \in Int
    BY <1>2, <2>1 DEF RingFrame
  <2>4. ASSUME NEW r \in Records(storage')
        PROVE  Gap(r.frame_tt, f.frame_tt) > StitchingWindow
    <3>1. r \in Records(storage) \/ r \in RecordFrom(n, body) \cup RecordFrom(n, horizon)
      BY <1>1, PushEffect DEF Records, DropRecordsFor
    <3>2. CASE r \in RecordFrom(n, body) \cup RecordFrom(n, horizon)
      <4>1. r.frame_tt = tt
        BY <1>2, <3>2, RecordFromFrame
      <4>2. QED
        BY <1>2, <2>2, <2>3, <4>1 DEF Gap
    <3>3. QED
      BY <2>2, <2>4, <3>1, <3>2
  <2>5. QED
    BY <1>2, <1>6, <2>2, <2>4 DEF LeftBehind
<1>9. NewestFrameRetained'
  BY <1>1, <1>2, <1>6 DEF NewestFrameRetained, HasFrame
<1>10. QED
  BY <1>3, <1>8, <1>9 DEF HInv

LEMMA HNextKeepsHInv == CaptureInOrder /\ HInv /\ [HNext]_hvars => HInv'
<1> SUFFICES ASSUME CaptureInOrder, HInv, [HNext]_hvars PROVE HInv'
  OBVIOUS
<1>1. CASE HNext
  BY <1>1, PushKeepsHInv DEF HNext
<1>2. CASE UNCHANGED hvars
  BY <1>2 DEF hvars, HInv, IdInv, IInv, TypeOK, IdsBelowNext, LeftBehind, HasFrame,
     RecordsReferenceLiveFrames, Records, RingWithinCapacity, NewestFrameRetained
<1>3. QED
  BY <1>1, <1>2

LEMMA InvariantOfHSpec == CaptureInOrder => (HSpec => []HInv)
<1>1. SUFFICES ASSUME CaptureInOrder PROVE HSpec => []HInv
  OBVIOUS
<1>2. HInv /\ [HNext]_hvars => HInv'
  BY <1>1, HNextKeepsHInv
<1>3. QED
  BY <1>2, HInitHInv, PTL DEF HSpec

\* When frames are pushed in capture order, evict never drops a frame that a
\* record, queued then or later, needs as a stitching intermediary.
THEOREM NoIntermediaryLost ==
  CaptureInOrder => (HSpec => []IntermediariesRetained)
<1>1. SUFFICES ASSUME CaptureInOrder PROVE HSpec => []IntermediariesRetained
  OBVIOUS
<1>2. HInv => IntermediariesRetained
  <2> SUFFICES ASSUME HInv, NEW f \in pushed \ forced,
                      NEW r \in Records(storage),
                      Gap(r.frame_tt, f.frame_tt) <= StitchingWindow
               PROVE  f \in storage.ring
    BY DEF IntermediariesRetained
  <2>1. r.frame_tt \in Int /\ f.frame_tt \in Int /\ StitchingWindow \in Nat
    BY StorageConstants
    DEF HInv, IdInv, IInv, TypeOK, Records, BodyRecord, HorizonRecord, RingFrame
  <2>2. ~ LeftBehind(f)
    BY <2>1 DEF LeftBehind, Gap
  <2>3. QED
    BY <2>2 DEF HInv
<1>3. QED
  BY <1>1, <1>2, InvariantOfHSpec, PTL

\* An id names one frame for ever: a frame that left the ring does not come
\* back, and no later frame takes its id.
THEOREM IdsAreForever == HSpec => FramesNeverReturn
<1>1. HSpec => []IdInv
  <2>1. IdInv /\ [HNext]_hvars => IdInv'
    <3>1. ASSUME IdInv, HNext PROVE IdInv'
      BY <3>1, PushKeepsIdInv DEF HNext
    <3>2. ASSUME IdInv, UNCHANGED hvars PROVE IdInv'
      BY <3>2 DEF hvars, IdInv, IInv, TypeOK, IdsBelowNext,
         RecordsReferenceLiveFrames, Records, RingWithinCapacity
    <3>3. QED
      BY <3>1, <3>2
  <2>2. HInit => IdInv
    BY HInitHInv DEF HInv
  <2>3. QED
    BY <2>1, <2>2, PTL DEF HSpec
<1>2. ASSUME IdInv, [HNext]_hvars,
             NEW f \in pushed \ storage.ring, HasFrame(storage', f.frame_id)
      PROVE  UNCHANGED hvars
  <2>1. SUFFICES ASSUME HNext PROVE FALSE
    BY <1>2
  <2>2. PICK tt \in Times,
             body \in BodyDetections \cup {NoDetection},
             horizon \in HorizonDetections \cup {NoDetection} :
               HPushFrame(tt, body, horizon)
    BY <2>1 DEF HNext
  <2>3. storage'.ring \subseteq storage.ring \cup {NewFrame(tt)}
    BY <2>2, PushEffect DEF HPushFrame, PushFrame, Considered
  <2>4. PICK g \in storage'.ring : g.frame_id = f.frame_id
    BY <1>2 DEF HasFrame
  <2>5. f.frame_id < next_frame_id /\ next_frame_id \in Nat /\ f.frame_id \in Nat
    BY <1>2 DEF IdInv, IInv, TypeOK, RingFrame, FrameId
  <2>6. NewFrame(tt).frame_id = next_frame_id
    BY DEF NewFrame
  <2>7. g \in storage.ring
    BY <2>3, <2>4, <2>5, <2>6
  <2>8. QED
    BY <1>2, <2>4, <2>7 DEF IdInv
<1>3. IdInv /\ [HNext]_hvars =>
        [\A f \in pushed \ storage.ring : ~ HasFrame(storage', f.frame_id)]_hvars
  BY <1>2
<1>4. QED
  BY <1>1, <1>3, PTL DEF HSpec, FramesNeverReturn

\* When frames are pushed in capture order, the frame just pushed is still
\* there when push_frame returns.
THEOREM NewestNeverEvicted ==
  CaptureInOrder => (HSpec => []NewestFrameRetained)
<1>1. SUFFICES ASSUME CaptureInOrder PROVE HSpec => []NewestFrameRetained
  OBVIOUS
<1>2. HInv => NewestFrameRetained
  BY DEF HInv
<1>3. QED
  BY <1>1, <1>2, InvariantOfHSpec, PTL

-----------------------------------------------------------------------------
(* StorageVec.                                                             *)

\* The operators of Storage the lemmas speak of.  (Under a name of this module
\* a lemma about them applies to values that depend on the state.)
VecRecordFrom(frame, d) == Sets!RecordFrom(frame, d)
VecDropRecordsFor(q, ids) == Sets!DropRecordsFor(q, ids)
RingAfterEvict(s) == Sets!Evict(s).ring

-----------------------------------------------------------------------------
(* The operations of a Vec.                                                *)

\* retain keeps what is to be kept and leaves it in order: position n of the
\* result is position from[n] of the Vec, and from increases.
LEMMA RetainedKeepsOrder ==
  ASSUME NEW T, NEW v \in Seq(T), NEW keep
  PROVE  /\ Retained(v, keep) \in Seq(T)
         /\ ToSet(Retained(v, keep)) = {x \in ToSet(v) : x \in keep}
         /\ \E from \in [1 .. Len(Retained(v, keep)) -> 1 .. Len(v)] :
              /\ \A n \in 1 .. Len(Retained(v, keep)) : Retained(v, keep)[n] = v[from[n]]
              /\ \A m, n \in 1 .. Len(Retained(v, keep)) : m < n => from[m] < from[n]
<1> DEFINE at == {i \in DOMAIN v : v[i] \in keep}
<1>1. at \in SUBSET DOMAIN v /\ DOMAIN v = 1 .. Len(v)
  BY LenProperties
<1>2. Retained(v, keep) = Picked(v, at)
  BY DEF Retained
<1>3. \A i \in at : v[i] \in ToSet(v) /\ v[i] \in keep
  BY DEF ToSet
<1>4. \A x \in ToSet(v) : x \in keep => \E i \in at : v[i] = x
  BY DEF ToSet
<1> HIDE DEF at
<1> DEFINE p == Picked(v, at)
<1>5. p \in Seq(T)
  BY <1>1, PickedKeepsOrder
<1>6. \E from \in [1 .. Len(p) -> at] :
        /\ \A n \in 1 .. Len(p) : p[n] = v[from[n]]
        /\ \A m, n \in 1 .. Len(p) : m < n => from[m] < from[n]
  BY <1>1, PickedKeepsOrder
<1>7. /\ \A n \in DOMAIN p : \E i \in at : p[n] = v[i]
      /\ \A i \in at : \E n \in DOMAIN p : p[n] = v[i]
  BY <1>1, PickedElements
<1> HIDE DEF p
<1>8. ToSet(p) = {x \in ToSet(v) : x \in keep}
  <2>1. \A x \in ToSet(p) : x \in ToSet(v) /\ x \in keep
    BY <1>3, <1>7 DEF ToSet
  <2>2. \A x \in ToSet(v) : x \in keep => x \in ToSet(p)
    BY <1>4, <1>7 DEF ToSet
  <2>3. QED
    BY <2>1, <2>2
<1>9. \E from \in [1 .. Len(p) -> 1 .. Len(v)] :
        /\ \A n \in 1 .. Len(p) : p[n] = v[from[n]]
        /\ \A m, n \in 1 .. Len(p) : m < n => from[m] < from[n]
  <2>1. PICK from \in [1 .. Len(p) -> at] :
          /\ \A n \in 1 .. Len(p) : p[n] = v[from[n]]
          /\ \A m, n \in 1 .. Len(p) : m < n => from[m] < from[n]
    BY <1>6
  <2>2. from \in [1 .. Len(p) -> 1 .. Len(v)]
    BY <1>1
  <2>3. QED
    BY <2>1, <2>2
<1>10. QED
  BY <1>2, <1>5, <1>8, <1>9 DEF p
\* insert puts one element in and moves the rest by one place.
LEMMA InsertAtPlaces ==
  ASSUME NEW T, NEW s \in Seq(T), NEW p \in 0 .. Len(s), NEW e \in T
  PROVE  /\ InsertAt(s, p + 1, e) \in Seq(T)
         /\ Len(InsertAt(s, p + 1, e)) = Len(s) + 1
         /\ \A i \in 1 .. Len(s) + 1 :
              InsertAt(s, p + 1, e)[i] = IF i <= p THEN s[i]
                                         ELSE IF i = p + 1 THEN e ELSE s[i - 1]
         /\ ToSet(InsertAt(s, p + 1, e)) = ToSet(s) \cup {e}
<1> DEFINE a == SubSeq(s, 1, p)
           b == SubSeq(s, p + 1, Len(s))
           c == a \o <<e>>
<1>0. Len(s) \in Nat /\ p \in Nat /\ p <= Len(s)
  BY LenProperties
<1>1. Len(s) \in Nat /\ DOMAIN s = 1 .. Len(s) /\ \A i \in 1 .. Len(s) : s[i] \in T
  BY LenProperties, ElementOfSeq
<1>2. a \in Seq(T) /\ Len(a) = p /\ \A i \in 1 .. p : a[i] = s[i]
  BY <1>1, SubSeqProperties
<1>3. b \in Seq(T) /\ Len(b) = Len(s) - p /\ \A i \in 1 .. Len(s) - p : b[i] = s[p + i]
  <2> DEFINE m == p + 1
             n == Len(s)
  <2>1. m \in Int /\ n \in Int /\ \A i \in m .. n : s[i] \in T
    BY <1>1
  <2>2. /\ (IF m <= n THEN n - m + 1 ELSE 0) = Len(s) - p
        /\ n - m + 1 = Len(s) - p
        /\ \A i \in Int : m + i - 1 = p + i
    BY <1>0
  <2> HIDE DEF m, n
  <2>3. /\ SubSeq(s, m, n) \in Seq(T)
        /\ Len(SubSeq(s, m, n)) = IF m <= n THEN n - m + 1 ELSE 0
        /\ \A i \in 1 .. n - m + 1 : SubSeq(s, m, n)[i] = s[m + i - 1]
    BY <2>1, SubSeqProperties
  <2>4. QED
    <3>1. SubSeq(s, m, n) = b
      BY DEF m, n, b
    <3>2. \A i \in 1 .. n - m + 1 : m + i - 1 = p + i
      BY <2>2
    <3>3. QED
      BY <2>2, <2>3, <3>1, <3>2
<1>4. InsertAt(s, p + 1, e) = c \o b
  <2>1. (p + 1) - 1 = p
    BY <1>1
  <2>2. QED
    BY <2>1, Zenon DEF InsertAt
<1> HIDE DEF a, b
<1>5. c \in Seq(T) /\ Len(c) = p + 1
      /\ \A i \in 1 .. p + 1 : c[i] = IF i <= p THEN s[i] ELSE e
  BY <1>2
<1> HIDE DEF c
<1>6. /\ c \o b \in Seq(T) /\ Len(c \o b) = Len(s) + 1
      /\ \A i \in 1 .. Len(s) + 1 :
           (c \o b)[i] = IF i <= p THEN s[i] ELSE IF i = p + 1 THEN e ELSE s[i - 1]
  <2>1. /\ c \o b \in Seq(T) /\ Len(c \o b) = Len(c) + Len(b)
        /\ \A i \in 1 .. Len(c) + Len(b) :
             (c \o b)[i] = IF i <= Len(c) THEN c[i] ELSE b[i - Len(c)]
    BY <1>3, <1>5, ConcatProperties
  <2>2. Len(c) = p + 1 /\ Len(b) = Len(s) - p /\ Len(c) + Len(b) = Len(s) + 1
    BY <1>1, <1>3, <1>5
  <2>3. ASSUME NEW i \in 1 .. Len(s) + 1
        PROVE  (c \o b)[i] = IF i <= p THEN s[i] ELSE IF i = p + 1 THEN e ELSE s[i - 1]
    <3>1. CASE i <= p + 1
      BY <3>1, <2>1, <2>2, <1>1, <1>5
    <3>2. CASE i > p + 1
      <4>1. i - (p + 1) \in 1 .. Len(s) - p /\ p + (i - (p + 1)) = i - 1
        BY <3>2, <1>1
      <4>2. (c \o b)[i] = b[i - (p + 1)]
        BY <3>2, <2>1, <2>2, <1>1
      <4>3. QED
        <5>1. b[i - (p + 1)] = s[i - 1]
          BY <4>1, <1>3
        <5>2. ~ (i <= p) /\ i # p + 1
          BY <3>2, <1>1
        <5>3. QED
          BY <4>2, <5>1, <5>2
    <3>3. i <= p + 1 \/ i > p + 1
      BY <1>0
    <3>4. QED
      BY <3>1, <3>2, <3>3, Zenon
  <2>4. QED
    BY <2>1, <2>2, <2>3
<1> DEFINE r == InsertAt(s, p + 1, e)
<1>7. /\ r \in Seq(T) /\ Len(r) = Len(s) + 1
      /\ \A i \in 1 .. Len(s) + 1 :
           r[i] = IF i <= p THEN s[i] ELSE IF i = p + 1 THEN e ELSE s[i - 1]
  <2> HIDE DEF r
  <2>1. r = c \o b
    BY <1>4 DEF r
  <2>2. QED
    BY <1>6, <2>1
<1>8. ToSet(r) = ToSet(s) \cup {e}
  <2> HIDE DEF r
  <2>1. DOMAIN r = 1 .. Len(s) + 1
    BY <1>7, LenProperties
  <2>2. ASSUME NEW i \in 1 .. Len(s) + 1
        PROVE  r[i] \in ToSet(s) \cup {e}
    <3>1. CASE i <= p
      BY <3>1, <1>1, <1>7 DEF ToSet
    <3>2. CASE i = p + 1
      BY <3>2, <1>1, <1>7
    <3>3. CASE i > p + 1
      <4>1. r[i] = s[i - 1] /\ i - 1 \in 1 .. Len(s)
        BY <3>3, <1>1, <1>7
      <4>2. QED
        BY <4>1, <1>1 DEF ToSet
    <3>4. QED
      BY <3>1, <3>2, <3>3
  <2>3. ASSUME NEW i \in 1 .. Len(s)
        PROVE  s[i] \in ToSet(r)
    <3>1. CASE i <= p
      <4>1. r[i] = s[i] /\ i \in 1 .. Len(s) + 1
        BY <3>1, <1>1, <1>7
      <4>2. QED
        BY <4>1, <2>1 DEF ToSet
    <3>2. CASE i > p
      <4>1. r[i + 1] = s[i] /\ i + 1 \in 1 .. Len(s) + 1
        BY <3>2, <1>1, <1>7
      <4>2. QED
        BY <4>1, <2>1 DEF ToSet
    <3>3. QED
      BY <3>1, <3>2
  <2>4. e \in ToSet(r)
    <3>1. r[p + 1] = e /\ p + 1 \in 1 .. Len(s) + 1
      BY <1>1, <1>7
    <3>2. QED
      BY <3>1, <2>1 DEF ToSet
  <2>5. QED
    BY <2>1, <2>2, <2>3, <2>4, <1>1 DEF ToSet
<1>9. QED
  BY <1>7, <1>8

-----------------------------------------------------------------------------
(* The queues.                                                             *)

QueueInOrder(items) ==
  \A i, j \in DOMAIN items : i < j => Sets!Precedes(items[i], items[j])

Keyed(T) == \A r \in T : r.detection.sigma_key \in Nat /\ r.frame_id \in Nat

\* In a queue that is in order the records with no greater key are those
\* before the partition point, all of them and no other.
LEMMA PartitionPointSplits ==
  ASSUME NEW T, Keyed(T), NEW items \in Seq(T), QueueInOrder(items), NEW key \in Nat
  PROVE  /\ PartitionPoint(items, key) \in 0 .. Len(items)
         /\ \A i \in 1 .. Len(items) :
              items[i].detection.sigma_key <= key <=> i <= PartitionPoint(items, key)
<1> DEFINE low == {i \in DOMAIN items : items[i].detection.sigma_key <= key}
           p == Cardinality(low)
<1>1. /\ Len(items) \in Nat /\ DOMAIN items = 1 .. Len(items)
      /\ \A i \in 1 .. Len(items) : items[i] \in T
  BY LenProperties, ElementOfSeq
<1>2. \A i \in 1 .. Len(items) : items[i].detection.sigma_key \in Nat
  BY <1>1 DEF Keyed
<1>3. low \in SUBSET (1 .. Len(items)) /\ \A i \in low : i \in Int
  BY <1>1
<1>4. \A i \in low : \A j \in 1 .. Len(items) : j <= i => j \in low
  BY <1>1, <1>2, <1>3 DEF QueueInOrder, Sets!Precedes
<1>5. /\ IsFiniteSet(low) /\ p \in Nat
      /\ \A i \in low : Cardinality(Upto(low, i)) \in 1 .. p
      /\ \A n \in 1 .. p : \E i \in low : Cardinality(Upto(low, i)) = n
  <2> HIDE DEF low
  <2> QED BY <1>1, <1>3, PositionsAreNumbered
<1>6. ASSUME NEW i \in low
      PROVE  Cardinality(Upto(low, i)) = i
  <2>1. Upto(low, i) = 1 .. i
    BY <1>3, <1>4 DEF Upto
  <2>2. QED
    BY <2>1, <1>3, FS_Interval
<1>7. p <= Len(items)
  <2>1. \A n \in Nat : IsFiniteSet(1 .. n) /\ Cardinality(1 .. n) = n
    BY FS_Interval
  <2>2. QED
    BY <2>1, <1>1, <1>3, FS_Subset
<1>8. \A i \in 1 .. Len(items) : i \in low <=> i <= p
  <2> HIDE DEF low
  <2> QED BY <1>5, <1>6
<1>9. PartitionPoint(items, key) = p
  BY DEF PartitionPoint
<1>10. QED
  BY <1>1, <1>5, <1>7, <1>8, <1>9

\* Inserted at its partition point, a record of the newest frame leaves the
\* queue in order.
LEMMA InsertKeepsOrder ==
  ASSUME NEW T, Keyed(T), NEW items \in Seq(T), QueueInOrder(items),
         NEW r \in T, \A i \in DOMAIN items : items[i].frame_id < r.frame_id
  PROVE  QueueInOrder(InsertAt(items, PartitionPoint(items, r.detection.sigma_key) + 1, r))
<1> DEFINE key == r.detection.sigma_key
           p == PartitionPoint(items, key)
           new == InsertAt(items, p + 1, r)
<1>1. /\ Len(items) \in Nat /\ DOMAIN items = 1 .. Len(items)
      /\ \A i \in 1 .. Len(items) : items[i] \in T
  BY LenProperties, ElementOfSeq
<1>2. key \in Nat /\ r.frame_id \in Nat
  BY DEF Keyed
<1>3. /\ p \in 0 .. Len(items)
      /\ \A i \in 1 .. Len(items) : items[i].detection.sigma_key <= key <=> i <= p
  <2> HIDE DEF p, key
  <2> QED BY <1>2, PartitionPointSplits DEF p
<1> HIDE DEF p
<1>4. /\ new \in Seq(T) /\ Len(new) = Len(items) + 1
      /\ \A i \in 1 .. Len(items) + 1 :
           new[i] = IF i <= p THEN items[i] ELSE IF i = p + 1 THEN r ELSE items[i - 1]
  <2> HIDE DEF key
  <2> QED BY <1>3, InsertAtPlaces
<1> HIDE DEF new
<1>5. DOMAIN new = 1 .. Len(items) + 1
  BY <1>4, LenProperties
<1>6. \A i \in 1 .. Len(items) :
        items[i].detection.sigma_key \in Nat /\ items[i].frame_id \in Nat
  BY <1>1 DEF Keyed
<1>7. ASSUME NEW i \in DOMAIN new, NEW j \in DOMAIN new, i < j
      PROVE  Sets!Precedes(new[i], new[j])
  <2>1. i \in Int /\ j \in Int /\ p \in Int /\ 1 <= i /\ j <= Len(items) + 1
    BY <1>1, <1>3, <1>5
  <2>2. CASE j <= p
    <3>1. new[i] = items[i] /\ new[j] = items[j]
          /\ i \in 1 .. Len(items) /\ j \in 1 .. Len(items)
      BY <2>1, <2>2, <1>3, <1>4, <1>7
    <3>2. QED
      BY <3>1, <1>1, <1>7 DEF QueueInOrder
  <2>3. CASE j = p + 1
    <3>1. new[i] = items[i] /\ new[j] = r /\ i \in 1 .. Len(items) /\ i <= p
      BY <2>1, <2>3, <1>3, <1>4, <1>7
    <3>2. items[i].detection.sigma_key <= key /\ items[i].frame_id < r.frame_id
      BY <3>1, <1>1, <1>3
    <3>3. QED
      BY <3>1, <3>2, <1>2, <1>6 DEF Sets!Precedes
  <2>4. CASE j > p + 1 /\ i = p + 1
    <3>1. new[i] = r /\ new[j] = items[j - 1] /\ j - 1 \in 1 .. Len(items) /\ ~ (j - 1 <= p)
      BY <2>1, <2>4, <1>1, <1>4
    <3>2. ~ (items[j - 1].detection.sigma_key <= key)
      BY <3>1, <1>3
    <3>3. QED
      BY <3>1, <3>2, <1>2, <1>6 DEF Sets!Precedes
  <2>5. CASE j > p + 1 /\ i # p + 1
    <3> DEFINE k == IF i <= p THEN i ELSE i - 1
    <3>1. new[i] = items[k] /\ new[j] = items[j - 1]
          /\ k \in 1 .. Len(items) /\ j - 1 \in 1 .. Len(items) /\ k < j - 1
      BY <2>1, <2>5, <1>1, <1>3, <1>4, <1>7
    <3>2. QED
      BY <3>1, <1>1 DEF QueueInOrder
  <2>6. QED
    BY <2>1, <2>2, <2>3, <2>4, <2>5
<1>8. QED
  BY <1>7 DEF QueueInOrder, new, p

\* What Remaining, Insert and retain do to a queue, as a set and in order.
LEMMA RetainedStaysInOrder ==
  ASSUME NEW T, NEW items \in Seq(T), QueueInOrder(items), NEW keep
  PROVE  QueueInOrder(Retained(items, keep))
<1> DEFINE new == Retained(items, keep)
<1>1. new \in Seq(T)
  BY RetainedKeepsOrder
<1>2. PICK from \in [1 .. Len(new) -> 1 .. Len(items)] :
        /\ \A n \in 1 .. Len(new) : new[n] = items[from[n]]
        /\ \A m, n \in 1 .. Len(new) : m < n => from[m] < from[n]
  BY RetainedKeepsOrder
<1> HIDE DEF new
<1>3. DOMAIN new = 1 .. Len(new) /\ DOMAIN items = 1 .. Len(items)
  BY <1>1, LenProperties
<1>4. QueueInOrder(new)
  BY <1>2, <1>3 DEF QueueInOrder
<1>5. QED
  BY <1>4 DEF new

\* items is a queue of records of T in order, all of frames before id.
QueueOf(T, id, items) ==
  /\ items \in Seq(T) /\ QueueInOrder(items)
  /\ \A r \in ToSet(items) : r.frame_id < id

\* new has the elements of old and those of extra.
Adds(new, old, extra) == ToSet(new) = ToSet(old) \cup extra

LEMMA InsertIntoQueue ==
  ASSUME NEW T, Keyed(T), NEW frame, frame.frame_id \in Nat,
         NEW items, QueueOf(T, frame.frame_id, items),
         NEW d, d # NoDetection => Sets!RecordOf(frame, d) \in T
  PROVE  /\ QueueOf(T, frame.frame_id + 1, Insert(items, frame, d))
         /\ Adds(Insert(items, frame, d), items, VecRecordFrom(frame, d))
<1> DEFINE new == Insert(items, frame, d)
<1>1. /\ items \in Seq(T) /\ QueueInOrder(items)
      /\ \A r \in ToSet(items) : r.frame_id < frame.frame_id
  BY DEF QueueOf
<1>2. /\ new \in Seq(T) /\ QueueInOrder(new)
      /\ ToSet(new) = ToSet(items) \cup VecRecordFrom(frame, d)
  <2>1. CASE d = NoDetection
    BY <2>1, <1>1 DEF Insert, VecRecordFrom, Sets!RecordFrom
  <2>2. CASE d # NoDetection
    <3> DEFINE r == Sets!RecordOf(frame, d)
               p == PartitionPoint(items, r.detection.sigma_key)
    <3>1. r \in T /\ r.frame_id = frame.frame_id /\ r.detection = d
      BY <2>2 DEF Sets!RecordOf
    <3>2. VecRecordFrom(frame, d) = {r}
      BY <2>2 DEF VecRecordFrom, Sets!RecordFrom
    <3>3. Insert(items, frame, d) = InsertAt(items, p + 1, r)
      BY <2>2, <3>1 DEF Insert
    <3> HIDE DEF r
    <3>4. \A i \in DOMAIN items : items[i].frame_id < r.frame_id
      BY <3>1, <1>1 DEF ToSet
    <3>5. QueueInOrder(InsertAt(items, p + 1, r))
      BY <3>1, <3>4, <1>1, InsertKeepsOrder
    <3>6. p \in 0 .. Len(items)
      <4>1. r.detection.sigma_key \in Nat
        BY <3>1 DEF Keyed
      <4>2. QED
        BY <4>1, <1>1, PartitionPointSplits
    <3> HIDE DEF p
    <3>7. InsertAt(items, p + 1, r) \in Seq(T)
      BY <3>1, <3>6, <1>1, InsertAtPlaces
    <3>8. ToSet(InsertAt(items, p + 1, r)) = ToSet(items) \cup {r}
      BY <3>1, <3>6, <1>1, InsertAtPlaces
    <3>9. QED
      BY <3>2, <3>3, <3>5, <3>7, <3>8
  <2>3. QED
    BY <2>1, <2>2
<1>3. \A r \in VecRecordFrom(frame, d) : r.frame_id = frame.frame_id
  BY DEF VecRecordFrom, Sets!RecordFrom, Sets!RecordOf
<1>4. \A r \in ToSet(items) : r.frame_id \in Nat
  <2>1. \A i \in DOMAIN items : items[i] \in T
    BY <1>1, LenProperties, ElementOfSeq
  <2>2. QED
    BY <2>1 DEF ToSet, Keyed
<1> HIDE DEF new
<1>5. \A r \in ToSet(new) : r.frame_id < frame.frame_id + 1
  BY <1>1, <1>2, <1>3, <1>4
<1>6. QED
  BY <1>2, <1>5 DEF QueueOf, Adds, new

-----------------------------------------------------------------------------
(* The ring.                                                               *)

RingInOrder(v) ==
  \A i, j \in DOMAIN v : i < j => v[i].frame_id < v[j].frame_id

\* v is a ring in order, all of frames before id.
RingOf(id, v) ==
  /\ v \in Seq(Sets!RingFrame) /\ RingInOrder(v)
  /\ \A f \in ToSet(v) : f.frame_id < id

\* A ring in the order of ids has as many frames as places, and the oldest
\* one is the first.
LEMMA FirstIsOldest ==
  ASSUME NEW v \in Seq(Sets!RingFrame), RingInOrder(v)
  PROVE  /\ IsFiniteSet(ToSet(v)) /\ Cardinality(ToSet(v)) = Len(v)
         /\ v # <<>> => {f \in ToSet(v) : Sets!IsOldest(ToSet(v), f)} = {v[1]}
<1>1. /\ Len(v) \in Nat /\ DOMAIN v = 1 .. Len(v)
      /\ \A i \in 1 .. Len(v) : v[i] \in Sets!RingFrame
  BY LenProperties, ElementOfSeq
<1>2. \A i \in 1 .. Len(v) : v[i].frame_id \in Nat
  BY <1>1 DEF Sets!RingFrame, Sets!FrameId
<1>3. ASSUME NEW i \in 1 .. Len(v), NEW j \in 1 .. Len(v), v[i] = v[j]
      PROVE  i = j
  <2>1. ~ (i < j) /\ ~ (j < i)
    BY <1>1, <1>2, <1>3 DEF RingInOrder
  <2>2. QED
    BY <2>1
<1>4. v \in [1 .. Len(v) -> ToSet(v)]
  BY LenProperties DEF ToSet
<1>5. v \in Bijection(1 .. Len(v), ToSet(v))
  <2>1. \A a, b \in 1 .. Len(v) : v[a] = v[b] => a = b
    BY <1>3
  <2>2. \A f \in ToSet(v) : \E i \in 1 .. Len(v) : v[i] = f
    BY <1>1 DEF ToSet
  <2>3. QED
    BY <1>4, <2>1, <2>2 DEF Bijection, Injection, Surjection, IsInjective
<1>6. ExistsBijection(1 .. Len(v), ToSet(v))
  BY <1>5 DEF ExistsBijection
<1>7. IsFiniteSet(ToSet(v)) /\ Cardinality(ToSet(v)) = Len(v)
  BY <1>1, <1>6, FS_NatBijection, FS_CountingElements
<1>8. ASSUME v # <<>>
      PROVE  {f \in ToSet(v) : Sets!IsOldest(ToSet(v), f)} = {v[1]}
  <2>1. 1 \in 1 .. Len(v)
    BY <1>8, <1>1, EmptySeq
  <2>2. v[1] \in ToSet(v)
    BY <2>1, <1>1 DEF ToSet
  <2>3. \A i \in 1 .. Len(v) : i # 1 => v[1].frame_id < v[i].frame_id
    BY <2>1, <1>1 DEF RingInOrder
  <2>4. Sets!IsOldest(ToSet(v), v[1])
    BY <2>1, <2>2, <2>3, <1>1, <1>2 DEF Sets!IsOldest, ToSet
  <2>5. ASSUME NEW f \in ToSet(v), Sets!IsOldest(ToSet(v), f)
        PROVE  f = v[1]
    <3>1. PICK i \in 1 .. Len(v) : f = v[i]
      BY <1>1 DEF ToSet
    <3>2. v[i].frame_id <= v[1].frame_id
      BY <2>2, <2>5, <3>1 DEF Sets!IsOldest
    <3>3. i = 1
      BY <2>1, <2>3, <3>2, <1>2
    <3>4. QED
      BY <3>1, <3>3
  <2>6. QED
    BY <2>2, <2>4, <2>5
<1>9. QED
  BY <1>7, <1>8

-----------------------------------------------------------------------------
(* The invariant and the refinement.                                       *)

\* What the Vecs stand for: the storage of Sets.
Mapped == [ring      |-> ToSet(ring),
           body_q    |-> ToSet(body_items),
           horizon_q |-> ToSet(horizon_items)]

VecInv ==
  /\ vec_frame_id \in Nat
  /\ RingOf(vec_frame_id, ring)
  /\ QueueOf(Sets!BodyRecord, vec_frame_id, body_items)
  /\ QueueOf(Sets!HorizonRecord, vec_frame_id, horizon_items)

\* The ring at its capacity gives up its first frame, and that is the frame
\* Storage forces out.
LEMMA ForcedOutIsFirst ==
  ASSUME ring \in Seq(Sets!RingFrame), RingInOrder(ring)
  PROVE  /\ Len(ring) >= Sets!Capacity => ring # <<>> /\ Sets!ForcedOut(Mapped) = {ring[1]}
         /\ ~ (Len(ring) >= Sets!Capacity) => Sets!ForcedOut(Mapped) = {}
<1>1. Sets!Capacity \in Nat /\ Sets!Capacity >= 1
  BY VecConstants DEF Sets!Capacity
<1>2. Cardinality(ToSet(ring)) = Len(ring)
      /\ (ring # <<>> => {f \in ToSet(ring) : Sets!IsOldest(ToSet(ring), f)} = {ring[1]})
  BY FirstIsOldest
<1>3. Mapped.ring = ToSet(ring)
  BY DEF Mapped
<1>4. Len(ring) >= Sets!Capacity => ring # <<>>
  BY <1>1, EmptySeq
<1>5. Sets!ForcedOut(Mapped) = IF Cardinality(ToSet(ring)) >= Sets!Capacity
                            THEN {f \in ToSet(ring) : Sets!IsOldest(ToSet(ring), f)}
                            ELSE {}
  <2>1. Sets!Cardinality(ToSet(ring)) = Cardinality(ToSet(ring))
    BY DEF Sets!Cardinality, Cardinality
  <2>2. QED
    BY <2>1, <1>3, Zenon DEF Sets!ForcedOut
<1>6. QED
  BY <1>2, <1>4, <1>5

LEMMA AdmittedMaps ==
  ASSUME VecInv, NEW tt \in VecTimes
  PROVE  /\ RingOf(vec_frame_id + 1, Admitted(ring, Sets!NewFrame(tt)))
         /\ Admitted(ring, Sets!NewFrame(tt)) # <<>>
         /\ ToSet(Admitted(ring, Sets!NewFrame(tt)))
              = (ToSet(ring) \ Sets!ForcedOut(Mapped)) \cup {Sets!NewFrame(tt)}
<1> DEFINE n == Sets!NewFrame(tt)
           rest == IF Len(ring) >= Sets!Capacity THEN Tail(ring) ELSE ring
<1>1. /\ ring \in Seq(Sets!RingFrame) /\ RingInOrder(ring)
      /\ \A f \in ToSet(ring) : f.frame_id < vec_frame_id
  BY DEF VecInv, RingOf
<1>2. n \in Sets!RingFrame /\ n.frame_id = vec_frame_id
  BY DEF VecInv, Sets!NewFrame, Sets!RingFrame, Sets!FrameId
<1>3. Len(ring) \in Nat /\ DOMAIN ring = 1 .. Len(ring)
  BY <1>1, LenProperties
<1>4. /\ Len(ring) >= Sets!Capacity => ring # <<>> /\ Sets!ForcedOut(Mapped) = {ring[1]}
      /\ ~ (Len(ring) >= Sets!Capacity) => Sets!ForcedOut(Mapped) = {}
  BY <1>1, ForcedOutIsFirst
<1>5. /\ rest \in Seq(Sets!RingFrame) /\ RingInOrder(rest)
      /\ ToSet(rest) = ToSet(ring) \ Sets!ForcedOut(Mapped)
  <2>1. CASE Len(ring) >= Sets!Capacity
    <3>1. ring # <<>> /\ Len(ring) >= 1
      BY <2>1, <1>1, <1>4, EmptySeq
    <3>2. /\ Tail(ring) \in Seq(Sets!RingFrame) /\ Len(Tail(ring)) = Len(ring) - 1
          /\ \A i \in 1 .. Len(Tail(ring)) : Tail(ring)[i] = ring[i + 1]
      BY <3>1, <1>1, HeadTailProperties
    <3>3. DOMAIN Tail(ring) = 1 .. Len(ring) - 1
      BY <3>2, LenProperties
    <3>4. \A i \in 1 .. Len(ring) - 1 : Tail(ring)[i] = ring[i + 1] /\ i + 1 \in 1 .. Len(ring)
      BY <3>2, <1>3
    <3>5. RingInOrder(Tail(ring))
      BY <3>3, <3>4, <1>1, <1>3 DEF RingInOrder
    <3>6. ToSet(Tail(ring)) = {ring[i] : i \in 2 .. Len(ring)}
      <4>1. \A i \in 2 .. Len(ring) : i - 1 \in 1 .. Len(ring) - 1 /\ Tail(ring)[i - 1] = ring[i]
        BY <3>4, <1>3
      <4>2. \A i \in 1 .. Len(ring) - 1 : i + 1 \in 2 .. Len(ring)
        BY <1>3
      <4>3. QED
        <5>1. ToSet(Tail(ring)) = {ring[i + 1] : i \in 1 .. Len(ring) - 1}
          BY <3>3, <3>4 DEF ToSet
        <5>2. \A i \in 2 .. Len(ring) : ring[(i - 1) + 1] = ring[i]
          BY <4>1, <3>4
        <5>3. QED
          BY <4>1, <4>2, <5>1, <5>2
    <3>7. \A i \in 2 .. Len(ring) : ring[i] # ring[1] /\ i \in 1 .. Len(ring)
      <4>1. \A i \in 1 .. Len(ring) : ring[i].frame_id \in Nat
        <5>1. \A i \in 1 .. Len(ring) : ring[i] \in Sets!RingFrame
          BY <1>1, ElementOfSeq
        <5>2. QED
          BY <5>1 DEF Sets!RingFrame, Sets!FrameId
      <4>2. 1 \in 1 .. Len(ring)
        BY <3>1, <1>3
      <4>3. \A i \in 2 .. Len(ring) : i \in 1 .. Len(ring) /\ 1 < i
        BY <1>3
      <4>4. \A i \in 2 .. Len(ring) : ring[1].frame_id < ring[i].frame_id
        BY <4>2, <4>3, <1>1, <1>3 DEF RingInOrder
      <4>5. QED
        BY <4>1, <4>2, <4>3, <4>4
    <3>8. ToSet(ring) = {ring[i] : i \in 2 .. Len(ring)} \cup {ring[1]}
      <4>1. \A i \in 1 .. Len(ring) : i = 1 \/ i \in 2 .. Len(ring)
        BY <1>3
      <4>2. 1 \in 1 .. Len(ring)
        BY <3>1, <1>3
      <4>3. QED
        BY <4>1, <4>2, <3>7, <1>3 DEF ToSet
    <3>9. ToSet(Tail(ring)) = ToSet(ring) \ {ring[1]}
      BY <3>6, <3>7, <3>8
    <3>10. QED
      BY <2>1, <3>2, <3>5, <3>9, <1>4
  <2>2. CASE ~ (Len(ring) >= Sets!Capacity)
    BY <2>2, <1>1, <1>4
  <2>3. QED
    BY <2>1, <2>2
<1> DEFINE new == Append(rest, n)
<1>6. Admitted(ring, n) = new
  BY DEF Admitted
<1> HIDE DEF rest, n
<1>7. Len(rest) \in Nat /\ DOMAIN rest = 1 .. Len(rest)
  BY <1>5, LenProperties
<1>8. /\ new \in Seq(Sets!RingFrame) /\ new # <<>> /\ Len(new) = Len(rest) + 1
      /\ \A i \in 1 .. Len(rest) : new[i] = rest[i]
      /\ new[Len(rest) + 1] = n
  BY <1>2, <1>5, AppendProperties
<1> HIDE DEF new
<1>9. DOMAIN new = 1 .. Len(rest) + 1
  BY <1>8, LenProperties
<1>10. \A i \in 1 .. Len(rest) + 1 : i \in 1 .. Len(rest) \/ i = Len(rest) + 1
  BY <1>7
<1>11. ToSet(new) = ToSet(rest) \cup {n}
  <2>1. 1 .. Len(rest) \subseteq 1 .. Len(rest) + 1 /\ Len(rest) + 1 \in 1 .. Len(rest) + 1
    BY <1>7
  <2>2. QED
    BY <2>1, <1>7, <1>8, <1>9, <1>10 DEF ToSet
<1>12. RingInOrder(new)
  <2>1. \A i \in 1 .. Len(rest) : rest[i].frame_id < n.frame_id
    BY <1>1, <1>2, <1>5, <1>7 DEF ToSet
  <2> SUFFICES ASSUME NEW i \in DOMAIN new, NEW j \in DOMAIN new, i < j
               PROVE  new[i].frame_id < new[j].frame_id
    BY DEF RingInOrder
  <2>2. i \in 1 .. Len(rest)
    BY <1>7, <1>9
  <2>3. CASE j \in 1 .. Len(rest)
    BY <2>2, <2>3, <1>5, <1>7, <1>8 DEF RingInOrder
  <2>4. CASE j = Len(rest) + 1
    BY <2>1, <2>2, <2>4, <1>8
  <2>5. QED
    BY <2>3, <2>4, <1>9, <1>10
<1>13. \A f \in ToSet(new) : f.frame_id < vec_frame_id + 1
  <2>1. vec_frame_id \in Nat /\ \A f \in ToSet(ring) : f.frame_id \in Nat
    <3>1. \A i \in DOMAIN ring : ring[i] \in Sets!RingFrame
      BY <1>1, LenProperties, ElementOfSeq
    <3>2. QED
      BY <3>1 DEF ToSet, Sets!RingFrame, Sets!FrameId, VecInv
  <2>2. QED
    BY <2>1, <1>1, <1>2, <1>5, <1>11
<1>14. QED
  BY <1>5, <1>6, <1>8, <1>11, <1>12, <1>13 DEF n, RingOf

\* The records drop_records_for leaves are those Storage leaves.
LEMMA RemainingMaps ==
  ASSUME ring \in Seq(Sets!RingFrame), RingInOrder(ring),
         NEW T, NEW id, NEW items, QueueOf(T, id, items)
  PROVE  /\ QueueOf(T, id, Remaining(items))
         /\ ToSet(Remaining(items))
              = VecDropRecordsFor(ToSet(items), {f.frame_id : f \in Sets!ForcedOut(Mapped)})
<1> DEFINE keep == {r \in ToSet(items) : r.frame_id # ring[1].frame_id}
<1>0. /\ items \in Seq(T) /\ QueueInOrder(items)
      /\ \A r \in ToSet(items) : r.frame_id < id
  BY DEF QueueOf
<1>1. CASE Len(ring) >= Sets!Capacity
  <2>1. Remaining(items) = Retained(items, keep)
    BY <1>1 DEF Remaining
  <2>2. Sets!ForcedOut(Mapped) = {ring[1]}
    BY <1>1, ForcedOutIsFirst
  <2>3. VecDropRecordsFor(ToSet(items), {f.frame_id : f \in Sets!ForcedOut(Mapped)}) = keep
    BY <2>2 DEF VecDropRecordsFor, Sets!DropRecordsFor
  <2>4. Retained(items, keep) \in Seq(T)
        /\ ToSet(Retained(items, keep)) = {x \in ToSet(items) : x \in keep}
    <3> HIDE DEF keep
    <3> QED BY <1>0, RetainedKeepsOrder
  <2>5. QueueInOrder(Retained(items, keep))
    <3> HIDE DEF keep
    <3> QED BY <1>0, RetainedStaysInOrder
  <2>6. QED
    BY <2>1, <2>3, <2>4, <2>5, <1>0 DEF QueueOf
<1>2. CASE ~ (Len(ring) >= Sets!Capacity)
  <2>1. Remaining(items) = items
    BY <1>2 DEF Remaining
  <2>2. Sets!ForcedOut(Mapped) = {}
    BY <1>2, ForcedOutIsFirst
  <2>3. QED
    BY <2>1, <2>2 DEF VecDropRecordsFor, Sets!DropRecordsFor
<1>3. QED
  BY <1>1, <1>2

\* The frames evict keeps are those Storage keeps, in their order: the newest
\* capture time it computes is the one Storage says there is.
LEMMA KeptMaps ==
  ASSUME NEW id, NEW v, RingOf(id, v), v # <<>>, NEW bodies, NEW horizons
  PROVE  /\ RingOf(id, KeptFrames(v, bodies, horizons))
         /\ ToSet(KeptFrames(v, bodies, horizons))
              = RingAfterEvict([ring |-> ToSet(v), body_q |-> ToSet(bodies),
                                horizon_q |-> ToSet(horizons)])
<1> DEFINE s == [ring |-> ToSet(v), body_q |-> ToSet(bodies),
                 horizon_q |-> ToSet(horizons)]
           records == ToSet(bodies) \cup ToSet(horizons)
           tts == {f.frame_tt : f \in ToSet(v)}
           newest == CHOOSE t \in tts : \A f \in ToSet(v) : f.frame_tt <= t
           keep == {f \in ToSet(v) :
                      \/ f.frame_id \in {r.frame_id : r \in records}
                      \/ \E r \in records : Sets!Gap(r.frame_tt, f.frame_tt) <= StitchingWindow
                      \/ Sets!Gap(newest, f.frame_tt) <= StitchingWindow}
           new == KeptFrames(v, bodies, horizons)
<1>0. /\ v \in Seq(Sets!RingFrame) /\ RingInOrder(v)
      /\ \A f \in ToSet(v) : f.frame_id < id
  BY DEF RingOf
<1>1. new = Retained(v, keep)
  BY DEF KeptFrames
<1>2. /\ Len(v) \in Nat /\ Len(v) # 0 /\ DOMAIN v = 1 .. Len(v)
      /\ \A i \in 1 .. Len(v) : v[i] \in Sets!RingFrame
  BY <1>0, LenProperties, ElementOfSeq, EmptySeq
<1>3. \A f \in ToSet(v) : f.frame_tt \in Int
  BY <1>2, VecConstants DEF ToSet, Sets!RingFrame
<1>4. newest \in tts /\ \A f \in ToSet(v) : f.frame_tt <= newest
  <2>1. tts \in SUBSET Int
    BY <1>3
  <2>2. IsFiniteSet(tts)
    <3>1. IsFiniteSet(ToSet(v))
      BY <1>0, FirstIsOldest
    <3> DEFINE tt == [f \in ToSet(v) |-> f.frame_tt]
    <3>2. tt \in Surjection(ToSet(v), tts)
      BY DEF Surjection
    <3>3. QED
      BY <3>1, <3>2, FS_Surjection
  <2>3. tts # {}
    <3>1. 1 \in DOMAIN v
      BY <1>2
    <3>2. QED
      BY <3>1 DEF ToSet
  <2>4. \E m \in tts : \A x \in tts : x <= m
    <3> HIDE DEF tts
    <3> QED BY <2>1, <2>2, <2>3, GreatestOfFinite
  <2>5. \E t \in tts : \A f \in ToSet(v) : f.frame_tt <= t
    BY <2>4
  <2> HIDE DEF tts
  <2>6. QED
    BY <2>5
<1> HIDE DEF newest
<1>5. \A f \in ToSet(v) :
        Sets!ProtectedByRecency(s, f) <=> Sets!Gap(newest, f.frame_tt) <= StitchingWindow
  <2>1. PICK top \in ToSet(v) : top.frame_tt = newest
    BY <1>4
  <2>2. ASSUME NEW m \in ToSet(v), \A g \in ToSet(v) : m.frame_tt >= g.frame_tt
        PROVE  m.frame_tt = newest
    BY <2>1, <2>2, <1>3, <1>4
  <2>3. \A g \in ToSet(v) : top.frame_tt >= g.frame_tt
    BY <2>1, <1>3, <1>4
  <2>4. s.ring = ToSet(v)
    OBVIOUS
  <2>5. ASSUME NEW f \in ToSet(v)
        PROVE  Sets!ProtectedByRecency(s, f)
                 <=> \E m \in ToSet(v) :
                       /\ \A g \in ToSet(v) : m.frame_tt >= g.frame_tt
                       /\ Sets!Gap(m.frame_tt, f.frame_tt) <= StitchingWindow
    BY <2>4 DEF Sets!ProtectedByRecency
  <2>6. QED
    BY <2>1, <2>2, <2>3, <2>5, Zenon
<1>6. Sets!Records(s) = records
  BY DEF Sets!Records
<1>7. RingAfterEvict(s) = {f \in ToSet(v) : \/ Sets!ProtectedByRecord(s, f)
                                          \/ Sets!ProtectedByQueueWindow(s, f)
                                          \/ Sets!ProtectedByRecency(s, f)}
  BY DEF RingAfterEvict, Sets!Evict
<1>8. RingAfterEvict(s) = keep
  <2> HIDE DEF records
  <2>1. \A f \in ToSet(v) :
          Sets!ProtectedByRecord(s, f) <=> f.frame_id \in {r.frame_id : r \in records}
    BY <1>6 DEF Sets!ProtectedByRecord
  <2>2. \A f \in ToSet(v) :
          Sets!ProtectedByQueueWindow(s, f)
            <=> \E r \in records : Sets!Gap(r.frame_tt, f.frame_tt) <= StitchingWindow
    BY <1>6 DEF Sets!ProtectedByQueueWindow
  <2>3. QED
    BY <2>1, <2>2, <1>5, <1>7
<1> HIDE DEF keep
<1>9. new \in Seq(Sets!RingFrame) /\ ToSet(new) = {x \in ToSet(v) : x \in keep}
  BY <1>0, <1>1, RetainedKeepsOrder
<1>10. keep \subseteq ToSet(v)
  BY DEF keep
<1>11. RingInOrder(new)
  <2>1. PICK from \in [1 .. Len(new) -> 1 .. Len(v)] :
          /\ \A n \in 1 .. Len(new) : new[n] = v[from[n]]
          /\ \A m, n \in 1 .. Len(new) : m < n => from[m] < from[n]
    BY <1>0, <1>1, RetainedKeepsOrder
  <2>2. DOMAIN new = 1 .. Len(new)
    BY <1>9, LenProperties
  <2> HIDE DEF new
  <2>3. QED
    BY <2>1, <2>2, <1>0, <1>2 DEF RingInOrder
<1>12. QED
  BY <1>0, <1>8, <1>9, <1>10, <1>11 DEF RingOf

\* The storage StorageAfter evicts from, and what it leaves.
AfterRecords(tt, body, horizon) ==
  LET out == {f.frame_id : f \in Sets!ForcedOut(Mapped)}
  IN [ring      |-> (Mapped.ring \ Sets!ForcedOut(Mapped)) \cup {Sets!NewFrame(tt)},
      body_q    |-> VecDropRecordsFor(Mapped.body_q, out)
                      \cup VecRecordFrom(Sets!NewFrame(tt), body),
      horizon_q |-> VecDropRecordsFor(Mapped.horizon_q, out)
                      \cup VecRecordFrom(Sets!NewFrame(tt), horizon)]

LEMMA AbstractPush ==
  ASSUME NEW tt, NEW body, NEW horizon
  PROVE  Sets!StorageAfter(tt, body, horizon)
           = [ring      |-> RingAfterEvict(AfterRecords(tt, body, horizon)),
              body_q    |-> AfterRecords(tt, body, horizon).body_q,
              horizon_q |-> AfterRecords(tt, body, horizon).horizon_q]
<1> DEFINE s1 == Sets!AdmitPyramid(Mapped, Sets!NewFrame(tt))
           s2 == Sets!AdmitRecords(s1, Sets!NewFrame(tt), body, horizon)
<1>1. s2 = AfterRecords(tt, body, horizon)
  BY DEF Sets!AdmitPyramid, Sets!AdmitRecords, AfterRecords, VecDropRecordsFor, VecRecordFrom
<1>2. Sets!StorageAfter(tt, body, horizon) = Sets!Evict(s2)
  BY DEF Sets!StorageAfter, Mapped
<1> HIDE DEF s1, s2
<1>3. PICK k : Sets!Evict(s2) = [s2 EXCEPT !.ring = k]
  BY DEF Sets!Evict
<1>4. \A a, b, h : [[ring |-> a, body_q |-> b, horizon_q |-> h] EXCEPT !.ring = k]
                    = [ring |-> k, body_q |-> b, horizon_q |-> h]
  OBVIOUS
<1>5. \E a, b, h : s2 = [ring |-> a, body_q |-> b, horizon_q |-> h]
  BY <1>1 DEF AfterRecords
<1>6. Sets!Evict(s2) = [ring |-> k, body_q |-> s2.body_q, horizon_q |-> s2.horizon_q]
  BY <1>3, <1>4, <1>5
<1>7. RingAfterEvict(s2) = k
  BY <1>6 DEF RingAfterEvict
<1>8. QED
  BY <1>1, <1>2, <1>6, <1>7

\* A record of the new frame is a record of its queue.
LEMMA NewRecordsAreRecords ==
  ASSUME VecInv, NEW tt \in VecTimes
  PROVE  /\ \A d \in VecBodyDetections : Sets!RecordOf(Sets!NewFrame(tt), d) \in Sets!BodyRecord
         /\ \A d \in VecHorizonDetections : Sets!RecordOf(Sets!NewFrame(tt), d) \in Sets!HorizonRecord
         /\ Keyed(Sets!BodyRecord) /\ Keyed(Sets!HorizonRecord)
  BY VecConstants DEF VecInv, Sets!NewFrame, Sets!RecordOf, Sets!BodyRecord,
     Sets!HorizonRecord, Sets!FrameId, Keyed

\* What VPushFrame leaves in a queue.
LEMMA QueueAfterPush ==
  ASSUME VecInv, NEW tt \in VecTimes,
         NEW T, Keyed(T), NEW items, QueueOf(T, vec_frame_id, items),
         NEW d, d # NoDetection => Sets!RecordOf(Sets!NewFrame(tt), d) \in T
  PROVE  /\ QueueOf(T, vec_frame_id + 1, Insert(Remaining(items), Sets!NewFrame(tt), d))
         /\ ToSet(Insert(Remaining(items), Sets!NewFrame(tt), d))
              = VecDropRecordsFor(ToSet(items), {f.frame_id : f \in Sets!ForcedOut(Mapped)})
                  \cup VecRecordFrom(Sets!NewFrame(tt), d)
<1> DEFINE rest == Remaining(items)
           n == Sets!NewFrame(tt)
           new == Insert(rest, n, d)
<1>1. vec_frame_id \in Nat /\ n.frame_id = vec_frame_id
  BY DEF VecInv, Sets!NewFrame
<1>2. /\ QueueOf(T, n.frame_id, rest)
      /\ ToSet(rest) = VecDropRecordsFor(ToSet(items), {f.frame_id : f \in Sets!ForcedOut(Mapped)})
  BY <1>1, RemainingMaps DEF VecInv, RingOf
<1>3. d # NoDetection => Sets!RecordOf(n, d) \in T
  OBVIOUS
<1> HIDE DEF rest, n
<1>4. QueueOf(T, n.frame_id + 1, new) /\ Adds(new, rest, VecRecordFrom(n, d))
  BY <1>1, <1>2, <1>3, InsertIntoQueue
<1>5. QED
  BY <1>1, <1>2, <1>4 DEF Adds, rest, n

LEMMA PushRefines ==
  ASSUME VecInv,
         NEW tt \in VecTimes,
         NEW body \in VecBodyDetections \cup {NoDetection},
         NEW horizon \in VecHorizonDetections \cup {NoDetection},
         VPushFrame(tt, body, horizon)
  PROVE  VecInv' /\ Sets!PushFrame(tt, body, horizon)
<1> DEFINE n == Sets!NewFrame(tt)
           v == Admitted(ring, n)
           s == AfterRecords(tt, body, horizon)
<1>1. /\ Sets!MayCapture(tt) /\ vec_frame_id' = vec_frame_id + 1
      /\ body_items' = Insert(Remaining(body_items), n, body)
      /\ horizon_items' = Insert(Remaining(horizon_items), n, horizon)
      /\ ring' = KeptFrames(v, body_items', horizon_items')
  BY DEF VPushFrame
<1>2. /\ QueueOf(Sets!BodyRecord, vec_frame_id + 1, body_items')
      /\ ToSet(body_items') = s.body_q
  <2>1. body # NoDetection => Sets!RecordOf(n, body) \in Sets!BodyRecord
    BY NewRecordsAreRecords
  <2>2. Keyed(Sets!BodyRecord) /\ QueueOf(Sets!BodyRecord, vec_frame_id, body_items)
    BY NewRecordsAreRecords DEF VecInv
  <2>3. Mapped.body_q = ToSet(body_items)
    BY DEF Mapped
  <2>4. QED
    BY <2>1, <2>2, <2>3, <1>1, QueueAfterPush DEF AfterRecords
<1>3. /\ QueueOf(Sets!HorizonRecord, vec_frame_id + 1, horizon_items')
      /\ ToSet(horizon_items') = s.horizon_q
  <2>1. horizon # NoDetection => Sets!RecordOf(n, horizon) \in Sets!HorizonRecord
    BY NewRecordsAreRecords
  <2>2. Keyed(Sets!HorizonRecord) /\ QueueOf(Sets!HorizonRecord, vec_frame_id, horizon_items)
    BY NewRecordsAreRecords DEF VecInv
  <2>3. Mapped.horizon_q = ToSet(horizon_items)
    BY DEF Mapped
  <2>4. QED
    BY <2>1, <2>2, <2>3, <1>1, QueueAfterPush DEF AfterRecords
<1>4. RingOf(vec_frame_id + 1, v) /\ v # <<>> /\ ToSet(v) = s.ring
  <2>1. Mapped.ring = ToSet(ring)
    BY DEF Mapped
  <2>2. QED
    BY <2>1, AdmittedMaps DEF AfterRecords
<1> HIDE DEF n, v
<1>5. s = [ring |-> ToSet(v), body_q |-> ToSet(body_items'),
           horizon_q |-> ToSet(horizon_items')]
  <2>1. s = [ring |-> s.ring, body_q |-> s.body_q, horizon_q |-> s.horizon_q]
    BY DEF AfterRecords
  <2> HIDE DEF s
  <2>2. QED
    BY <2>1, <1>2, <1>3, <1>4
<1> HIDE DEF s
<1>6. RingOf(vec_frame_id + 1, ring') /\ ToSet(ring') = RingAfterEvict(s)
  BY <1>1, <1>4, <1>5, KeptMaps
<1>7. Sets!StorageAfter(tt, body, horizon)
        = [ring |-> ToSet(ring'), body_q |-> ToSet(body_items'),
           horizon_q |-> ToSet(horizon_items')]
  BY <1>2, <1>3, <1>6, AbstractPush DEF s
<1>8. Sets!PushFrame(tt, body, horizon)
  BY <1>1, <1>7 DEF Sets!PushFrame
<1>9. VecInv'
  <2>1. (vec_frame_id + 1) \in Nat
    BY DEF VecInv
  <2>2. QED
    BY <2>1, <1>1, <1>2, <1>3, <1>6
    DEF VecInv, RingOf, QueueOf, RingInOrder, QueueInOrder, Sets!Precedes,
        Sets!RingFrame, Sets!BodyRecord, Sets!HorizonRecord
<1>10. QED
  BY <1>8, <1>9

LEMMA InitVecInv == VInit => VecInv /\ Sets!Init
<1> SUFFICES ASSUME VInit PROVE VecInv /\ Sets!Init
  OBVIOUS
<1>1. ring = <<>> /\ body_items = <<>> /\ horizon_items = <<>> /\ vec_frame_id = 0
  BY DEF VInit
<1>2. DOMAIN <<>> = {}
  OBVIOUS
<1>3. ToSet(ring) = {} /\ ToSet(body_items) = {} /\ ToSet(horizon_items) = {}
  BY <1>1, <1>2 DEF ToSet
<1>4. VecInv
  BY <1>1, <1>2, <1>3, EmptySeq
  DEF VecInv, RingOf, QueueOf, RingInOrder, QueueInOrder
<1>5. Sets!Init
  BY <1>1, <1>3 DEF Sets!Init, Sets!EmptyStorage
<1>6. QED
  BY <1>4, <1>5

LEMMA StepRefines == VecInv /\ [VNext]_vvars => VecInv' /\ [Sets!Next]_Sets!vars
<1> SUFFICES ASSUME VecInv, [VNext]_vvars PROVE VecInv' /\ [Sets!Next]_Sets!vars
  OBVIOUS
<1>1. CASE VNext
  <2>1. PICK tt \in VecTimes, body \in VecBodyDetections \cup {NoDetection},
             horizon \in VecHorizonDetections \cup {NoDetection} :
          VPushFrame(tt, body, horizon)
    BY <1>1 DEF VNext
  <2>2. VecInv' /\ Sets!PushFrame(tt, body, horizon)
    BY <2>1, PushRefines
  <2>3. Sets!Next
    BY <2>2 DEF Sets!Next
  <2>4. QED
    BY <2>2, <2>3
<1>2. CASE UNCHANGED vvars
  <2>1. VecInv'
    BY <1>2 DEF vvars, VecInv, RingOf, QueueOf, RingInOrder, QueueInOrder, Sets!Precedes,
       Sets!RingFrame, Sets!BodyRecord, Sets!HorizonRecord
  <2>2. UNCHANGED Sets!vars
    BY <1>2 DEF vvars, Sets!vars
  <2>3. QED
    BY <2>1, <2>2
<1>3. QED
  BY <1>1, <1>2

-----------------------------------------------------------------------------
(* The theorems.                                                           *)

\* Whatever is pushed and whatever falls out, each queue is in the order Stage
\* E iterates by: ascending sigma, ties in the order of insertion, no record
\* twice (queue.rs:257-264, 537-540).
THEOREM QueuesStayInOrder == VSpec => []QueuesInOrder
<1>1. VecInv => QueuesInOrder
  BY DEF VecInv, QueueOf, QueuesInOrder, QueueInOrder
<1>2. QED
  BY <1>1, InitVecInv, StepRefines, PTL DEF VSpec

\* The Vecs implement Storage: every push does to their elements what Storage
\* does to its sets, for every capacity and window.
THEOREM VecImplementsStorage == VSpec => ImplementsStorage
<1>1. VInit => Sets!Init
  BY InitVecInv
<1>2. QED
  BY <1>1, InitVecInv, StepRefines, PTL DEF VSpec, ImplementsStorage, Sets!Spec

=============================================================================
