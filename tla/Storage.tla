------------------------------ MODULE Storage ------------------------------
(***************************************************************************)
(* Stage E storage of the streaming engine: the ring buffer of raw frames  *)
(* and the two queues of detection records that refer to those frames      *)
(* (bris-streaming/src/pipeline/queue.rs).                                  *)
(*                                                                         *)
(* The ring is a set of frames: the Vec of the code is in insertion order, *)
(* frame ids are handed out in increasing order under the engine's lock,   *)
(* so the first element of the Vec is the frame with the least id.  A      *)
(* queue is a set of records: the Vec of the code is sorted by sigma,      *)
(* equal keys in insertion order, which is the order Precedes below.  The   *)
(* module StorageVec has the Vecs, and implements this module.              *)
(* Pixels are left out.  A detection is an opaque value: the queues look    *)
(* only at its sigma_key and the later stages at its kind.  Times are       *)
(* integers (one unit is one step of the stitching window's scale).         *)
(***************************************************************************)
EXTENDS StorageParameters, Integers, FiniteSets

CONSTANTS
  Times,              \* the capture times (TT) a frame can carry
  BodyDetections,     \* detections Stage B/D can hand over, with a sigma_key
  HorizonDetections,  \* detections Stage C can hand over, with a sigma_key
  CaptureInOrder,     \* TRUE iff the caller pushes frames in capture order
  MaxFrames           \* bound: frames pushed in one behaviour

ASSUME StorageConstants ==
  /\ InputRingCapacity \in Nat
  /\ StitchingWindow \in Nat
  /\ Times \subseteq Int
  /\ \A d \in BodyDetections \cup HorizonDetections : d.sigma_key \in Nat
  /\ NoDetection \notin BodyDetections \cup HorizonDetections
  /\ CaptureInOrder \in BOOLEAN
  /\ MaxFrames \in Nat

VARIABLES
  storage,        \* [ring, body_q, horizon_q]
  next_frame_id   \* EngineState::next_frame_id

FrameId == Nat
RingFrame == [frame_id : FrameId, frame_tt : Times]
BodyRecord == [frame_id : FrameId, frame_tt : Times, detection : BodyDetections]
HorizonRecord ==
  [frame_id : FrameId, frame_tt : Times, detection : HorizonDetections]

-----------------------------------------------------------------------------
(* Reading the storage.                                                    *)

Gap(a, b) == IF a >= b THEN a - b ELSE b - a

Records(s) == s.body_q \cup s.horizon_q

\* The order PriorityQueue::iter yields: ascending sigma, ties by insertion.
Precedes(r1, r2) ==
  \/ r1.detection.sigma_key < r2.detection.sigma_key
  \/ /\ r1.detection.sigma_key = r2.detection.sigma_key
     /\ r1.frame_id < r2.frame_id

\* Storage::frame finds a frame of the ring by id.
HasFrame(s, id) == \E f \in s.ring : f.frame_id = id

Capacity == IF InputRingCapacity < 1 THEN 1 ELSE InputRingCapacity

IsOldest(ring, f) == f \in ring /\ \A g \in ring : f.frame_id <= g.frame_id

-----------------------------------------------------------------------------
(* The operations, as functions of the storage.                            *)

\* Storage::new
EmptyStorage == [ring |-> {}, body_q |-> {}, horizon_q |-> {}]

DropRecordsFor(q, ids) == {r \in q : r.frame_id \notin ids}

\* The frames a full ring gives up to admit another: its oldest one.
ForcedOut(s) ==
  IF Cardinality(s.ring) >= Capacity
    THEN {f \in s.ring : IsOldest(s.ring, f)}
    ELSE {}

\* Mutant of AdmitPyramid: the frame goes, its records stay.
AdmitPyramidKeepingRecords(s, frame) ==
  [s EXCEPT !.ring = (@ \ ForcedOut(s)) \cup {frame}]

\* Storage::admit_pyramid: a full ring loses its oldest frame and that
\* frame's records, then the new frame enters.
AdmitPyramid(s, frame) ==
  LET ids == {f.frame_id : f \in ForcedOut(s)}
  IN [ring      |-> (s.ring \ ForcedOut(s)) \cup {frame},
      body_q    |-> DropRecordsFor(s.body_q, ids),
      horizon_q |-> DropRecordsFor(s.horizon_q, ids)]

RecordOf(frame, d) ==
  [frame_id |-> frame.frame_id, frame_tt |-> frame.frame_tt, detection |-> d]

\* body_record_from_detection / horizon_record_from_outcome: no detection,
\* no record.
RecordFrom(frame, d) ==
  IF d = NoDetection THEN {} ELSE {RecordOf(frame, d)}

\* Storage::admit_records
AdmitRecords(s, frame, body, horizon) ==
  [ring      |-> s.ring,
   body_q    |-> s.body_q \cup RecordFrom(frame, body),
   horizon_q |-> s.horizon_q \cup RecordFrom(frame, horizon)]

ProtectedByRecord(s, f) == \E r \in Records(s) : r.frame_id = f.frame_id

ProtectedByQueueWindow(s, f) ==
  \E r \in Records(s) : Gap(r.frame_tt, f.frame_tt) <= StitchingWindow

\* The anchor is the greatest capture time in the ring.
ProtectedByRecency(s, f) ==
  \E n \in s.ring : /\ \A g \in s.ring : n.frame_tt >= g.frame_tt
                    /\ Gap(n.frame_tt, f.frame_tt) <= StitchingWindow

\* Mutants of Evict: without the queue window; and with records that age out
\* together with their frames.
EvictIgnoringQueue(s) ==
  [s EXCEPT !.ring = {f \in @ : \/ ProtectedByRecord(s, f)
                                \/ ProtectedByRecency(s, f)}]

EvictOldRecords(s) ==
  LET recent == {f \in s.ring : ProtectedByRecency(s, f)}
      ids == {f.frame_id : f \in s.ring \ recent}
  IN [ring |-> recent, body_q |-> DropRecordsFor(s.body_q, ids),
      horizon_q |-> DropRecordsFor(s.horizon_q, ids)]

\* Storage::evict
Evict(s) ==
  [s EXCEPT !.ring = {f \in @ : \/ ProtectedByRecord(s, f)
                                \/ ProtectedByQueueWindow(s, f)
                                \/ ProtectedByRecency(s, f)}]

-----------------------------------------------------------------------------
(* The storage as push_frame drives it, all under the engine's lock.       *)

NewFrame(tt) == [frame_id |-> next_frame_id, frame_tt |-> tt]

StorageAfter(tt, body, horizon) ==
  Evict(AdmitRecords(AdmitPyramid(storage, NewFrame(tt)),
                     NewFrame(tt), body, horizon))

\* What the capture side may push next.
MayCapture(tt) ==
  /\ next_frame_id < MaxFrames
  /\ CaptureInOrder => \A f \in storage.ring : f.frame_tt <= tt

Init ==
  /\ storage = EmptyStorage
  /\ next_frame_id = 0

PushFrame(tt, body, horizon) ==
  /\ MayCapture(tt)
  /\ next_frame_id' = next_frame_id + 1
  /\ storage' = StorageAfter(tt, body, horizon)

Next ==
  \E tt \in Times,
     body \in BodyDetections \cup {NoDetection},
     horizon \in HorizonDetections \cup {NoDetection} :
    PushFrame(tt, body, horizon)

vars == <<storage, next_frame_id>>

Spec == Init /\ [][Next]_vars

-----------------------------------------------------------------------------
(* Properties.                                                             *)

TypeOK ==
  /\ storage.ring \in SUBSET RingFrame
  /\ storage.body_q \in SUBSET BodyRecord
  /\ storage.horizon_q \in SUBSET HorizonRecord
  /\ storage = [ring |-> storage.ring, body_q |-> storage.body_q,
                horizon_q |-> storage.horizon_q]
  /\ next_frame_id \in Nat

\* Every queued record still has its frame in the ring, with the capture time
\* the record mirrors: Stage E can always re-read the pixels of a pair it
\* selects, and FrameEvicted is never its answer for a same-frame pair
\* (engine.rs:964-967, queue.rs:400-406).
RecordsReferenceLiveFrames ==
  \A r \in Records(storage) :
    \E f \in storage.ring : /\ f.frame_id = r.frame_id
                            /\ f.frame_tt = r.frame_tt

\* The ring never holds more frames than its capacity, however many of them
\* the eviction rule protects (queue.rs:343-350); 0 counts as 1.
RingWithinCapacity ==
  /\ IsFiniteSet(storage.ring)
  /\ Cardinality(storage.ring) <= Capacity

\* A record leaves its queue only because its frame was the oldest of a full
\* ring: neither evict nor age drops a record (queue.rs:394-412, 454-501).  What
\* is written of it elsewhere is not so: storage holds records for as long as the
\* ring has room, not "for at most stitching_window_seconds", and they keep their
\* frames rather than "drop out of the queues when their source frames age out"
\* (stage_e.rs:422-426, 432-433; sight_persistence.md:18-21).
RecordsLeaveOnlyByForce ==
  [][\A r \in Records(storage) :
        \/ r \in Records(storage')
        \/ \E f \in ForcedOut(storage) : f.frame_id = r.frame_id]_vars

=============================================================================
