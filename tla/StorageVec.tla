---------------------------- MODULE StorageVec ----------------------------
(***************************************************************************)
(* Storage as queue.rs stores it: the ring is a Vec in insertion order, a   *)
(* PriorityQueue is a Vec kept sorted by inserting at the partition point.  *)
(* The oldest frame is whatever stands first in the ring; nothing here      *)
(* looks at a frame id to find it.  The module implements Storage, whose    *)
(* sets are the elements of these Vecs.                                    *)
(***************************************************************************)
EXTENDS StorageParameters, Listing, Sequences, SequencesExt

CONSTANTS
  VecTimes,              \* the capture times frames carry, pushed in any order
  VecBodyDetections,     \* detections Stage B/D can hand over
  VecHorizonDetections,  \* detections Stage C can hand over
  VecFrames              \* bound: frames pushed in one behaviour

ASSUME VecConstants ==
  /\ InputRingCapacity \in Nat
  /\ StitchingWindow \in Nat
  /\ VecTimes \subseteq Int
  /\ \A d \in VecBodyDetections \cup VecHorizonDetections : d.sigma_key \in Nat
  /\ NoDetection \notin VecBodyDetections \cup VecHorizonDetections
  /\ VecFrames \in Nat

VARIABLES
  ring,            \* Storage::ring
  body_items,      \* Storage::body_q.items
  horizon_items,   \* Storage::horizon_q.items
  vec_frame_id     \* EngineState::next_frame_id

Sets == INSTANCE Storage WITH
       storage <- [ring      |-> ToSet(ring),
                   body_q    |-> ToSet(body_items),
                   horizon_q |-> ToSet(horizon_items)],
       next_frame_id <- vec_frame_id, Times <- VecTimes,
       BodyDetections <- VecBodyDetections,
       HorizonDetections <- VecHorizonDetections,
       CaptureInOrder <- FALSE, MaxFrames <- VecFrames

vvars == <<ring, body_items, horizon_items, vec_frame_id>>

VInit ==
  /\ ring = <<>> /\ body_items = <<>> /\ horizon_items = <<>>
  /\ vec_frame_id = 0

-----------------------------------------------------------------------------
(* PriorityQueue.                                                          *)

\* Mutant of PartitionPoint: a new record goes before its equals.
PartitionPointStrict(items, key) ==
  Cardinality({i \in DOMAIN items : items[i].detection.sigma_key < key})

\* The number of records whose key is no greater, they come first.
PartitionPoint(items, key) ==
  Cardinality({i \in DOMAIN items : items[i].detection.sigma_key <= key})

\* PriorityQueue::insert of the record a frame yields, if it yields one.
Insert(items, frame, d) ==
  IF d = NoDetection
    THEN items
    ELSE InsertAt(items, PartitionPoint(items, d.sigma_key) + 1,
                  Sets!RecordOf(frame, d))

-----------------------------------------------------------------------------
(* Storage.                                                                *)

\* Mutant of Admitted: the newest frame makes room.
AdmittedOverNewest(v, frame) ==
  Append(IF Len(v) >= Sets!Capacity THEN SubSeq(v, 1, Len(v) - 1) ELSE v, frame)

\* admit_pyramid: Vec::remove(0) of a full ring, then push.
Admitted(v, frame) == Append(IF Len(v) >= Sets!Capacity THEN Tail(v) ELSE v, frame)

\* Vec::retain: the elements that are in keep, in the order they had.
Retained(v, keep) == Picked(v, {i \in DOMAIN v : v[i] \in keep})

\* drop_records_for the frame admit_pyramid removed.
Remaining(items) ==
  IF Len(ring) >= Sets!Capacity
    THEN Retained(items,
                  {r \in ToSet(items) : r.frame_id # ring[1].frame_id})
    ELSE items

\* evict: drain the ring, keep what one of three things protects.
KeptFrames(v, bodies, horizons) ==
  LET records == ToSet(bodies) \cup ToSet(horizons)
      newest == CHOOSE t \in {f.frame_tt : f \in ToSet(v)} :
                  \A f \in ToSet(v) : f.frame_tt <= t
  IN Retained(v, {f \in ToSet(v) :
       \/ f.frame_id \in {r.frame_id : r \in records}
       \/ \E r \in records : Sets!Gap(r.frame_tt, f.frame_tt) <= StitchingWindow
       \/ Sets!Gap(newest, f.frame_tt) <= StitchingWindow})

VPushFrame(tt, body, horizon) ==
  LET frame == Sets!NewFrame(tt)
  IN /\ Sets!MayCapture(tt)
     /\ vec_frame_id' = vec_frame_id + 1
     /\ body_items' = Insert(Remaining(body_items), frame, body)
     /\ horizon_items' = Insert(Remaining(horizon_items), frame, horizon)
     /\ ring' = KeptFrames(Admitted(ring, frame), body_items', horizon_items')

VNext ==
  \E tt \in VecTimes,
     body \in VecBodyDetections \cup {NoDetection},
     horizon \in VecHorizonDetections \cup {NoDetection} :
    VPushFrame(tt, body, horizon)

VSpec == VInit /\ [][VNext]_vvars

-----------------------------------------------------------------------------
(* Properties.                                                             *)

\* Each Vec lists its queue by the order Precedes, no record twice: what Stage
\* E iterates over is the order the abstract queue defines, ties by insertion,
\* through inserts at a binary-searched place and removals by frame
\* (queue.rs:257-264, 537-540).
QueuesInOrder ==
  \A items \in {body_items, horizon_items} :
    \A i, j \in DOMAIN items : i < j => Sets!Precedes(items[i], items[j])

\* The Vecs behave as the sets of Storage: which frame the hard cap takes,
\* which records go with it and what evict keeps.
ImplementsStorage == Sets!Spec

=============================================================================
