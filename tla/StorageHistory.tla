-------------------------- MODULE StorageHistory --------------------------
(***************************************************************************)
(* Storage with two history variables: every frame ever pushed, and the    *)
(* frames a full ring was forced to give up.  They constrain nothing; the  *)
(* properties below relate the ring to what it once held.                  *)
(***************************************************************************)
EXTENDS Storage

VARIABLES
  pushed,   \* the frames handed to push_frame
  forced    \* those the hard cap of admit_pyramid took out again

hvars == <<storage, next_frame_id, pushed, forced>>

HInit ==
  /\ Init
  /\ pushed = {}
  /\ forced = {}

HPushFrame(tt, body, horizon) ==
  /\ PushFrame(tt, body, horizon)
  /\ pushed' = pushed \cup {NewFrame(tt)}
  /\ forced' = forced \cup ForcedOut(storage)

HNext ==
  \E tt \in Times,
     body \in BodyDetections \cup {NoDetection},
     horizon \in HorizonDetections \cup {NoDetection} :
    HPushFrame(tt, body, horizon)

HSpec == HInit /\ [][HNext]_hvars

-----------------------------------------------------------------------------
\* Every frame within the stitching window of a queued record is still there
\* to stitch through, unless the hard cap took it: evict (queue.rs:454-501)
\* judges a frame by the records and the newest capture of that moment, and
\* must not drop one that a record pushed LATER would have protected.
IntermediariesRetained ==
  \A f \in pushed \ forced :
    (\E r \in Records(storage) : Gap(r.frame_tt, f.frame_tt) <= StitchingWindow)
      => f \in storage.ring

\* The frame that was just pushed is in the ring when push_frame returns, so
\* Stage E and frame_by_id find it whatever it contained (engine.rs:978-982).
NewestFrameRetained ==
  next_frame_id > 0 => HasFrame(storage, next_frame_id - 1)

\* A frame that left the ring never returns, and its id is never given to
\* another frame: what a caller kept an id of is that frame or nothing.
FramesNeverReturn ==
  [][\A f \in pushed \ storage.ring : ~ HasFrame(storage', f.frame_id)]_hvars

=============================================================================
