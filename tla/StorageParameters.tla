------------------------- MODULE StorageParameters -------------------------
(***************************************************************************)
(* The parameters Storage and StorageVec share.                            *)
(***************************************************************************)

CONSTANTS
  InputRingCapacity,  \* EngineConfig::input_ring_capacity
  StitchingWindow,    \* EngineConfig::stitching_window_seconds
  NoDetection         \* BodyDetection::None, HorizonStageOutcome::None

=============================================================================
