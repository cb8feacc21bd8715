------------------------------- MODULE Engine -------------------------------
(***************************************************************************)
(* StreamingEngine (bris-streaming/src/engine.rs): push_frame admits a      *)
(* frame to the storage, runs Stage E over it, persists the sights Stage E  *)
(* inserted and the fix it published, and sends that fix to the consumer -  *)
(* all under one lock, so one action.  The engine may be restarted between  *)
(* pushes; what it then knows is what current.log of each log holds.        *)
(*                                                                         *)
(* A log is what was appended to it, in the archives and current.log: an    *)
(* append may first rotate current.log away, and it may fail, which is then *)
(* only counted.  The files behind the logs are SightStore's subject.       *)
(* The publication throttle runs on the machine's clock, capture times are  *)
(* the frames': IntervalElapses may happen at any moment.                   *)
(***************************************************************************)
EXTENDS StageE

CONSTANTS
  PriorMaxAge,        \* EngineConfig::position_prior_max_age_seconds
  AppendsMayFail,     \* TRUE iff the disk may refuse an append
  LogsRotate,         \* TRUE iff an append may find current.log full or old
  MaxRestarts         \* bound: restarts in one behaviour

ASSUME EngineConstants ==
  /\ PriorMaxAge \in Nat
  /\ AppendsMayFail \in BOOLEAN
  /\ LogsRotate \in BOOLEAN
  /\ MaxRestarts \in Nat

VARIABLES
  sight_window,    \* SightWindow::sights
  throttled,       \* last_publication is younger than the minimum interval
  has_prior,       \* last_published_fix.is_some()
  fix_stream,      \* the fixes sent on fix_tx in this session, in order
  sight_log,       \* the sight log on disk, archives and current.log
  rotated,         \* how many of its records are in archives
  fix_log,         \* the timestamps in the current.log of the fix log
  session,         \* how often the engine was restarted
  clock            \* the latest capture time so far, NoTime at first

engine == <<sight_window, throttled, has_prior, fix_stream>>
disk == <<sight_log, rotated, fix_log>>
evars == <<storage, next_frame_id, engine, disk, session, clock>>

EInit ==
  /\ Init
  /\ sight_window = <<>> /\ fix_stream = <<>>
  /\ throttled = FALSE /\ has_prior = FALSE
  /\ sight_log = <<>> /\ rotated = 0 /\ fix_log = {}
  /\ session = 0 /\ clock = NoTime

-----------------------------------------------------------------------------
(* push_frame.                                                             *)

NotBefore(tt) == CaptureInOrder /\ clock # NoTime => clock <= tt

\* Any of the appends of one push may fail, each on its own.
Landed(items) ==
  IF AppendsMayFail THEN SUBSET DOMAIN items ELSE {DOMAIN items}

\* maybe_rotate before an append: the records written so far are archived,
\* whether the append then succeeds or not.
RotatedBefore(items, ids) ==
  {Len(sight_log) + Cardinality({k \in ids : k < m}) : m \in DOMAIN items}

\* Mutant of AppendAll: one record per push.
AppendFirst(items) ==
  /\ sight_log' = sight_log \o SubSeq(items, 1, IF items = <<>> THEN 0 ELSE 1)
  /\ UNCHANGED rotated

AppendAll(items) ==
  \E ids \in Landed(items) :
    /\ sight_log' = sight_log \o Picked(items, ids)
    /\ rotated' \in {rotated} \cup
                     (IF LogsRotate THEN RotatedBefore(items, ids) ELSE {})

\* The same for the fix log, of which only current.log is ever read here.
Stored(timestamp) ==
  LET kept == {fix_log} \cup (IF LogsRotate THEN {{}} ELSE {})
  IN {log \cup {timestamp} : log \in kept}
       \cup (IF AppendsMayFail THEN kept ELSE {})

\* No fix is published by this push.
Withhold == UNCHANGED <<throttled, has_prior, fix_stream, fix_log>>

Publish(fix) ==
  /\ fix_stream' = Append(fix_stream, fix)
  /\ has_prior' = TRUE
  /\ throttled' = TRUE
  /\ fix_log' \in Stored(fix.timestamp)

\* stage_e::run up to the publication: the window after inserts and age
\* eviction, and what changed.
StageERun(s) ==
  LET emitted == Emit(s, sight_window, session)
      now == Now(s, sight_window)
      window == IF now = NoTime THEN emitted.window
                                ELSE EvictAged(emitted.window, now)
  IN [now |-> now, inserted |-> emitted.inserted,
      evicted |-> Len(emitted.window) - Len(window), window |-> window]

\* The second half of push_frame.
AfterStorage(s) ==
  LET run == StageERun(s)
      changed == run.inserted # <<>> \/ run.evicted > 0
      attempt == changed /\ ~ throttled
  IN /\ sight_window' = run.window
     /\ AppendAll(run.inserted)
     /\ \/ Withhold
        \/ /\ attempt
           /\ \E fix \in Publishable(run.window, run.now, has_prior) :
                Publish(fix)

EPushFrame(tt, body, horizon) ==
  /\ NotBefore(tt)
  /\ PushFrame(tt, body, horizon)
  /\ clock' = IF clock = NoTime \/ clock < tt THEN tt ELSE clock
  /\ AfterStorage(storage')
  /\ UNCHANGED session

\* The minimum interval since the last publication is over.
IntervalElapses ==
  /\ throttled
  /\ throttled' = FALSE
  /\ UNCHANGED <<storage, next_frame_id, sight_window, has_prior, fix_stream,
                 disk, session, clock>>

-----------------------------------------------------------------------------
(* StreamingEngine::new over what an earlier session left on disk.         *)

\* The records of the sight log that are in current.log.
CurrentLog == {n \in DOMAIN sight_log : n > rotated}

\* hydrate_pool: the sights of current.log young enough, by anchor; their
\* frame ids are not on disk.
HydratePool(now) ==
  LET young == {k \in CurrentLog :
                  Gap(now, sight_log[k].anchor_tt) <= SightWindowSeconds}
      order == Listed([i \in young |-> {j \in young :
                 \/ sight_log[j].anchor_tt < sight_log[i].anchor_tt
                 \/ sight_log[j].anchor_tt = sight_log[i].anchor_tt /\ j < i}])
  IN [k \in DOMAIN order |->
       [sight_log[order[k]] EXCEPT !.source_frame_id = NoFrame,
                               !.horizon_frame_id = NoFrame]]

\* most_recent_fix finds one, in current.log too.
PriorOnDisk(now) == \E t \in fix_log : Gap(now, t) <= PriorMaxAge

Restart(now) ==
  /\ session < MaxRestarts
  /\ NotBefore(now)
  /\ session' = session + 1
  /\ storage' = EmptyStorage
  /\ next_frame_id' = 0
  /\ sight_window' = Hydrated(HydratePool(now))
  /\ has_prior' = PriorOnDisk(now)
  /\ throttled' = FALSE
  /\ fix_stream' = <<>>
  /\ clock' = IF clock = NoTime \/ clock < now THEN now ELSE clock
  /\ UNCHANGED disk

ENext ==
  \/ \E tt \in Times,
        body \in BodyDetections \cup {NoDetection},
        horizon \in HorizonDetections \cup {NoDetection} :
       EPushFrame(tt, body, horizon)
  \/ IntervalElapses
  \/ \E now \in Times : Restart(now)

ESpec == EInit /\ [][ENext]_evars

-----------------------------------------------------------------------------
(* Properties.                                                             *)

\* No observation of this session stands in the window twice, although every
\* push sees again every record still queued: the dedup by source frame is
\* enough, through displacement, re-emission and a second sight of the same
\* frame (stage_e.rs:282-292, 390-398).
NoDoubleCount ==
  \A i, j \in DOMAIN sight_window :
    i # j /\ sight_window[i].obs = sight_window[j].obs
      => /\ sight_window[i].source_frame_id = NoFrame
         /\ sight_window[j].source_frame_id = NoFrame

\* A published fix rests on no sight farther from its timestamp than the
\* sight window, and, frames coming in capture order, on none from after it:
\* now_tt is the latest candidate although the window also holds sights whose
\* records are gone (stage_e.rs:457-467, 1367-1371).
PublishedFixIsFresh ==
  \A k \in DOMAIN fix_stream :
    \A i \in DOMAIN fix_stream[k].sights :
      LET anchor == fix_stream[k].sights[i].anchor_tt
      IN /\ Gap(fix_stream[k].timestamp, anchor) <= SightWindowSeconds
         /\ CaptureInOrder => anchor <= fix_stream[k].timestamp

\* Frames coming in capture order, the fixes a consumer reads never go back
\* in time.
FixesMoveForward ==
  CaptureInOrder =>
    \A k \in DOMAIN fix_stream :
      k > 1 => fix_stream[k - 1].timestamp <= fix_stream[k].timestamp

\* A published fix rests on two different observations that look in
\* different directions, whichever solver made it.
FixRestsOnTwoLooks ==
  \A k \in DOMAIN fix_stream :
    LET sights == fix_stream[k].sights
    IN \E i, j \in DOMAIN sights : /\ sights[i].obs # sights[j].obs
                                   /\ sights[i].azimuth # sights[j].azimuth

\* If no append fails, every sight a published fix rests on is in the sight
\* log, in current.log or an archive, by the time the consumer has the fix:
\* it can be reproduced from disk (engine.rs:1060-1092).
FixIsReproducible ==
  ~ AppendsMayFail =>
    \A k \in DOMAIN fix_stream :
      \A i \in DOMAIN fix_stream[k].sights :
        \E n \in DOMAIN sight_log :
          sight_log[n].obs = fix_stream[k].sights[i].obs

\* A sight leaves the window only by age or for a strictly better one; a push
\* that does neither keeps all of it (stage_e.rs:345-379).
LeavesByAgeOrRank ==
  [][session' = session =>
       \A i \in DOMAIN sight_window :
         \/ \E j \in DOMAIN sight_window' : sight_window'[j] = sight_window[i]
         \/ Gap(Now(storage', sight_window), sight_window[i].anchor_tt)
              > SightWindowSeconds
         \/ LET inserted == StageERun(storage').inserted
            IN \E n \in DOMAIN inserted :
                 inserted[n].sigma < sight_window[i].sigma]_evars

\* A restart loses no sight that is still young and was appended since the last
\* rotation: it is in the window again, or the window is full of sights no
\* worse (store.rs:257-287, stage_e.rs:325-333).  A young sight that a rotation
\* (store.rs:430-450) archived is not read back: hydrate_pool opens current.log
\* alone, and so does most_recent_fix.
RestartRecovers ==
  [][session' # session =>
       \A i \in DOMAIN sight_window :
         LET sight == sight_window[i]
         IN \/ \A n \in CurrentLog :
                 sight_log[n].obs # sight.obs \/ sight_log[n].sigma # sight.sigma
            \/ Gap(clock', sight.anchor_tt) > SightWindowSeconds
            \/ \E j \in DOMAIN sight_window' : sight_window'[j].obs = sight.obs
            \/ /\ Len(sight_window') = SightWindowCapacity
               /\ \A j \in DOMAIN sight_window' :
                    sight_window'[j].sigma <= sight.sigma]_evars

=============================================================================
