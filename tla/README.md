# Bris: a verification project

Bris turns camera frames of a celestial body over a horizon into position
fixes. This directory holds TLA+ models of the parts of it whose correctness is
a matter of state, order and failure, the TLC runs that check them on small
instances, and TLAPS proofs of what matters most for every value of the
constants. Paths below are relative to `src/crates/`, those that begin with
`bris-android` to `src/`.

## 1. The system

### Components

| component | state | operations |
|---|---|---|
| frame storage, `bris-streaming/src/pipeline/queue.rs` | ring of raw frames; body and horizon queues sorted by sigma | `admit_pyramid`, `admit_records`, `evict`, `frame` |
| classifier hysteresis, `pipeline/hysteresis.rs` | trusted condition, candidate, count | `update`, `smoothed` |
| stages A to D, `pipeline/{mod,condition,horizon_fusion,...}.rs` | hypotheses and evidence of one frame | classification, horizon providers, fusion, body detection, second pass, star solver |
| blunder screen, `bris-nav/src/screen.rs` | none | `screen_sights`: plausibility, contradictions, consensus |
| Stage E, `pipeline/stage_e.rs` | sight window, time of the last publication | `select_pairs`, `reduce_to_sight`, `try_insert`, `evict_aged`, `contains_source`, `hydrate`, `try_publish` |
| engine, `bris-streaming/src/engine.rs` | all of the above under one mutex, the fix channel, the last fix, the store | `new`, `push_frame`, `fix_stream`, `frame_by_id` |
| sight store, `bris-streaming/src/store.rs` | per log: `current.log`, archive, lock file, byte count, hour | `open`, `append_*`, `maybe_rotate`, `hydrate_pool`, `most_recent_fix`, `prune_archive` |
| command line, `bris-cli/src/{main,subcommands,nmea_transport}.rs`, `bris-capture` | `serve`: three threads, two flags, sinks, TCP clients; `update`: data, staging and backup directories | capture loop, `run_nmea_dispatch`, accept thread, `apply_update` |
| foreign interface, `bris-ffi/src/lib.rs` | subscribers, pump thread, session state, best and accepted fix | `subscribe_fixes`, pump loop, `Session::{start,stop,accept,abandon}`, `Engine::drop` |
| Android capture recorder, `bris-android/.../engine/CaptureRecorder.kt` | status, job, best fix, writer, id of the capture | `start`, `stop`, `onFix`, watchdog, `finalize` and its cleanup |
| submission queue, `bris-submit/src/queue.rs` | a directory per entry under `pending/`, `sent/`, `dead/`, with a `state.json` | `enqueue`, `drain_once`, `attempt_pending`, `write_state`, `move_entry` |
| transport, `bris-submit/src/transport.rs` | none | `HttpTransport::send` |
| collector store, `bris-collector/src/store.rs` | directory tree (the truth) and SQLite index | `save_submission`, `rebuild_index`, `soft_delete`, `retention_sweep`, `register_device` |
| collector service, `bris-collector/src/{routes,auth}.rs`, `bin/` | none of their own | HTTP handlers; the maintenance commands, each its own process |
| image detectors, plate solver, almanac, mathematics, fixes, calibration, bundles | none, or numeric | pure functions of a frame or of numbers |
| rest of the Android application, scripts, deployment | user interface | callbacks around the foreign interface |

### How they interact

The capture side calls `push_frame`, which holds the engine's one lock from
admission to publication: classification and hysteresis, the horizon providers
and body detectors they select, `admit_pyramid`, `admit_records`, `evict`,
Stage E over the storage, the appends to the sight and fix logs, and the send
on an unbounded channel. `bris serve` polls that channel from its main thread
and offers each fix to every NMEA sink, of which a TCP one shares a list of
clients with an accept thread of its own. The foreign interface has a pump thread that
blocks on the channel and calls each subscriber, a `Session` among them; the
Android recorder is one more consumer, with coroutines of its own. A restart
hydrates the sight window and the position prior from the `current.log` of
either log. Debug bundles
go another way: reviewed, put into a queue on disk, sent by whoever runs a
flush, stored by the collector's handlers into a staging directory, renamed
into place and indexed, while the operator's maintenance commands work on the
same tree and the same database as separate processes.

### What is hard, and what correct means

* *Storage*: eviction runs now, but stitching needs the intermediate frames
  later; the hard cap overrides every protection. No record may outlive its
  frame, no frame that a queued record may still stitch through may go unless
  the cap takes it, and ids never come back.
* *Stages*: three fields of the hysteresis stand for the whole history;
  providers run by condition, in order, gated by the sky and stopped early; a
  fused line must not be less certain than what it was made of, nor rest on a
  provider that must not count in this light.
* *Screen*: the passes feed each other; they must not keep a contradiction nor
  expel the best-placed line.
* *Window and publication*: every push meets every queued record again, sights
  leave and come back, the time base mixes candidates and window, a throttle
  stands between a change and its publication, a restart replaces the ids.
* *Sight store*: two locks one after the other, rotation in two system calls,
  writes torn by a crash, a lock file that outlives its owner.
* *`serve`*: clients come and go while a fix is being written, Ctrl-C at any
  moment. *`update`*: two renames with nothing in between, repeated runs.
* *Queue, transport, collector*: crashes between write and rename, lost and
  late answers, several processes on one tree.
* *Pump, session, recorder*: callbacks on other threads, late deliveries, two
  finalizers of one capture, and the end of it all in a `Drop`.

`PROJECT.json` lists each hazard at its line with the properties aimed at it.

## 2. The modules

| module | models | extends |
|---|---|---|
| `StorageParameters` | what queue.rs is configured with | |
| `Storage` | queue.rs over sets; one action, `PushFrame`, for what push_frame does to the storage | `StorageParameters` |
| `StorageHistory` | history variables: frames pushed, frames forced out | `Storage` |
| `Listing` | the list a sort, an insertion or `Vec::retain` leaves, said of sets of positions | |
| `StorageVec` | queue.rs over the Vecs it has: binary search, stable insertion, removal | `Listing`; implements `Storage` |
| `ListingProofs` | lemmas on sorted and filtered lists, finite sets and loops | `Listing` |
| `StorageProofs` | theorems of storage, over sets and over Vecs | `StorageHistory`, `StorageVec`, `ListingProofs` |
| `Hysteresis` | hysteresis.rs | |
| `Pipeline` | stages A to D of one frame after another, one action per stage and per provider | `Hysteresis`, `Listing` |
| `Screening` | screen.rs, as functions of a sequence of lines of position | |
| `Screen` | lists of lines of position, of any length, handed to the screen | `Screening` |
| `StagesProofs` | theorems of hysteresis, pipeline, fusion and screen; that the pipeline implements `Hysteresis` | `Pipeline`, `Screen`, `ListingProofs` |
| `StageE` | stage_e.rs, as functions of storage and window | `Storage`, `Screening`, `Listing` |
| `Engine` | engine.rs: push_frame, the throttle, restart over logs that rotate | `StageE` |
| `EngineProofs` | its theorems | `Engine`, `StorageProofs` |
| `SightStore`, `SightStoreProofs` | store.rs, one system call a step, any of which may fail, and crashes; its theorems | |
| `Serve` | `bris serve`: main, capture and accept threads, sinks whose writes fail or block | |
| `Update` | `bris update`, one file operation a step, any of which may fail, and a process killed at any of them | |
| `Cli` | the program: the one or the other | `Serve`, `Update` |
| `CliProofs` | theorems of both | `Cli`, `ListingProofs` |
| `FixPump` | the pump thread, the channel and `Engine::drop` of bris-ffi | |
| `Session`, `SessionProofs` | `Session`, its collector and the reference counts; its theorems and the pump's | `FixPump` |
| `Recorder` | the Android recorder under its one button, one suspension a step | |
| `SubmissionQueue` | bris-submit/src/queue.rs, one system call a step | |
| `Collector` | bris-collector/src/store.rs and its callers, one system call a step | |
| `Submission` | queue, transport and collector composed | both |
| `DeviceProofs` | theorems of the collector, of the composition and of the recorder | `Submission`, `Recorder` |
| `MC*` | the instances TLC checks | |

*State and code.* `storage` is `Storage`'s `ring`, `body_q`, `horizon_q`;
`evidence`, `hyps`, `horizon`, `body` of `Pipeline` are the locals of
`process_frame`; `sight_window`, `throttled`, `has_prior` are the
`SightWindow`, the age of `last_publication` and
`last_published_fix.is_some()`; `sight_log` is all the sight log ever took, of
which the first `rotated` records are in archives, and `fix_log` what is in the
other's `current.log`. These are the files that `SightStore` models one by one: `data` is what each inode holds,
`current` and `archive` the names, `proc` a process with its `LogWriter`s.
`data`, `staging`, `backup` of `Update` are the three directories; `clients`,
`acceptor`, `shutdown`, `dropped` of `Serve` the shared lists, the accept
threads and the flags. `entry[s]` is a queue directory with its
`state.json`; `files`, `staging` and `rows` of `Collector` its tree and index;
`pump`, `channel`, `subscribers` are the locals and fields of `engine_new`'s
thread; the fields of `Recorder` have the names they have in Kotlin, `fin` is
a call of `finalize` with its locals and `cleanup` the coroutine it leaves
behind. An action is a whole call where a lock makes it one (`EPushFrame`,
every call of a session) and one system call or one suspension where others
may come between. The map in `PROJECT.json` names the lines of every definition.

*What is abstracted.* Pixels, text and encodings are gone. What a detector sees
in an image is any of a small set of lines, each an angle and a precision (the
inverse of its variance), and any number of bodies. In `StageE` a detection
carries the lines of position it would reduce to; sigmas are variances, so that
combining is adding; angles are parts of a turn; times are integers. Whether a
stitch succeeds depends on the time gap only. What the solvers compute is left
open: Stage E says which sets of sights may be published, any of them may be
refused by the covariance gates. Fusion is taken to be enabled, as it is by
default. A record on disk is two units, its header and the rest. Backoff is a
flag a step of the environment clears. A directory in the collector is the set
of its files; no files means no directory. The publication throttle runs on the
machine's clock and capture times are the frames', so `IntervalElapses` may
happen at any moment; likewise the recorder's watchdog, whose sustained green
and timeout are not told apart. A tree of `Update` is a function from paths to
contents, a digest the content itself.

Names that a comment calls "Mutant of X" are plausible faults of X. Each is put
in X's place to show that a property notices; no model uses them.

## 3. The runs

Components that share nothing are checked by one run where that keeps the
instances few: its specification runs each from the initial state of the other
("either one"), so the reachable states are the union, not the product.

| run | instance and bounds | what it shows |
|---|---|---|
| `storage` | `StorageHistory`, ring of 3, five pushes, five capture times; or `StorageVec`, four pushes in any order | what eviction and the cap keep; no record outlives its frame; the Vecs implement the sets, in the order Stage E relies on |
| `stages` | `Pipeline`, three frames, settle after 2, six providers, at most three hypotheses a frame, two marks a picture; or every sequence of up to four lines over three directions, four intercepts, two sigmas | the dispatch is on the last settled condition, fusion never loses certainty, a published horizon rests on providers fit for the light; what the passes of the screen may not keep and not reject |
| `engine` | four frames of Sun, two stars or an unsolved night, ring and window of 3 | no double count, fresh and forward-moving fixes from two looks, nothing lost but by age or rank |
| `engine_restart` | two frames, one restart at any moment, appends that may fail or rotate the log first | what a restart must bring back |
| `stores` | `SightStore`, two logs, four appends, three hours, one fault; or `Collector`, two uploads, one process of each maintenance command, one interrupt | what was acknowledged stays readable, nothing is invented, no append without a file, no lock left; the collector's tree and index at every system call |
| `cli` | `serve` with a sink that may block and two TCP sinks, two clients, two fixes, a Ctrl-C; or three runs of `update` with three faults and five payloads | no plotter misses a fix, no sink is skipped, Ctrl-C ends; the data directory is never a mixture, the first failure or kill is survived, an error leaves the data |
| `session` | three fixes of two sigmas, one session, one foreign subscriber that may throw | whole streams, the tightest fix, final decisions, every fix heard |
| `device` | `Submission`, two entries, two attempts, one crash of the flusher, one of the server, one drifted part; or `Recorder`, two captures, one Stop, calls that may throw | what reaches `sent/` and `dead/`, and that everything does; what is shown as saved is on disk and is the capture's own best, Saving always ends |
| `session_drop`, `cli_intact`, `store_kill`, `recorder_ends` | smaller instances of the same modules | four places where the code does not do what its text says, section 5 |

*Why the bounds are enough.* The ring and window of three are full after three
pushes, and one more forces the cap, a displacement and a comeback; eviction
compares at most three frames (a record on either side and the one between).
Three frames settle a condition in two and meet one frame of another. Three
hypotheses are a cluster of two and an outlier; two marks are what a reflected
pair takes. Four lines are one more than the consensus pass needs. Four appends of
two units fill a log of four units twice over; three hours and a retention of
one let a record grow old while another stays young. One fault is placed at
every system call by TLC; with it the sight store is opened as often as the
bound on appends lets it. Two clients are one that fails and one the removal
moves into its place, or one at each TCP sink; for more of both there is the
proof. Three runs of `update` with three faults include an interrupted run, one that fails while it
cleans up, and a good one. Two entries show the head of the line and what
waits behind it; two attempts are the retry and the last. The second process of a
maintenance command would only wait at the same lock. Three fixes fill the
channel while the pump is still calling, with a tie and a better one to come.
Two captures, two watchdogs and a Stop are two finalizers of one capture while
the next starts; one fix a capture tells the captures apart, that a red
one is never saved is proved. `CHECK_DEADLOCK` is off where a bound stops the
behaviour or the program may end. `LogsRotate` says whether an append may find
the log full or an hour old; only a restart can tell, so `engine`, which has
none, leaves it off. `MaxCrashes` counts every failure that ends a flush
between two system calls: a `write_state` or a `rename` that returns an error
leaves what a flusher killed there would, and `drain_once` returns.

*Fairness.* `Submission`: the operator goes on flushing, a request ends by its
timeout (an `HttpTransport` sets one), and a backoff elapses; nothing is
promised of the server, so the liveness property is "leaves pending", not
"is stored". `Session`: the pump thread runs while it has something to do and a
join that can return does; nothing is promised of the operator. `Serve`: main
and capture thread run and the camera answers every dequeue; nothing is
promised of plotters, of the accept threads, of the engine or of the reader of
a pipe or serial line: a write there may block for good. That it does not is a
hypothesis, `WritesReturn`, which the two liveness properties carry because
neither holds without it.
`Recorder`: every coroutine that can run does (the scope has a thread pool)
and every watchdog's time comes, for its loop looks at the clock five times a
second; nobody need tap and no fix need come. The other specifications are
safety only.

## 4. The proofs

The `*Proofs` modules prove for every value of the constants; they assume only
the named assumptions of the modules and the hypotheses a theorem names. Where
a property needs a hypothesis, the reason is below. TLC had looked for
counterexamples to the properties, on the runs' instances, before they were
proved.

`ListingProofs` has the lemmas on lists and loops that several need. A loop is a
recursive function in the models (`after[n] == ... after[n - 1] ...`), and
what such a function computes takes an induction: `AfterEveryRound` is that
induction for one set of naturals, from the library's well-foundedness of `<`,
`LoopExists` says that the function the model writes with CHOOSE is there, and
a lemma for each loop (`ClusterKeeps`, `ContradictedKeeps`, `OfferAllKeeps`,
`SurvivorsKeeps`, ...) turns "each round keeps it" into "the loop keeps it".
`ListedIsInOrder` and `PickedKeepsOrder` say what a sort and a filter leave.

* *Storage.* `IInv` adds to the type invariant, liveness of records and the
  ring's bound that every id in the ring is below `next_frame_id`: without it a
  record might be taken for one of the frame just pushed. `PushEffect` states
  once what one push does to ring and queues. `NoIntermediaryLost` needs
  captures in order and a stronger history invariant `HInv`: for each frame
  that evict let go there is a newer frame more than the stitching window away,
  and every record, queued now or later, is on its far side or farther.
  `IdsAreForever`, `OnlyForceDropsRecords` and `NewestNeverEvicted` follow from
  the same invariants.
* *The Vecs.* `QueuesStayInOrder` and `VecImplementsStorage`. The lemmas say
  what `partition_point` finds in a sorted Vec, that inserting there keeps it
  sorted with ties in order of arrival, and what `retain` leaves of order and
  elements. `VecInv` adds that a record's id is below the next one, hence no
  record is there twice; with that the set a Vec holds loses exactly what the
  Vec does, and each push of `StorageVec` is a `PushFrame` of `Storage`.
* *Hysteresis and pipeline.* The hysteresis's properties are inductive together
  with the type invariant and "trusted iff there is a history".
  `PipelineIsHysteresis` is a refinement: each step of the pipeline is a step
  of `Hysteresis` or leaves its variables alone, so what is proved of the one
  holds of the other (`DispatchesOnTheLastSettled`). `NoEvidenceOverruled`
  shows that where image and ephemeris disagree the conservative condition
  leaves out no provider either would have run. `HorizonIsGrounded` and
  `NothingCertainIsLost` share the invariant `PInv`: every hypothesis rests on
  providers fit for the light and the sky of its frame, and the best precision
  so far is that of one of them that lifts to a ray. `FusionIsSound` is what
  fusion owes them: the cluster begins with the sharpest (`ClusterOrderIsSorted`,
  `ClusterHasTheSharpest`), its mean weighs at least what each member does
  (`MeanIsHeavy`), and where it falls back to one line that is the sharpest.
  `SecondPass` is the case a test would hardly think of: a first horizon that
  lifts to no ray meets a reflected pair that does, and is kept if sharper.
* *Screen.* For any number of lines. Pass 2 is two nested loops over a list
  that shrinks in a set while they run (`InnerLoop`, `OuterLoop`). What each
  round keeps: any two lines compared so far, neither of them dropped, agree,
  and each dropped line met one that is as near or nearer and disagrees. For
  this the difference of two azimuths must not depend on their order, though
  it is computed with a remainder (`DeltaIsSymmetric`).
* *Engine.* Stage E is two nested loops over lists it has sorted
  (`OfferAllKeeps`, `EmitKeeps`). Three invariants, each on top of the first.
  `BaseInv`: the
  storage is sound, the window is sorted, within its capacity and of one sight
  an observation, and every sight names a frame of this session or is of an
  earlier one (`ObservationsCountOnce`, `SightsLeaveByAgeOrRank`). `TimeInv`:
  nothing is younger than the last capture and, frames coming in order, the
  body queue is as young as every sight and every published fix; it is, for
  the newest of its records leaves the queue last (`FixesAreFresh`,
  `FixesNeverGoBack`). `LookInv`: all sights of an observation, in the window,
  on disk or still to be emitted again, look the same way, and a sight in the
  window is on disk unless appends fail (`FixesAreReproducible`,
  `FixesRestOnTwoLooks`, `RestartsRecover`). `RestartsRecover` speaks of what
  was appended since the last rotation, which is all a restart reads. Three
  hypotheses: it wants `CaptureInOrder`, for a restart measures age from its
  own clock; `FixesRestOnTwoLooks` wants `MinAzimuthSpread > 0`, as it is by default
  (config.rs:674); a detection shows a body once, as the matcher sees to
  (bris-platesolve/src/solve.rs:284-287) and the model's inputs say.
* *Sight store.* For any number of processes, logs, faults and hours:
  `AppendHasAFile`, no append meets a writer without a file (inductive is what
  such a writer has: a byte count that is not zero and either a full log or an
  hour that has passed, hence a reason to rotate, which fails);
  `LocksGoWithTheirOwners`, no lock is left when all have closed and none
  crashed. For any number of processes one after the other (`Lone`):
  `AcknowledgedIsKept` and `KillsLeaveNoFalseRecord`. Their invariant frames
  each file in blocks of one record, says which files a process has cut to
  whole blocks since it started, and finds for each acknowledged record a file
  that is still listed and no older. `Lone` is needed: of two processes the
  one whose open failed removes the other's lock when it is dropped, and may
  next write into the same file; the hypothesis says there is one process, in
  TLC's instance as in the theorem, which starts, crashes and starts again.
* *Session.* For any number of sessions, subscribers and fixes, under every
  interleaving of the operator's calls with the pump: a session accepts the
  tightest fix it heard while Active (`SessionAcceptsTheTightest`), an accepted
  or abandoned session changes no more (`DecisionIsFinal`), and no one who
  holds a reference meets an engine being dropped (`NoCallOnADroppedEngine`).
  `SInv` names the index of the tightest fix as a witness; that there is only
  one such index, and what appending a fix does to it, are lemmas.
  `StreamsHaveNoGaps`, wherever a callback throws: `StreamInv` ties the end of
  what a subscriber has heard to the number of the next fix the pump may call
  it with, which depends on whether it is still on the pump's list.
* *Recorder.* `NoRedFixIsSaved`: the field `bestFix`, what any finalizer
  took from it and what is in the log are never red, whatever overlaps.
  `WhatIsSavedIsItsOwn`: as long as no finalize has met another or a new start
  (`calm`, a history of just that), at most one is at work, it works for the
  capture on the screen, and each of its steps finds done what it builds on
  (`CalmInv`). What happens when two meet is section 5.
* *Update.* Of a process that fails or is killed, its finished file operations
  staying done, and of a payload nobody changes meanwhile. `NeverAMixture`: the invariant says what each directory holds at
  each step; that the copy is whole when its verification passes is
  `CopiedIsWhole`. `TheFirstFailureIsSurvived`: until the second fault, a
  whole tree is in the data directory or in the backup (`Kept`).
  `AnErrorLeavesTheData` adds where the tree the run began with is (`Found`).
* *Serve.* `PlottersMissNothing`, for any number of sinks of any kind, of
  clients and of fixes. `ServeInv` says where a client can be: outside, held by
  the accept thread of one sink, once in that sink's list, or gone; and what
  it has been sent if it is in the list. `SurvivorsAreTheRest` is the loop
  that removes the failed clients from last to first: a swap leaves the places
  before it as they were, so every index still names the client that failed.
* *Collector.* For any number of uploads, rebuilds, deletes, sweeps and
  interrupts (`UploadsAreWhole`, `DeletedIsNotListed`, `RowsHaveDirectories`).
  `CInv` has a conjunct for every pair of processes that may meet: a handler
  whose directory is in place and whose row is not (`Settled`, `Known`), a
  rebuild that saw that directory before or after (`Indexed`), a delete
  between its marker and its row (`Marked`, `Looked`), a sweep that holds its
  row until no transaction is open (`Gone`), and what is gone of a directory
  whose removal began (`Emptied`): if no sweep was interrupted, all of it, or
  the sweep is still at it, and only then may a rebuild list a deleted id.
* *Submission.* The composition is a collector (`SubmissionUsesCollector`), so
  its invariant holds there. With any number of flushers what is under `sent/`
  is or was stored whole (`NothingSentIsLost`). With one at a time (`OneFlusher`)
  the id recorded there is that of the copy (`SentNamesItsCopy`), the posts of
  an entry, its recorded attempts and the crashes keep in step at every system
  call (`Counted`, `AttemptsAreBounded`), and what leaves `pending/` has on
  disk what resolved it (`LeavesResolved`). `OneFlusher` is needed: the queue has
  no lock, see section 5.

Type invariants, `RingWithinCapacity`, `NewestFrameRetained`,
`FramesNeverReturn`, `PendingIsTheStreak`, `HoldersHaveEngine`,
`NeitherIsOverruled`, `RedIsNeverSaved` and `SentHasACopy` are theorems only;
the runs spend their time on other properties.

What a reader should not expect: liveness is TLC's alone
(`EveryEntryIsResolved`, `SavingEnds`, `EveryFixIsHeard`,
`EverySinkGetsEveryFix`, `CtrlCEnds`).

## 5. Where code and text disagree

Shown by a run:

1. *Dropping the engine never returns* (`session_drop`). `Engine::drop` joins
   the pump before the fields, the channel's sender among them, are dropped;
   the pump waits in `recv`. No subscriber hears `on_closed`. The unit tests
   keep an engine in a static "which also sidesteps `Engine::drop`'s blocking
   pump-join".
2. *An interrupted update, then another failure, leaves nothing whole*
   (`cli_intact`). "A failure at any point leaves the previous data intact"
   (subcommands.rs:30-32); the next run begins by deleting the backup, the only
   copy after a crash between the renames. One failure is survived, as proved.
3. *A kill takes the store away* (`store_kill`). The lock file is created with
   `create_new` and removed by `Drop` only. After a kill the next engine goes
   on with the disabled stand-in: it hydrates nothing, recovers no position,
   writes nothing. On Android this is the ordinary end: `SessionHolder` drops
   its reference to an engine, but the snapshot poll that `EngineWrapper`
   starts in a scope nobody cancels keeps another, so no engine is dropped
   while the process lives, and going back to an earlier session within one
   process meets its lock as well. The next ordinary `Drop`, the stand-in's,
   removes the lock.
4. *A capture that never times out* (`recorder_ends`). Stop is still offered
   while a capture is saved, and its job counts as active until the cleanup.
   Two finalizers leave two cleanups; the later one cancels, or forgets, the
   job of the next capture. Forgotten, it goes on: its watchdog and Stop
   return at once, for there is no `captureJob`.

Stated by a property that holds, against the text (no run is needed to find
the text violated: what the run shows is that the code does this always):

* *Records outlive the stitching window.* Storage holds frames and records for
  "at most `stitching_window_seconds`" and records "drop out of the queues when
  their source frames age out of the ring buffer" (stage_e.rs:422-426, again
  432-433; docs/design/sight_persistence.md:18-21). Neither is so: no age drops
  a record, a record keeps its frame, and both go only when the hard cap forces
  the frame out of a full ring (`RecordsLeaveOnlyByForce`). A record of a quiet
  session may be paired, and reduced again, arbitrarily late.
* *Two lines are enough to reject one.* "Below this many sights, only the
  absolute-intercept screen applies" (screen.rs:40-42) and the screen rejects
  "never sights whose own sigma says they should be uncertain" (screen.rs:10-14).
  Pass 2 has neither limit: of two lines in one direction with intercepts of
  opposite sign it drops the farther, whatever their number and sigmas
  (`NoContradictionKept`).
* *A restart reads `current.log` only.* "Accumulated sights survive process
  restart" (docs/design/sight_persistence.md:3-5), but a rotation
  (store.rs:430-450), which every hour brings, moves young sights into an
  archive that neither `hydrate_pool` (store.rs:257-287) nor `most_recent_fix`
  (312-338) opens: a restart just after it has few or none of them and no prior.
  `RestartRecovers` promises what was appended since the last rotation, and
  `engine_restart` has rotations.
* *A deleted entry can be listed again for a moment.* `remove_dir_all` may
  remove the marker before the manifest (store.rs:501); a rebuild that reads
  between the two (375) commits a row that is listed, with nobody interrupted,
  until the sweep deletes the row. If the sweep dies there, the row and what is
  left of the directory stay. `DeletedStaysHidden` and `EntriesAreWhole` say just
  that.
* *One bad sink may take down the others.* A sink that errors does not
  (nmea_transport.rs:43-44); one that blocks does, for standard output and a
  serial line have no write timeout (94-99, 340-343, 403): no sink gets a fix
  after that, and Ctrl-C waits for the write as well. The emission cost is not
  bounded either (365). `EverySinkGetsEveryFix` and `CtrlCEnds` hold if every
  write returns, and only then.

Met while modelling, not shown by a run:

* *Engine.* A change that falls into the throttle interval is forgotten: the
  module text makes a publication due when the window has changed since the
  last attempt, the code asks whether this push changed it. The solver's
  comment says it asserts one assumed position; sights hydrated from another
  session bring theirs. `stage_e.rs:282-284` speaks of one sight ever per
  observation; the dedup reaches only to the current window, so a displaced
  sight comes back (and may be logged twice, with two sigmas).
  `frame_by_id`'s text protects frames of sights in the window; `evict` looks
  at records only. `fix_stream`'s text allows to subscribe again after dropping
  the receiver; the slot stays empty. `push_frame`'s text counts dropped
  frames; none are. `fix.rs` calls the timestamp that of the newest sight; it
  is that of the newest candidate. A cold start solves over the whole window,
  sights the screen rejected included; the consensus pass may reject every
  sight (0, 0, 100, 100).
* *Pipeline.* `reflection_pair_used` is true whenever the pair saw something,
  not when it was used (mod.rs:183-185). The classifier never answers
  `Unusable`. On a twilight frame with a day body the second pass never runs,
  for its secondaries are dropped. config.rs:271 says of the
  early termination threshold "Set to `f64::INFINITY` to always try every
  detector"; every line is below it, so the search stops after the first
  provider that sees one.
* *Sight store.* sight_persistence.md:286 says `Engine::new` refuses to start
  on a held lock and :408 that the lock enforces one writer; the stand-in's
  `Drop` removes the other's lock files, and two writers may overwrite each
  other's archive. The doc prunes at each rotation, the code only at open.
  A write torn while the process goes on shifts the records after it. A clock
  that steps back would make `expect("file open")` panic: the model's
  hours only grow, and `NeverPanics` says so.
* *Command line.* A capture loop that fails does not end `serve`: main holds
  the engine, the channel never closes, and the branch for its end is dead.
  A camera that stalls blocks the join after Ctrl-C; fixes still queued are
  dropped. The comment at main.rs:2589-2592 says the handler runs once, the
  library calls it each time. `bris capture --frames N` returns on frame N+1.
  `update` syncs neither the copies nor the directories (subcommands.rs:154-169,
  237-267): after a power loss, once the backup is dropped, the data directory
  may hold cut files and nothing whole be left, by one failure of the machine.
  The properties of `Update` are about a process. It reads the payload twice, to
  verify (135) and to copy (164), so a payload changed in between is installed
  unverified; the model's payload does not change. It ignores a restoring rename
  that fails too (259), and takes no lock against another `update`; if only the
  removal of the backup fails it reports an error with the new data in place. A
  sentence carries the time of its dispatch.
* *Foreign interface.* A session takes its first fix whatever its sigma
  (lib.rs:1069-1075): were that not a number, no later one would be smaller and
  the session would keep it, though "non-finite σ never displace" a better one.
  Sigmas are numbers here.
  `subscribe_fixes` promises no backfill; what waits in
  the channel is delivered to a new subscriber. `approve_and_enqueue` takes
  the review before an enqueue that may fail.
* *Recorder.* An `engine.frameById` that throws does so after Saving is on the
  screen and before the `try` (CaptureRecorder.kt:308); nothing catches it and
  the process ends, with the capture unsaved. The model's call returns. `onFix`
  writes back a copy of a status read before, so a Stop may
  leave the screen on Capturing. `bestFix` and `bestVerdict` are read one after
  the other. `CaptureFrameWriter` says its last frames come after the
  analyzer has stopped; its sequence number is raced. Two `appendCapture` of
  one session may lose an id. The first capture without a session goes to the
  recorder of none, as LiveScreen.kt says itself.
* *Submission and collector.* Two flushers: f1 loads, f2 loads, f1 is accepted
  and writes the collector id, f2 fails and writes its copy, f1 renames;
  `sent/` holds an entry with no id, against queue.rs:18 "audit trail"; each
  counts the attempts it has read, so together they may exceed max_attempts.
  An answer is recorded after it is read: a flusher that dies between the two
  posts an entry again that was accepted, or refused for good.
  `rebuild_index` walks the tree, then locks and deletes every row: a
  submission accepted in between is on disk and in no row. A lost answer
  stores a submission twice; nothing in the request lets the collector see
  that it is the same. A `remove_dir_all` that stops half way may have taken
  the deletion marker first, and a rebuild then lists what is left;
  `GoneMeansUnindexed` speaks of sweeps that are not interrupted.

## 6. Not modelled, and the plan

By far the most lines of the repository are functions of one image or of
numbers: detectors, night and day horizon, stitching, plate solver, almanac,
geometry, least squares, calibration, bundle formats, and the subcommands of
`bris` that read, compute and print. They hold no state and meet no other actor;
in floating point they are out of TLC's reach, and what the models need of them
is the set of their possible answers. So the map covers a small share of the
code, and nearly all of what keeps state.

Within the modelled components these parts are left out: `cfg.enabled = false`
of the fusion, and a mean of normals that makes no line in the image; the
diagnostics, `frame_by_id` and the vertical-line prior of the engine;
`open_or_init_log`'s branch for a foreign magic number, the ten thousand names
of `unique_archive_path`, and a reader without the lock of the sight store;
a window of capacity 0; UDP and serial errors beyond a failed write;
authentication, listing and device registration of the collector, which are
single reads or single SQL statements; of the recorder the
frame tap, counters and verdicts; `SessionHolder`; review and payload of a
submission.

What comes next:

1. `Engine`'s logs, which rotate and fail by parameters now, as an abstraction
   of `SightStore`, with restarts that meet a held lock.
2. `FixFeed`, an abstract specification of what a consumer may rely on (fixes
   move forward, none twice, each reproducible), with `Engine` shown to
   implement it, and `Serve`, `FixPump` and `Recorder` as its consumers.
3. `SessionHolder` and `EngineWrapper` over `SightStore`: sessions switched
   within one process.
4. Several flushers in `Submission`, with the properties that survive them;
   one of those, `NothingSentIsLost`, is proved already.
