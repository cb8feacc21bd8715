------------------------------ MODULE Recorder ------------------------------
(***************************************************************************)
(* The Android application's recorder of captures (CaptureRecorder.kt)      *)
(* under its screen (LiveScreen.kt).  The operator taps on the main thread; *)
(* everything else is a coroutine of a scope without a dispatcher of its    *)
(* own, so all of them run in parallel, over fields nothing guards: of each *)
(* capture a collector of fixes and a watchdog, a coroutine for every tap   *)
(* on Stop, and one that cleans up after every finalize.                    *)
(*                                                                         *)
(* A capture is the number of its start.  A fix is its sigma; the watchdog  *)
(* may fire at any moment, by sustained green or by its timeout.            *)
(***************************************************************************)
EXTENDS Integers, FiniteSets

CONSTANTS
  Sigmas,        \* the sigma_major_nm a fix may have
  HardSigma,     \* CaptureThresholds::hardSigmaNm
  NoFix,         \* no fix, CaptureOutcome.NoFix
  NoEntry,       \* nothing in the sight log
  CallsMayFail,  \* TRUE iff what finalize calls may throw
  MaxCaptures,   \* bound: captures started
  MaxStops,      \* bound: taps on Stop
  MaxFixes       \* bound: fixes a capture hears

ASSUME RecorderConstants ==
  /\ Sigmas \subseteq Nat /\ NoFix \notin Nat
  /\ NoEntry \notin [fix : Sigmas \cup {NoFix}, offered : SUBSET Sigmas]
  /\ CallsMayFail \in BOOLEAN
  /\ {HardSigma, MaxCaptures, MaxStops, MaxFixes} \subseteq Nat

Captures == 1 .. MaxCaptures
None == 0
Watchdogs == {"watchdog"} \X Captures
Stops == {"stop"} \X (1 .. MaxStops)
Finalizers == Watchdogs \cup Stops

VARIABLES
  status,       \* _status
  main,         \* the main thread: "idle", or "launching" inside start()
  captureId,    \* and captureDir, set with it
  captureJob,   \* the capture whose job it is, or None
  job,          \* the job of each capture: "none", "active" or "cancelled"
  bestFix,
  frameWriter,  \* the capture whose directory it writes to, or None
  collector,    \* of each capture: "idle", or "showing" inside onFix
  fin,          \* each call of finalize: where it is and what it holds
  cleanup,      \* the coroutine each finalize leaves behind
  entries,      \* the sight log: the outcome under each capture's id
  bundles,      \* the captures with a bundle.json
  listed,       \* ordered_capture_ids of the session
  seen,        \* history: the fixes each capture was given
  calm          \* history: no finalize met another, or a start

fields == <<captureId, captureJob, bestFix, frameWriter>>
disk == <<entries, bundles, listed>>
rvars == <<status, main, fields, job, collector, fin, cleanup, disk,
           seen, calm>>

Uncalled == [pc |-> "none", fix |-> NoFix, dir |-> None, offered |-> {}]
Finished == [Uncalled EXCEPT !.pc = "done"]
NoCleanup == [pc |-> "none", job |-> None]
Is(kind, c) == [is |-> kind, of |-> c]

RInit ==
  /\ status = Is("Idle", None) /\ main = "idle"
  /\ captureId = None /\ captureJob = None
  /\ bestFix = NoFix /\ frameWriter = None
  /\ job = [c \in Captures |-> "none"]
  /\ collector = [c \in Captures |-> "idle"]
  /\ fin = [f \in Finalizers |-> Uncalled]
  /\ cleanup = [f \in Finalizers |-> NoCleanup]
  /\ entries = [c \in Captures |-> NoEntry]
  /\ bundles = {} /\ listed = {}
  /\ seen = [c \in Captures |-> {}]
  /\ calm = TRUE

Active(c) == c # None /\ job[c] = "active"

\* No finalize runs and none has anything left to clean up.
Quiet ==
  \A f \in Finalizers :
    fin[f].pc \in {"none", "done"} /\ cleanup[f].pc \in {"none", "done"}

-----------------------------------------------------------------------------
(* The main thread: taps on the one button of the screen, which follows the *)
(* status before the next tap.                                             *)

CaptureActive == status.is \in {"Capturing", "Saving"}

\* Mutant of Unset: the best fix of the capture before is still there.
Kept == bestFix

\* bestFix as start() leaves it.
Unset == NoFix

\* start(): nothing if the job is active; else the fields, the writer and the
\* status of a new capture ...
Start ==
  /\ main = "idle" /\ ~ CaptureActive /\ captureId < MaxCaptures
  /\ ~ Active(captureJob)
  /\ captureId' = captureId + 1
  /\ bestFix' = Unset
  /\ frameWriter' = captureId'
  /\ status' = Is("Capturing", captureId')
  /\ main' = "launching"
  /\ calm' = (calm /\ Quiet)
  /\ UNCHANGED <<captureJob, job, collector, fin, cleanup, disk, seen>>

\* ... and then its job.
Launch ==
  /\ main = "launching"
  /\ main' = "idle"
  /\ captureJob' = captureId
  /\ job' = [job EXCEPT ![captureId] = "active"]
  /\ UNCHANGED <<status, captureId, bestFix, frameWriter, collector,
                 fin, cleanup, disk, seen, calm>>

Called(f) == fin' = [fin EXCEPT ![f].pc = "called"]

\* stop(): offered while the status is Saving, too.
TapStop(f) ==
  /\ f \in Stops /\ fin[f].pc = "none"
  /\ main = "idle" /\ CaptureActive
  /\ Called(f)
  /\ UNCHANGED <<status, main, fields, job, collector, cleanup, disk, seen, calm>>

-----------------------------------------------------------------------------
(* The job of a capture.                                                   *)

\* onFix: the best so far, then a look at the status ...
Hear(c, sigma) ==
  /\ Active(c) /\ collector[c] = "idle"
  /\ sigma \notin seen[c] /\ Cardinality(seen[c]) < MaxFixes
  /\ seen' = [seen EXCEPT ![c] = @ \cup {sigma}]
  /\ bestFix' = IF sigma <= HardSigma /\ (bestFix = NoFix \/ sigma < bestFix)
                  THEN sigma ELSE bestFix
  /\ collector' = [collector EXCEPT ![c] =
                     IF status.is = "Capturing" THEN "showing" ELSE @]
  /\ UNCHANGED <<status, main, captureId, captureJob, frameWriter, job,
                 fin, cleanup, disk, calm>>

\* ... of which it then writes a copy, whatever the status is by now.
Show(c) ==
  /\ collector[c] = "showing"
  /\ collector' = [collector EXCEPT ![c] = "idle"]
  /\ status' = Is("Capturing", c)
  /\ UNCHANGED <<main, fields, job, fin, cleanup, disk, seen, calm>>

\* Sustained green, or the timeout: finalize, and then the watchdog returns.
Expire(c) ==
  /\ Active(c) /\ fin[<<"watchdog", c>>].pc = "none"
  /\ Called(<<"watchdog", c>>)
  /\ UNCHANGED <<status, main, fields, job, collector, cleanup, disk, seen, calm>>

-----------------------------------------------------------------------------
(* finalize.                                                               *)

Alone(f) ==
  \A g \in Finalizers \ {f} :
    fin[g].pc \in {"none", "called", "done"} /\ cleanup[g].pc \in {"none", "done"}

\* Mutant of Enter: Saving is shown before anything is asked.
SaveThenEnter(f) ==
  /\ fin[f].pc = "called"
  /\ fin' = [fin EXCEPT ![f].pc = IF Active(captureJob) THEN "entered" ELSE "done"]
  /\ status' = Is("Saving", captureId)
  /\ calm' = (calm /\ Alone(f))
  /\ UNCHANGED <<main, fields, job, collector, cleanup, disk, seen>>

\* Without an active job it returns at once ...
Enter(f) ==
  /\ fin[f].pc = "called"
  /\ fin' = [fin EXCEPT ![f].pc = IF Active(captureJob) THEN "entered" ELSE "done"]
  /\ calm' = (calm /\ Alone(f))
  /\ UNCHANGED <<status, main, fields, job, collector, cleanup, disk, seen>>

\* ... else it takes what is best now, and the engine's frames of it.  The engine
\* answers with a frame or with none.  Should frameById throw after all (a panic
\* behind it, an engine already destroyed), nothing catches it: the process ends.
Take(f) ==
  /\ fin[f].pc = "entered"
  /\ status' = Is("Saving", captureId)
  /\ fin' = [fin EXCEPT ![f].pc = "writing", ![f].fix = bestFix,
               ![f].offered = seen[captureId]]
  /\ UNCHANGED <<main, fields, job, collector, cleanup, disk, seen, calm>>

\* writeEntry, under the id of this moment.
WriteEntry(f) ==
  /\ fin[f].pc = "writing"
  /\ entries' = [entries EXCEPT ![captureId] =
                   [fix |-> fin[f].fix, offered |-> fin[f].offered]]
  /\ fin' = [fin EXCEPT ![f].pc = "closing", ![f].dir = captureId]
  /\ UNCHANGED <<status, main, fields, job, collector, cleanup, bundles,
                 listed, seen, calm>>

\* The writer of this moment, if there is one, gets the fix's frames and is
\* closed, and its bundle.json is written.
WriteBundle(f) ==
  /\ fin[f].pc = "closing"
  /\ bundles' = IF frameWriter = None THEN bundles ELSE bundles \cup {captureId}
  /\ frameWriter' = None
  /\ fin' = [fin EXCEPT ![f].pc = "reporting"]
  /\ UNCHANGED <<status, main, captureId, captureJob, bestFix, job,
                 collector, cleanup, entries, listed, seen, calm>>

Report(f) ==
  /\ fin[f].pc = "reporting"
  /\ status' = Is("Saved", fin[f].dir)
  /\ fin' = [fin EXCEPT ![f].pc = "listing"]
  /\ UNCHANGED <<main, fields, job, collector, cleanup, disk, seen, calm>>

\* The last act of every finalize that entered: its cleanup.
Leaves(f) ==
  /\ fin' = [fin EXCEPT ![f] = Finished]
  /\ cleanup' = [cleanup EXCEPT ![f].pc = "launched"]

\* onCaptureSaved: appendCapture of the id of this moment.
ListCapture(f) ==
  /\ fin[f].pc = "listing"
  /\ listed' = listed \cup {captureId}
  /\ Leaves(f)
  /\ UNCHANGED <<status, main, fields, job, collector, entries, bundles,
                 seen, calm>>

\* Whatever throws between Take and the end: a call of the file system, or
\* the wait for the device's id in a watchdog that has been cancelled.
Throws(f) ==
  /\ CallsMayFail
  /\ fin[f].pc \in {"writing", "closing", "reporting", "listing"}
  /\ status' = Is("Failed", captureId)
  /\ frameWriter' = None
  /\ Leaves(f)
  /\ UNCHANGED <<main, captureId, captureJob, bestFix, job, collector,
                 disk, seen, calm>>

\* The cleanup, in a coroutine of its own: cancel what is captureJob now ...
Cancel(f) ==
  /\ cleanup[f].pc = "launched"
  /\ cleanup' = [cleanup EXCEPT ![f] = [pc |-> "joining", job |-> captureJob]]
  /\ job' = [c \in Captures |-> IF c = captureJob THEN "cancelled" ELSE job[c]]
  /\ UNCHANGED <<status, main, fields, collector, fin, disk, seen, calm>>

\* The children of a job have returned.
Returned(c) ==
  /\ collector[c] = "idle"
  /\ fin[<<"watchdog", c>>].pc \in {"none", "done"}

\* ... and once it is joined, there is no captureJob.
Forget(f) ==
  /\ cleanup[f].pc = "joining"
  /\ cleanup[f].job \in Captures => Returned(cleanup[f].job)
  /\ captureJob' = None
  /\ cleanup' = [cleanup EXCEPT ![f] = [NoCleanup EXCEPT !.pc = "done"]]
  /\ UNCHANGED <<status, main, captureId, bestFix, frameWriter, job,
                 collector, fin, disk, seen, calm>>

-----------------------------------------------------------------------------
FinalizeStep(f) ==
  \/ Enter(f) \/ Take(f) \/ WriteEntry(f) \/ WriteBundle(f) \/ Report(f)
  \/ ListCapture(f) \/ Throws(f)

CleanupStep(f) == Cancel(f) \/ Forget(f)

RNext ==
  \/ Start \/ Launch
  \/ \E c \in Captures : Expire(c) \/ Show(c) \/ \E sigma \in Sigmas : Hear(c, sigma)
  \/ \E f \in Finalizers : TapStop(f) \/ FinalizeStep(f) \/ CleanupStep(f)

\* Every coroutine that can run does, and every watchdog's time comes; the
\* operator need not tap, no fix need come.
RFairness ==
  /\ WF_rvars(Launch)
  /\ \A c \in Captures : WF_rvars(Expire(c)) /\ WF_rvars(Show(c))
  /\ \A f \in Finalizers : WF_rvars(FinalizeStep(f) \/ CleanupStep(f))

RSpec == RInit /\ [][RNext]_rvars /\ RFairness

-----------------------------------------------------------------------------
(* Properties.                                                             *)

\* fix is the least sigma of those offered that is not red; NoFix if all are.
IsBest(fix, offered) ==
  LET fit == {s \in offered : s <= HardSigma}
  IN IF fit = {} THEN fix = NoFix
                 ELSE fix \in fit /\ \A s \in fit : fix <= s

\* As long as no finalize meets another or a new start, what the screen calls
\* saved is on disk whole - its entry, its bundle, its place in the session -
\* and the entry's fix is the best of what this capture was given, whatever the
\* captures before it left in the fields (CaptureRecorder.kt:167-186, 292-427).
SavedIsItsOwnBest ==
  calm /\ Quiet /\ status.is = "Saved" =>
    LET c == status.of
    IN /\ entries[c] # NoEntry /\ c \in bundles /\ c \in listed
       /\ IsBest(entries[c].fix, entries[c].offered)

\* CaptureRecorder.kt:21-23 (doc of hardSigmaNm): a red fix is "never accepted,
\* even at session timeout" - nor by a finalize that works for two captures.
RedIsNeverSaved ==
  \A c \in Captures :
    entries[c] # NoEntry => entries[c].fix = NoFix \/ entries[c].fix <= HardSigma

\* However many calls of finalize meet, and whatever throws in them, the
\* screen does not keep showing Saving: one that shows it reports.
SavingEnds == status.is = "Saving" ~> status.is # "Saving"

\* CaptureRecorder.kt:71-73 (doc): "The session times out after
\* `thresholds.timeoutMs`".
SessionsTimeOut == \A c \in Captures : job[c] = "active" ~> job[c] # "active"

=============================================================================
