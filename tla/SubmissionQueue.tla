--------------------------- MODULE SubmissionQueue ---------------------------
(***************************************************************************)
(* The on-disk queue of approved submissions (bris-submit/src/queue.rs) and *)
(* the processes that flush it.  Every `bris submit` and every "Upload now" *)
(* of the app is a flusher of its own; nothing locks the queue, so two may  *)
(* run over the same directory.                                            *)
(*                                                                         *)
(* An entry is a directory: its place is the one of .staging/, pending/,    *)
(* sent/ and dead/ it stands in, and it moves by rename(2).  The manifest   *)
(* and the parts are left out but for `corrupt`, the entries whose bytes no *)
(* longer match their checksums.  The backoff is a gate that opens at any   *)
(* moment after it was closed.                                             *)
(***************************************************************************)
EXTENDS Integers, FiniteSets

CONSTANTS
  Submissions,     \* the queue ids: ULIDs, ordered by the time of enqueueing
  Flushers,        \* the processes that run drain_once
  MaxAttempts,     \* SubmissionQueue::max_attempts
  MayCorrupt,      \* the entries whose parts may drift on disk
  NoCollectorId,   \* Option::None
  MaxCrashes       \* bound: crashes of a flusher, and failed writes, in one behaviour

ASSUME QueueConstants ==
  /\ Submissions \subseteq Nat
  /\ MaxAttempts \in Nat \ {0}
  /\ MayCorrupt \subseteq Submissions
  /\ MaxCrashes \in Nat

VARIABLES
  entry,     \* for each id [place, attempts, gated, collector_id, rejected]
  corrupt,   \* the entries load_submission refuses
  flusher,   \* for each flusher [pc, todo, id, state, target]
  posts,     \* history: how often an entry was handed to the transport
  crashes    \* how many crashes there were

qvars == <<entry, corrupt, flusher, posts, crashes>>

Fresh == [attempts |-> 0, gated |-> FALSE,
          collector_id |-> NoCollectorId, rejected |-> FALSE]

\* state.json of an entry, and an entry that has it.
StateOf(e) == [k \in DOMAIN Fresh |-> e[k]]
EntryWith(place, state) ==
  [k \in DOMAIN state \cup {"place"} |-> IF k = "place" THEN place ELSE state[k]]

Idle == [pc |-> "idle", todo |-> {}, id |-> 0, state |-> Fresh, target |-> "none"]

In(place) == {s \in Submissions : entry[s].place = place}

QInit ==
  /\ entry = [s \in Submissions |-> EntryWith("none", Fresh)]
  /\ corrupt = {}
  /\ flusher = [f \in Flushers |-> Idle]
  /\ posts = [s \in Submissions |-> 0]
  /\ crashes = 0

-----------------------------------------------------------------------------
(* enqueue: an approved submission is assembled in .staging/ and renamed    *)
(* into pending/.  A crash in between leaves it in .staging/ for good.      *)

Assemble(s) ==
  /\ entry[s].place = "none"
  /\ \A t \in Submissions : t < s => entry[t].place # "none"
  /\ entry' = [entry EXCEPT ![s] = EntryWith("staging", Fresh)]
  /\ UNCHANGED <<corrupt, flusher, posts, crashes>>

Enqueue(s) ==
  /\ entry[s].place = "staging"
  /\ entry' = [entry EXCEPT ![s].place = "pending"]
  /\ UNCHANGED <<corrupt, flusher, posts, crashes>>

-----------------------------------------------------------------------------
(* drain_once: one pass of a flusher over the ids that were pending.        *)

At(f, pc) == flusher[f].pc = pc

\* Mutant of PendingIds: an entry gets one pass.
PendingOnce == {s \in In("pending") : entry[s].attempts = 0}

PendingIds == In("pending")

StartPass(f) ==
  /\ At(f, "idle")
  /\ PendingIds # {}
  /\ flusher' = [flusher EXCEPT ![f] =
                   [Idle EXCEPT !.pc = "pass", !.todo = PendingIds]]
  /\ UNCHANGED <<entry, corrupt, posts, crashes>>

\* ids.sort()
IsNext(f, s) == s \in flusher[f].todo /\ \A t \in flusher[f].todo : s <= t

\* The pass goes on to the entry after s.
NextEntry(f, s) == [Idle EXCEPT !.pc = IF flusher[f].todo = {s} THEN "idle" ELSE "pass",
                                !.todo = flusher[f].todo \ {s}]

\* load_state and load_submission find the entry, and its parts unchanged.
Loadable(s) == entry[s].place = "pending" /\ s \notin corrupt

\* attempt_pending up to the transport: deferred, handed to it, or an error
\* that ends the pass.
Defer(f, s) ==
  /\ At(f, "pass") /\ IsNext(f, s)
  /\ entry[s].place = "pending" /\ entry[s].gated
  /\ flusher' = [flusher EXCEPT ![f] = NextEntry(f, s)]
  /\ UNCHANGED <<entry, corrupt, posts, crashes>>

Send(f, s) ==
  /\ At(f, "pass") /\ IsNext(f, s)
  /\ Loadable(s) /\ ~ entry[s].gated
  /\ flusher' = [flusher EXCEPT ![f].pc = "sending", ![f].id = s,
                                ![f].state = StateOf(entry[s])]
  /\ posts' = [posts EXCEPT ![s] = @ + 1]
  /\ UNCHANGED <<entry, corrupt, crashes>>

LoadFails(f, s) ==
  /\ At(f, "pass") /\ IsNext(f, s)
  /\ ~ Loadable(s) /\ ~ (entry[s].place = "pending" /\ entry[s].gated)
  /\ flusher' = [flusher EXCEPT ![f] = Idle]
  /\ UNCHANGED <<entry, corrupt, posts, crashes>>

\* The new state in memory and where the entry is to go; the transport's
\* answer is an id, "permanent" or "transient".
Accepted(state, c) == [state EXCEPT !.collector_id = c]
Rejected(state) == [state EXCEPT !.rejected = TRUE]

\* Mutant of Failed: the attempt is not counted.
FailedUncounted(state) == [state EXCEPT !.gated = TRUE]

Exhausted(state) == state.attempts >= MaxAttempts

Failed(state) ==
  LET counted == [state EXCEPT !.attempts = @ + 1]
  IN IF Exhausted(counted) THEN Rejected(counted) ELSE [counted EXCEPT !.gated = TRUE]

Answered(f, state, target) ==
  /\ At(f, "sending")
  /\ flusher' = [flusher EXCEPT ![f].pc = "writing", ![f].state = state,
                                ![f].target = target]
  /\ UNCHANGED <<entry, corrupt, posts, crashes>>

Accept(f, c) == Answered(f, Accepted(flusher[f].state, c), "sent")
Refuse(f) == Answered(f, Rejected(flusher[f].state), "dead")
Fail(f) == LET state == Failed(flusher[f].state)
           IN Answered(f, state, IF Exhausted(state) THEN "dead" ELSE "pending")

\* Mutant of WriteState: an entry that is to move keeps its old state.
WriteRetryOnly(f) ==
  LET s == flusher[f].id
      retry == flusher[f].target = "pending"
  IN /\ At(f, "writing") /\ entry[s].place = "pending"
     /\ entry' = IF retry THEN [entry EXCEPT ![s] = EntryWith("pending", flusher[f].state)]
                          ELSE entry
     /\ flusher' = [flusher EXCEPT ![f] =
                      IF retry THEN NextEntry(f, s) ELSE [@ EXCEPT !.pc = "clearing"]]
     /\ UNCHANGED <<corrupt, posts, crashes>>

\* write_state replaces pending/<id>/state.json, if the entry is still there;
\* after a retry the pass goes on, else the entry moves.
WriteState(f) ==
  LET s == flusher[f].id
      retry == flusher[f].target = "pending"
  IN /\ At(f, "writing")
     /\ IF entry[s].place = "pending"
          THEN /\ entry' = [entry EXCEPT ![s] = EntryWith("pending", flusher[f].state)]
               /\ flusher' = [flusher EXCEPT ![f] =
                                IF retry THEN NextEntry(f, s) ELSE [@ EXCEPT !.pc = "clearing"]]
          ELSE /\ UNCHANGED entry
               /\ flusher' = [flusher EXCEPT ![f] = Idle]
     /\ UNCHANGED <<corrupt, posts, crashes>>

\* move_entry makes way at the target: what stands there is removed.
ClearTarget(f) ==
  LET s == flusher[f].id
  IN /\ At(f, "clearing")
     /\ entry' = IF entry[s].place = flusher[f].target
                   THEN [entry EXCEPT ![s].place = "gone"] ELSE entry
     /\ flusher' = [flusher EXCEPT ![f].pc = "moving"]
     /\ UNCHANGED <<corrupt, posts, crashes>>

\* ... and rename(2) moves the entry, or finds it gone.
Move(f) ==
  LET s == flusher[f].id
      here == entry[s].place = "pending"
  IN /\ At(f, "moving")
     /\ entry' = IF here THEN [entry EXCEPT ![s].place = flusher[f].target] ELSE entry
     /\ flusher' = [flusher EXCEPT ![f] = IF here THEN NextEntry(f, s) ELSE Idle]
     /\ UNCHANGED <<corrupt, posts, crashes>>

-----------------------------------------------------------------------------
(* The environment.                                                        *)

BackoffElapses(s) ==
  /\ entry[s].place = "pending" /\ entry[s].gated
  /\ entry' = [entry EXCEPT ![s].gated = FALSE]
  /\ UNCHANGED <<corrupt, flusher, posts, crashes>>

PartsDrift(s) ==
  /\ s \in MayCorrupt \ corrupt /\ entry[s].place = "pending"
  /\ corrupt' = corrupt \cup {s}
  /\ UNCHANGED <<entry, flusher, posts, crashes>>

\* A flusher dies, or a write or rename of its own fails: the error ends its
\* pass, and what it has not written yet is forgotten either way.  A state is
\* written beside the old one and renamed, so there is no half of one.
FlusherCrashes(f) ==
  /\ ~ At(f, "idle") /\ crashes < MaxCrashes
  /\ crashes' = crashes + 1
  /\ flusher' = [flusher EXCEPT ![f] = Idle]
  /\ UNCHANGED <<entry, corrupt, posts>>

\* What one flusher does between answers.
FlusherStep(f) ==
  \/ StartPass(f)
  \/ \E s \in Submissions : Defer(f, s) \/ Send(f, s) \/ LoadFails(f, s)
  \/ WriteState(f) \/ ClearTarget(f) \/ Move(f)

QueueStep ==
  \/ \E s \in Submissions :
       Assemble(s) \/ Enqueue(s) \/ BackoffElapses(s) \/ PartsDrift(s)
  \/ \E f \in Flushers : FlusherStep(f) \/ FlusherCrashes(f)

=============================================================================
