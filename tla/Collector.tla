------------------------------ MODULE Collector ------------------------------
(***************************************************************************)
(* The collector's store (bris-collector/src/store.rs) and everyone who     *)
(* works on it at once: the handlers of POST /v1/submissions, and the       *)
(* operator's index-rebuild, soft-delete and retention-sweep, which are     *)
(* processes of their own over the same directory and SQLite file.          *)
(*                                                                         *)
(* The directory tree is the source of truth: for each id the files its     *)
(* directory holds (none: no directory).  The index is a table of rows;     *)
(* a write of another process waits while a rebuild's transaction is open.  *)
(* A directory is created by one rename; remove_dir_all takes its files     *)
(* one by one, in whatever order the file system lists them.                *)
(***************************************************************************)
EXTENDS Integers, FiniteSets

CONSTANTS
  Ids,             \* the ULIDs post_submission may draw, each once
  MaxInterrupts    \* bound: crashes and failed system calls in one behaviour

ASSUME CollectorConstants == MaxInterrupts \in Nat

VARIABLES
  staging,     \* the ids with a directory under .staging/
  files,       \* for each id, what its directory holds
  rows,        \* for each id its index row: "none", "listed" or "hidden"
  post,        \* for each id, how far its handler is
  rebuild,     \* [pc, todo, reading, rows] of index-rebuild
  deleter,     \* [pc, id] of soft-delete
  sweeper,     \* [pc, todo, id] of retention-sweep
  due,         \* the ids whose marker is older than the retention window
  interrupts,  \* how many interrupts there were
  deleted,     \* history: the ids soft_delete returned Ok for
  purged       \* history: the ids whose directory a sweep began to remove

store == <<staging, files, rows>>
operators == <<rebuild, deleter, sweeper>>
cvars == <<store, post, operators, due, interrupts, deleted, purged>>

Payload == {"manifest", "media"}
Marker == "marker"   \* DELETED_MARKER

IdleRebuild == [pc |-> "idle", todo |-> {}, reading |-> {}, rows |-> [c \in Ids |-> "none"]]
IdleDeleter == [pc |-> "idle", id |-> {}]
IdleSweeper == [pc |-> "idle", todo |-> {}, id |-> {}]

CInit ==
  /\ staging = {}
  /\ files = [c \in Ids |-> {}]
  /\ rows = [c \in Ids |-> "none"]
  /\ post = [c \in Ids |-> "unused"]
  /\ rebuild = IdleRebuild /\ deleter = IdleDeleter /\ sweeper = IdleSweeper
  /\ due = {} /\ interrupts = 0 /\ deleted = {} /\ purged = {}

\* The write lock of the database is free.
Unlocked == rebuild.pc # "transaction"

Interrupt == interrupts < MaxInterrupts /\ interrupts' = interrupts + 1

-----------------------------------------------------------------------------
(* post_submission: validation has passed, save_submission runs.           *)

\* Mutant of Stage: the files are written in place.
StageInPlace(c) ==
  /\ post[c] = "unused"
  /\ post' = [post EXCEPT ![c] = "staged"]
  /\ staging' = staging \cup {c}
  /\ files' = [files EXCEPT ![c] = {"manifest"}]
  /\ UNCHANGED <<rows, operators, due, interrupts, deleted, purged>>

\* The media, then the manifest, into .staging/.
Stage(c) ==
  /\ post[c] = "unused"
  /\ post' = [post EXCEPT ![c] = "staged"]
  /\ staging' = staging \cup {c}
  /\ UNCHANGED <<files, rows, operators, due, interrupts, deleted, purged>>

\* The rename into submissions/<yyyy>/<mm>/<dd>/.
Place(c) ==
  /\ post[c] = "staged"
  /\ post' = [post EXCEPT ![c] = "placed"]
  /\ staging' = staging \ {c}
  /\ files' = [files EXCEPT ![c] = Payload]
  /\ UNCHANGED <<rows, operators, due, interrupts, deleted, purged>>

\* Mutant of Insert: the client is answered before the rename.
InsertStaged(c) ==
  /\ post[c] = "staged" /\ Unlocked
  /\ rows' = [rows EXCEPT ![c] = "listed"]
  /\ post' = [post EXCEPT ![c] = "accepted"]
  /\ UNCHANGED <<staging, files, operators, due, interrupts, deleted, purged>>

\* The INSERT; a row that a rebuild put there first is a key conflict, and
\* the client is told 500.
Insert(c) ==
  /\ post[c] = "placed" /\ Unlocked
  /\ rows' = IF rows[c] = "none" THEN [rows EXCEPT ![c] = "listed"] ELSE rows
  /\ post' = [post EXCEPT ![c] = IF rows[c] = "none" THEN "accepted" ELSE "failed"]
  /\ UNCHANGED <<staging, files, operators, due, interrupts, deleted, purged>>

\* A system call or a statement fails: 500, and what was done stays.
SaveFails(c) ==
  /\ post[c] \in {"staged", "placed"}
  /\ Interrupt
  /\ post' = [post EXCEPT ![c] = "failed"]
  /\ UNCHANGED <<store, operators, due, deleted, purged>>

\* The server dies with all of its handlers.
ServerCrashes ==
  /\ \E c \in Ids : post[c] \in {"staged", "placed"}
  /\ Interrupt
  /\ post' = [c \in Ids |-> IF post[c] \in {"staged", "placed"} THEN "failed" ELSE post[c]]
  /\ UNCHANGED <<store, operators, due, deleted, purged>>

Handler(c) == Stage(c) \/ Place(c) \/ Insert(c) \/ SaveFails(c)

-----------------------------------------------------------------------------
(* rebuild_index.                                                          *)

\* walk_manifests, before the lock is taken.
RebuildWalk ==
  /\ rebuild.pc = "idle"
  /\ rebuild' = [IdleRebuild EXCEPT !.pc = "walked",
                   !.todo = {c \in Ids : "manifest" \in files[c]}]
  /\ UNCHANGED <<store, post, deleter, sweeper, due, interrupts, deleted, purged>>

\* The transaction opens with DELETE FROM submissions.
RebuildBegin ==
  /\ rebuild.pc = "walked"
  /\ rebuild' = [rebuild EXCEPT !.pc = "transaction"]
  /\ UNCHANGED <<store, post, deleter, sweeper, due, interrupts, deleted, purged>>

\* One manifest is read, or is gone and skipped ...
RebuildRead(c) ==
  /\ rebuild.pc = "transaction" /\ rebuild.reading = {} /\ c \in rebuild.todo
  /\ rebuild' = [rebuild EXCEPT !.todo = @ \ {c},
                   !.reading = IF "manifest" \in files[c] THEN {c} ELSE {}]
  /\ UNCHANGED <<store, post, deleter, sweeper, due, interrupts, deleted, purged>>

\* Mutant of RowFor: the marker is not looked at.
RowUnmarked(c) == "listed"

RowFor(c) == IF Marker \in files[c] THEN "hidden" ELSE "listed"

\* ... and then its marker, and the row goes into the transaction.
RebuildIndex(c) ==
  /\ rebuild.pc = "transaction" /\ rebuild.reading = {c}
  /\ rebuild' = [rebuild EXCEPT !.reading = {}, !.rows[c] = RowFor(c)]
  /\ UNCHANGED <<store, post, deleter, sweeper, due, interrupts, deleted, purged>>

RebuildCommit ==
  /\ rebuild.pc = "transaction" /\ rebuild.reading = {} /\ rebuild.todo = {}
  /\ rows' = rebuild.rows
  /\ rebuild' = IdleRebuild
  /\ UNCHANGED <<staging, files, post, deleter, sweeper, due, interrupts, deleted, purged>>

-----------------------------------------------------------------------------
(* soft_delete.                                                            *)

DeleteLookUp(c) ==
  /\ deleter.pc = "idle" /\ rows[c] # "none"
  /\ deleter' = [pc |-> "found", id |-> {c}]
  /\ UNCHANGED <<store, post, rebuild, sweeper, due, interrupts, deleted, purged>>

\* The marker with the time of now; no directory, no soft delete.
Mark(c) ==
  /\ deleter.pc = "found" /\ deleter.id = {c}
  /\ IF files[c] = {}
       THEN deleter' = IdleDeleter /\ UNCHANGED <<files, due>>
       ELSE /\ deleter' = [deleter EXCEPT !.pc = "marked"]
            /\ files' = [files EXCEPT ![c] = @ \cup {Marker}]
            /\ due' = due \ {c}
  /\ UNCHANGED <<staging, rows, post, rebuild, sweeper, interrupts, deleted, purged>>

\* The UPDATE of the row, if there is one.
Hide(c) ==
  /\ deleter.pc = "marked" /\ deleter.id = {c} /\ Unlocked
  /\ rows' = [rows EXCEPT ![c] = IF @ = "none" THEN "none" ELSE "hidden"]
  /\ deleter' = IdleDeleter
  /\ deleted' = deleted \cup {c}
  /\ UNCHANGED <<staging, files, post, rebuild, sweeper, due, interrupts, purged>>

-----------------------------------------------------------------------------
(* retention_sweep.                                                        *)

\* The retention window is days, a handler's last statement is near.
MarkerAges(c) ==
  /\ Marker \in files[c] /\ c \notin due
  /\ post[c] # "placed"
  /\ due' = due \cup {c}
  /\ UNCHANGED <<store, post, operators, interrupts, deleted, purged>>

SweepStart ==
  /\ sweeper.pc = "idle"
  /\ {c \in Ids : rows[c] = "hidden"} # {}
  /\ sweeper' = [pc |-> "sweeping", todo |-> {c \in Ids : rows[c] = "hidden"}, id |-> {}]
  /\ UNCHANGED <<store, post, rebuild, deleter, due, interrupts, deleted, purged>>

Sweepable(c) == Marker \in files[c] /\ c \in due

SweptTo(left) ==
  [pc |-> IF left = {} THEN "idle" ELSE "sweeping", todo |-> left, id |-> {}]

\* One candidate: its marker decides, not its row.
SweepJudge(c) ==
  /\ sweeper.pc = "sweeping" /\ c \in sweeper.todo
  /\ IF Sweepable(c)
       THEN /\ sweeper' = [sweeper EXCEPT !.pc = "removing", !.id = {c}]
            /\ purged' = purged \cup {c}
       ELSE /\ sweeper' = SweptTo(sweeper.todo \ {c})
            /\ UNCHANGED purged
  /\ UNCHANGED <<store, post, rebuild, deleter, due, interrupts, deleted>>

\* remove_dir_all, one file at a time.
SweepRemove(c, x) ==
  /\ sweeper.pc = "removing" /\ sweeper.id = {c} /\ x \in files[c]
  /\ files' = [files EXCEPT ![c] = @ \ {x}]
  /\ due' = IF x = Marker THEN due \ {c} ELSE due
  /\ UNCHANGED <<staging, rows, post, operators, interrupts, deleted, purged>>

\* Mutant of SweepDeleteRow: it does not wait for a transaction.
SweepDeleteRowAtOnce(c) ==
  /\ sweeper.pc = "removing" /\ sweeper.id = {c} /\ files[c] = {}
  /\ rows' = [rows EXCEPT ![c] = "none"]
  /\ sweeper' = SweptTo(sweeper.todo \ {c})
  /\ UNCHANGED <<staging, files, post, rebuild, deleter, due, interrupts, deleted, purged>>

SweepDeleteRow(c) ==
  /\ sweeper.pc = "removing" /\ sweeper.id = {c} /\ files[c] = {} /\ Unlocked
  /\ rows' = [rows EXCEPT ![c] = "none"]
  /\ sweeper' = SweptTo(sweeper.todo \ {c})
  /\ UNCHANGED <<staging, files, post, rebuild, deleter, due, interrupts, deleted, purged>>

\* An operator's process is killed, or stops at its first error; an open
\* transaction is rolled back.
OperatorStops ==
  /\ Interrupt
  /\ \/ rebuild.pc # "idle" /\ rebuild' = IdleRebuild /\ UNCHANGED <<deleter, sweeper>>
     \/ deleter.pc # "idle" /\ deleter' = IdleDeleter /\ UNCHANGED <<rebuild, sweeper>>
     \/ sweeper.pc # "idle" /\ sweeper' = IdleSweeper /\ UNCHANGED <<rebuild, deleter>>
  /\ UNCHANGED <<store, post, due, deleted, purged>>

Operator ==
  \/ RebuildWalk \/ RebuildBegin \/ RebuildCommit \/ SweepStart \/ OperatorStops
  \/ \E c \in Ids :
       \/ RebuildRead(c) \/ RebuildIndex(c)
       \/ DeleteLookUp(c) \/ Mark(c) \/ Hide(c)
       \/ MarkerAges(c) \/ SweepJudge(c) \/ SweepDeleteRow(c)
       \/ \E x \in Payload \cup {Marker} : SweepRemove(c, x)

CNext == (\E c \in Ids : Handler(c)) \/ ServerCrashes \/ Operator

CSpec == CInit /\ [][CNext]_cvars

-----------------------------------------------------------------------------
(* Properties.                                                             *)

\* A directory under submissions/<yyyy>/ is whole from its first moment to
\* the moment a sweep begins to remove it, through crashes and failed calls,
\* and an answer of 200 means there is one (store.rs:131-142).  Unless a process
\* dies or fails, what a sweep began to remove is gone once it has moved on; a
\* removal that stops half way leaves a part of an entry behind.
EntriesAreWhole ==
  /\ \A c \in Ids \ purged :
       /\ files[c] = {} \/ Payload \subseteq files[c]
       /\ post[c] = "accepted" => Payload \subseteq files[c]
  /\ interrupts = 0 => \A c \in purged : files[c] = {} \/ sweeper.id = {c}

\* What an operator soft-deleted is not listed again before a sweep begins to
\* remove it, whatever rebuilds ran meanwhile.  From then on the marker may go
\* before the manifest, and a rebuild that reads in between does list it again:
\* until that sweep, if no process dies or fails, deletes the row
\* (store.rs:375, 401-446, 501).
DeletedStaysHidden ==
  \A c \in deleted : rows[c] = "listed" =>
    /\ c \in purged
    /\ interrupts = 0 => sweeper.id = {c}

\* Unless a process dies, a row whose directory is gone is that of the sweep
\* that is just removing it: no rebuild that read the directory before brings
\* the row back after the sweep (store.rs:345-398, 500-503).
GoneMeansUnindexed ==
  interrupts = 0 =>
    \A c \in Ids : rows[c] # "none" /\ files[c] = {} => sweeper.id = {c}

=============================================================================
