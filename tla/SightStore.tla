----------------------------- MODULE SightStore -----------------------------
(***************************************************************************)
(* The files behind the sight and fix logs (bris-streaming/src/store.rs):   *)
(* an append-only current.log per kind, rotated by size and by hour into an *)
(* archive, guarded by a lock file that only its owner's Drop removes.      *)
(* A step is a system call, which may fail; a process may die between two   *)
(* of them or in the middle of a write.  A failed open is answered by a     *)
(* disabled stand-in (engine.rs, StreamingEngine::new).                     *)
(*                                                                         *)
(* A record is two units, its header and the rest: what a reader can tell   *)
(* of a torn or shifted record is whether a header is where it looks.       *)
(***************************************************************************)
EXTENDS Integers, Sequences, FiniteSets, SequencesExt

CONSTANTS
  Processes,       \* processes that may open the store
  Kinds,           \* the logs, in the order they are opened
  RotationSize,    \* StoreConfig::rotation_size_bytes, in units
  Retention,       \* StoreConfig::retention_days, in hours
  MaxRecords,      \* bound: appends attempted
  MaxHours,        \* bound: hours that pass
  MaxFaults        \* bound: failed system calls and crashes

ASSUME SightStoreConstants ==
  {RotationSize, Retention, MaxRecords, MaxHours, MaxFaults} \subseteq Nat

None == 0
RecordSize == 2
Kind == Range(Kinds)

\* Where a process is; a kind's name means that log is being re-opened.
Phase == {"down", "locking", "opening", "pruning", "hydrating", "open",
          "panicked"}

ASSUME KindsAssumption ==
  Kinds \in Seq(STRING) /\ Kinds # <<>> /\ Kind \cap Phase = {}

VARIABLES
  data,      \* the content of every file ever created, by inode
  current,   \* the inode current.log names, or None
  archive,   \* the archive directory: a set of [name, inode]
  lock,      \* whether current.log.lock exists
  proc,      \* each process: where it is and its LogWriters
  hour,      \* the machine's clock
  faults,    \* how many faults there have been
  records,   \* how many appends were attempted
  acked,     \* history: the appends that returned Ok
  written,   \* history: the hour of the last write to each inode (its mtime)
  torn,      \* history: the inodes a failed write left a piece of a record in
  crashed    \* history: a process died with the store open

svars == <<data, current, archive, lock, proc, hour, faults, records, acked,
           written, torn, crashed>>

Closed == [file |-> None, bytes |-> 0, anchor |-> 0]
Fresh(pc, enabled) ==
  [pc |-> pc, k |-> 1, enabled |-> enabled, log |-> [k \in Kind |-> Closed]]
Down == Fresh("down", FALSE)

Init ==
  /\ data = <<>> /\ written = <<>> /\ torn = {}
  /\ current = [k \in Kind |-> None]
  /\ archive = [k \in Kind |-> {}]
  /\ lock = [k \in Kind |-> FALSE]
  /\ proc = [p \in Processes |-> Down]
  /\ hour = 1 /\ faults = 0 /\ records = 0
  /\ acked = {} /\ crashed = FALSE

\* A system call may fail, MaxFaults times in all.
MayFail == faults < MaxFaults /\ faults' = faults + 1
Works == UNCHANGED faults

-----------------------------------------------------------------------------
(* SightStore::open: for each log its lock and its file, then the pruning;  *)
(* then what StreamingEngine::new reads.                                   *)

\* The stand-in: every call a no-op, but with the paths of the lock files.
StandIn == Fresh("open", FALSE)

Start(p) ==
  /\ proc[p].pc = "down"
  /\ proc' = [proc EXCEPT ![p] = Fresh("locking", TRUE)]
  /\ UNCHANGED <<data, current, archive, lock, hour, faults, records, acked,
                 written, torn, crashed>>

\* acquire_lock: create_new.
AcquireLock(p) ==
  /\ proc[p].pc = "locking"
  /\ LET k == Kinds[proc[p].k]
     IN \/ /\ ~ lock[k] /\ Works
           /\ lock' = [lock EXCEPT ![k] = TRUE]
           /\ proc' = [proc EXCEPT ![p].pc = "opening"]
        \/ /\ (lock[k] /\ Works) \/ MayFail
           /\ proc' = [proc EXCEPT ![p] = StandIn]
           /\ UNCHANGED lock
  /\ UNCHANGED <<data, current, archive, hour, records, acked, written, torn,
                 crashed>>

\* The log a handle is opened on: current.log, created if it is not there.
OpenOrInit(k) ==
  IF current[k] # None
    THEN UNCHANGED <<data, current, written>>
    ELSE /\ data' = Append(data, <<>>)
         /\ written' = Append(written, hour)
         /\ current' = [current EXCEPT ![k] = Len(data) + 1]

\* LogWriter::open after the lock.  A failure leaves the lock file behind.
OpenLog(p) ==
  /\ proc[p].pc = "opening"
  /\ LET k == Kinds[proc[p].k]
     IN \/ /\ Works
           /\ OpenOrInit(k)
           /\ LET log == [file |-> current'[k], bytes |-> Len(data'[current'[k]]),
                          anchor |-> hour]
                  last == proc[p].k = Len(Kinds)
              IN proc' = [proc EXCEPT
                   ![p].log[k] = log,
                   ![p].k = IF last THEN 1 ELSE @ + 1,
                   ![p].pc = IF last THEN "pruning" ELSE "locking"]
        \/ /\ MayFail
           /\ proc' = [proc EXCEPT ![p] = StandIn]
           /\ UNCHANGED <<data, current, written>>
  /\ UNCHANGED <<archive, lock, hour, records, acked, torn, crashed>>

\* prune_archive of each log: by the time of the last write.
Prune(p) ==
  /\ proc[p].pc = "pruning"
  /\ archive' = [k \in Kind |->
       {e \in archive[k] : written[e.inode] >= hour - Retention}]
  /\ proc' = [proc EXCEPT ![p].pc = "hydrating"]
  /\ UNCHANGED <<data, current, lock, hour, faults, records, acked, written,
                 torn, crashed>>

Whole(units) == SubSeq(units, 1, RecordSize * (Len(units) \div RecordSize))

\* Mutant of Truncated: the reader leaves a partial tail where it is.
LeftAsIs(units) == units

\* read_records cuts a partial record at the end of the file off.
Truncated(units) == Whole(units)

\* Files are read; one that is cut is one that is written.
CutTails(inodes) ==
  /\ data' = [i \in DOMAIN data |->
                 IF i \in inodes THEN Truncated(data[i]) ELSE data[i]]
  /\ written' = [i \in DOMAIN written |->
                    IF data'[i] = data[i] THEN written[i] ELSE hour]

\* hydrate_pool and most_recent_fix read each current.log.
Hydrate(p) ==
  /\ proc[p].pc = "hydrating"
  /\ LET k == Kinds[proc[p].k]
         last == proc[p].k = Len(Kinds)
     IN /\ CutTails({current[k]} \ {None})
        /\ proc' = [proc EXCEPT ![p].k = IF last THEN 1 ELSE @ + 1,
                                ![p].pc = IF last THEN "open" ELSE @]
  /\ UNCHANGED <<current, archive, lock, hour, faults, records, acked, torn,
                 crashed>>

\* The inodes of a log (all_log_files): its archive and current.log.
FilesOf(k) == {e.inode : e \in archive[k]} \cup ({current[k]} \ {None})

\* A getter of the running engine reads every file of a log (most_recent) or
\* current.log (most_recent_fix), and cuts as the hydration does; it takes no
\* mutex, so it may fall between a rename and its re-open.
Query(p, k) ==
  /\ proc[p].pc \in {"open"} \cup Kind /\ proc[p].enabled
  /\ \E inodes \in {FilesOf(k), {current[k]} \ {None}} : CutTails(inodes)
  /\ UNCHANGED <<current, archive, lock, proc, hour, faults, records, acked,
                 torn, crashed>>

-----------------------------------------------------------------------------
(* LogWriter::append.                                                      *)

Triggered(log) == log.bytes > 0 /\ (log.bytes >= RotationSize \/ log.anchor # hour)

\* Mutant of UniqueName: the label of the hour, taken or not.
LabelOnly(k, anchor) == <<anchor, 0>>

\* unique_archive_path: the hour's label, with the first free suffix.
UniqueName(k, anchor) ==
  LET taken == {e.name : e \in archive[k]}
      free == {n \in 0 .. Cardinality(taken) : <<anchor, n>> \notin taken}
  IN <<anchor, CHOOSE n \in free : \A m \in free : n <= m>>

\* An append of a record that is never written.
Refused == records' = records + 1 /\ UNCHANGED acked

\* Mutant of Renamed: the byte count is reset with the rename.
ResetEarly(log) == [log EXCEPT !.file = None, !.bytes = 0]

\* The writer between the rename and the re-open.
Renamed(log) == [log EXCEPT !.file = None]

\* maybe_rotate: the handle is closed, the file renamed.  Once the file is
\* gone - an earlier re-open failed - the rename fails for ever.
Rotate(p, k) ==
  /\ proc[p].pc = "open" /\ proc[p].enabled
  /\ records < MaxRecords
  /\ LET log == proc[p].log[k]
     IN /\ Triggered(log)
        /\ \/ /\ current[k] # None /\ Works
              /\ LET name == UniqueName(k, log.anchor)
                 IN archive' = [archive EXCEPT ![k] =
                      {e \in @ : e.name # name}
                        \cup {[name |-> name, inode |-> current[k]]}]
              /\ current' = [current EXCEPT ![k] = None]
              /\ proc' = [proc EXCEPT ![p].log[k] = Renamed(log),
                                      ![p].pc = k]
              /\ UNCHANGED <<records, acked>>
           \/ /\ (current[k] = None /\ Works) \/ MayFail
              /\ proc' = [proc EXCEPT ![p].log[k].file = None]
              /\ Refused
              /\ UNCHANGED <<archive, current>>
  /\ UNCHANGED <<data, lock, hour, written, torn, crashed>>

\* The rest of maybe_rotate: a new current.log.
Reopen(p, k) ==
  /\ proc[p].pc = k
  /\ \/ /\ Works
        /\ OpenOrInit(k)
        /\ LET log == [file |-> current'[k], bytes |-> Len(data'[current'[k]]),
                       anchor |-> hour]
           IN proc' = [proc EXCEPT ![p].log[k] = log, ![p].pc = "open"]
        /\ UNCHANGED <<records, acked>>
     \/ /\ MayFail
        /\ proc' = [proc EXCEPT ![p].pc = "open"]
        /\ Refused
        /\ UNCHANGED <<data, current, written>>
  /\ UNCHANGED <<archive, lock, hour, torn, crashed>>

Record(r) == <<[rec |-> r, header |-> TRUE], [rec |-> r, header |-> FALSE]>>

\* write_all and sync_data of one record; after an error some, all or none of
\* it is in the file.  With no file open, expect() panics.
Write(p, k) ==
  /\ proc[p].pc = "open" /\ proc[p].enabled
  /\ records < MaxRecords
  /\ LET log == proc[p].log[k]
         r == records + 1
     IN /\ ~ Triggered(log)
        /\ records' = r
        /\ \/ /\ log.file = None /\ Works
              /\ proc' = [proc EXCEPT ![p].pc = "panicked"]
              /\ UNCHANGED <<data, acked, written, torn>>
           \/ /\ log.file # None /\ Works
              /\ data' = [data EXCEPT ![log.file] = @ \o Record(r)]
              /\ written' = [written EXCEPT ![log.file] = hour]
              /\ acked' = acked \cup
                   {[rec |-> r, at |-> hour, whole |-> log.file \notin torn]}
              /\ proc' = [proc EXCEPT ![p].log[k].bytes = @ + RecordSize]
              /\ UNCHANGED torn
           \/ /\ log.file # None /\ MayFail
              /\ \E n \in 0 .. RecordSize :
                   /\ data' = [data EXCEPT ![log.file] =
                                 @ \o SubSeq(Record(r), 1, n)]
                   /\ torn' = IF n \in 1 .. RecordSize - 1
                                THEN torn \cup {log.file} ELSE torn
              /\ written' = [written EXCEPT ![log.file] = hour]
              /\ UNCHANGED <<proc, acked>>
  /\ UNCHANGED <<current, archive, lock, hour, crashed>>

-----------------------------------------------------------------------------
(* The end of a process, and the clock.                                    *)

\* Mutant of ReleasedBy: a store without files has no lock to release.
ReleasedByOwner(p) == IF proc[p].enabled THEN Kind ELSE {}

\* Drop of SightStore removes both lock files, the stand-in's Drop too.
ReleasedBy(p) == Kind

Close(p) ==
  /\ proc[p].pc = "open"
  /\ lock' = [k \in Kind |-> lock[k] /\ k \notin ReleasedBy(p)]
  /\ proc' = [proc EXCEPT ![p] = Down]
  /\ UNCHANGED <<data, current, archive, hour, faults, records, acked, written,
                 torn, crashed>>

\* The process dies, perhaps while it writes; its lock files stay.
Crash(p) ==
  /\ proc[p].pc # "down"
  /\ MayFail
  /\ \/ UNCHANGED <<data, records, written>>
     \/ \E k \in Kind :
          LET log == proc[p].log[k]
          IN /\ proc[p].pc = "open" /\ proc[p].enabled
             /\ records < MaxRecords
             /\ ~ Triggered(log) /\ log.file # None
             /\ records' = records + 1
             /\ data' = [data EXCEPT ![log.file] =
                           Append(@, Record(records + 1)[1])]
             /\ written' = [written EXCEPT ![log.file] = hour]
  /\ proc' = [proc EXCEPT ![p] = Down]
  /\ crashed' = TRUE
  /\ UNCHANGED <<current, archive, lock, hour, acked, torn>>

\* LogWriter::open and maybe_rotate read the clock once, when they begin: an
\* hour that ends within either counts as ending after it.  The clock does not
\* step back.
Tick ==
  /\ hour < MaxHours
  /\ \A p \in Processes : proc[p].pc \notin Kind \cup {"opening"}
  /\ hour' = hour + 1
  /\ UNCHANGED <<data, current, archive, lock, proc, faults, records, acked,
                 written, torn, crashed>>

Next ==
  \/ \E p \in Processes :
       \/ Start(p) \/ AcquireLock(p) \/ OpenLog(p) \/ Prune(p) \/ Hydrate(p)
       \/ \E k \in Kind :
            Query(p, k) \/ Rotate(p, k) \/ Reopen(p, k) \/ Write(p, k)
       \/ Close(p) \/ Crash(p)
  \/ Tick

Spec == Init /\ [][Next]_svars

-----------------------------------------------------------------------------
(* What the readers see (read_records, all_log_files).                     *)

LogFiles == UNION {FilesOf(k) : k \in Kind}

\* The blocks of a file that begin with a header: what is decoded.
Blocks(inode) ==
  LET units == data[inode]
  IN {<<units[RecordSize * i - 1], units[RecordSize * i]>> :
        i \in {j \in 1 .. Len(units) \div RecordSize :
                 units[RecordSize * j - 1].header}}

Readable(r) == \E inode \in LogFiles : <<Record(r)[1], Record(r)[2]>> \in Blocks(inode)

-----------------------------------------------------------------------------
(* Properties.                                                             *)

\* A record whose append returned Ok is read back from the current log or the
\* archive until it is older than the retention - through rotations of the
\* same hour, failed re-opens, crashes and restarts - unless an earlier append
\* to the same file had failed half way (store.rs:388-436, 541-580).
AcknowledgedStay ==
  \A a \in acked : a.whole => Readable(a.rec) \/ a.at < hour - Retention

\* A process killed in the middle of a write leaves no block that reads as a
\* record and is none: who appends next has cut the piece off
\* (sight_persistence.md:204-208).  Only an append that failed while the
\* process went on can shift what follows.
CrashInventsNothing ==
  \A inode \in LogFiles \ torn :
    \A b \in Blocks(inode) : b[2] = [rec |-> b[1].rec, header |-> FALSE]

\* append's expect("file open") holds: a writer left without a file still has
\* the reason to rotate that closed it, and fails there (store.rs:401-411).  The
\* reason is the size, or an hour that differs from that of the file, and hours
\* only grow here (Tick): a clock that steps back into the file's hour after a
\* rotation has failed takes the reason away, and the append panics.
NeverPanics == \A p \in Processes : proc[p].pc # "panicked"

\* When every store is closed and none has crashed, no lock file is left,
\* even if an open took the first lock and failed at the second: the stand-in
\* that follows cleans up (store.rs:370-380, engine.rs:687-695).
LocksAreReleased ==
  (~ crashed /\ \A p \in Processes : proc[p].pc = "down")
    => \A k \in Kind : ~ lock[k]

\* docs/design/sight_persistence.md:3-5: the sights "survive process restart,
\* app backgrounding, and OS-initiated kills".  Sights were written, nothing
\* failed but that one process was killed: whoever opens the store next, alone,
\* reads and writes them.
KillsAreSurvived ==
  \A p \in Processes :
    /\ acked # {} /\ crashed /\ faults = 1 /\ proc[p].pc = "open"
    /\ \A q \in Processes \ {p} : proc[q].pc = "down"
    => proc[p].enabled

=============================================================================
