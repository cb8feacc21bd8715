---------------------------- MODULE DeviceProofs ----------------------------
(***************************************************************************)
(* What holds of a device's submissions, end to end, and of its captures.   *)
(*                                                                         *)
(* Submissions, for any number of entries, attempts and crashes: first what *)
(* the collector promises of its tree and its index, then that the          *)
(* collector under the queue is that collector.  With any number of         *)
(* flushers what is in sent/ is stored; under which id the entry says only  *)
(* if one flushes at a time, for the queue has no lock and a flusher may    *)
(* write back a state it loaded long ago.  What a flusher alone guarantees  *)
(* rests on Counted: the number of times an entry was sent, the attempts in *)
(* its state.json and the crashes keep in step at every system call.        *)
(*                                                                         *)
(* Captures, for every interleaving of starts, stops, timeouts and fixes    *)
(* and for every threshold: the finalizers that meet, or that outlive their *)
(* capture, share nothing that could be red; and as long as none meets      *)
(* another, or a start, a capture saves its own best fix.                   *)
(***************************************************************************)
EXTENDS Submission, Recorder, TLAPS

-----------------------------------------------------------------------------
(* The collector, for any number of uploads and of interrupts.  Each        *)
(* promise needs to know how the four processes may meet: a handler whose   *)
(* directory is in place but whose row is not (Settled, Known), a rebuild   *)
(* that saw the directory before or after (Indexed), a delete between its   *)
(* marker and its row (Marked, Looked), a sweep that holds its row until no *)
(* transaction is open (Gone).                                             *)

Row == {"none", "listed", "hidden"}

CTypeInv ==
  /\ files \in [Ids -> SUBSET (Payload \cup {Marker})]
  /\ rows \in [Ids -> Row]
  /\ post \in [Ids -> {"unused", "staged", "placed", "accepted", "failed"}]
  /\ rebuild \in [pc : {"idle", "walked", "transaction"}, todo : SUBSET Ids,
                  reading : SUBSET Ids, rows : [Ids -> Row]]
  /\ deleter \in [pc : {"idle", "found", "marked"}, id : SUBSET Ids]
  /\ sweeper \in [pc : {"idle", "sweeping", "removing"}, todo : SUBSET Ids,
                  id : SUBSET Ids]
  /\ interrupts \in Nat
  /\ staging \subseteq Ids
  /\ due \subseteq Ids /\ deleted \subseteq Ids /\ purged \subseteq Ids

\* A marker gets old, and a directory is removed, when its upload is over.
Settled == \A c \in due \cup purged : post[c] \in {"accepted", "failed"}

\* Nobody knows of an upload before its directory is in place.
Known ==
  \A c \in Ids : post[c] \in {"unused", "staged"} =>
    /\ files[c] = {} /\ rows[c] = "none" /\ rebuild.rows[c] = "none"
    /\ c \notin rebuild.todo \cup rebuild.reading \cup deleter.id \cup deleted

Whole ==
  \A c \in Ids \ purged :
    /\ files[c] = {} \/ Payload \subseteq files[c]
    /\ post[c] \in {"placed", "accepted"} => Payload \subseteq files[c]

\* What a sweep removes counts as purged.
Removing ==
  /\ sweeper.pc # "removing" => sweeper.id = {}
  /\ sweeper.id \subseteq purged

\* A rebuild has rows in its transaction only.
Private ==
  rebuild.pc # "transaction" =>
    rebuild.reading = {} /\ \A c \in Ids : rebuild.rows[c] = "none"

\* A row that is there before its handler comes to insert it is the work of a
\* rebuild; so a rebuild that is under way saw the directory as well.
Indexed ==
  \A c \in Ids :
    post[c] = "placed" /\ rows[c] # "none" /\ rebuild.pc # "idle"
      => c \in rebuild.todo \cup rebuild.reading \/ rebuild.rows[c] # "none"

\* A handler that comes after a soft-delete finds a row in its place.
Looked == \A c \in deleted \cup deleter.id : post[c] = "placed" => rows[c] # "none"

\* The directory of a deleted submission has its marker until it is purged.
Marked ==
  \A c \in (deleted \cup IF deleter.pc = "marked" THEN deleter.id ELSE {}) \ purged :
    Marker \in files[c]

\* Neither the index nor an open transaction lists it.
Unlisted ==
  \A c \in deleted \ purged : rows[c] # "listed" /\ rebuild.rows[c] # "listed"

\* A row, or one to come, without a directory is that of the sweep.
Gone ==
  interrupts = 0 =>
    \A c \in Ids :
      /\ rows[c] # "none" \/ rebuild.rows[c] # "none" \/ c \in rebuild.reading
      /\ files[c] = {}
      => sweeper.id = {c}

CInv ==
  /\ CTypeInv /\ Settled /\ Known /\ Whole /\ Removing /\ Private
  /\ Indexed /\ Looked /\ Marked /\ Unlisted /\ Gone

USE DEF store, operators

-----------------------------------------------------------------------------
(* post_submission.                                                         *)

\* A staged upload is known to nobody yet.
LEMMA StageKeeps ==
  ASSUME CInv, NEW c \in Ids, Stage(c)
  PROVE  CInv'
<1>1. CTypeInv'
  BY DEF CInv, CTypeInv, Stage
<1>2. Settled'
  BY DEF CInv, CTypeInv, Settled, Stage
<1>3. Known'
  BY DEF CInv, CTypeInv, Known, Stage
<1>4. Whole'
  BY DEF CInv, CTypeInv, Whole, Stage
<1>5. Indexed'
  BY DEF CInv, CTypeInv, Indexed, Stage
<1>6. Looked'
  BY DEF CInv, CTypeInv, Looked, Stage
<1>7. (Removing /\ Private /\ Marked /\ Unlisted /\ Gone)'
  BY DEF CInv, Removing, Private, Marked, Unlisted, Gone, Stage
<1> QED BY <1>1, <1>2, <1>3, <1>4, <1>5, <1>6, <1>7 DEF CInv

\* The rename: nobody knew of the directory before, so nothing is to be kept.
LEMMA PlaceKeeps ==
  ASSUME CInv, NEW c \in Ids, Place(c)
  PROVE  CInv'
<1>1. CTypeInv'
  BY DEF CInv, CTypeInv, Payload, Place
<1>2. Settled'
  BY DEF CInv, CTypeInv, Settled, Place, Payload
<1>3. Known'
  BY DEF CInv, CTypeInv, Known, Settled, Place, Payload
<1>4. Whole'
  BY DEF CInv, CTypeInv, Whole, Place, Payload
<1>5. Indexed'
  BY DEF CInv, CTypeInv, Indexed, Known, Place, Payload
<1>6. Looked'
  BY DEF CInv, CTypeInv, Looked, Known, Place, Payload
<1>7. Marked'
  BY DEF CInv, CTypeInv, Marked, Known, Place, Payload
<1>8. Gone'
  BY DEF CInv, CTypeInv, Gone, Place, Payload
<1>9. (Removing /\ Private /\ Unlisted)'
  BY DEF CInv, Removing, Private, Unlisted, Place
<1> QED BY <1>1, <1>2, <1>3, <1>4, <1>5, <1>6, <1>7, <1>8, <1>9 DEF CInv

\* The row comes after the directory, and not over the row of a deleted one.
LEMMA InsertKeeps ==
  ASSUME CInv, NEW c \in Ids, Insert(c)
  PROVE  CInv'
<1>1. CTypeInv'
  BY DEF CInv, CTypeInv, Insert, Row
<1>2. Settled'
  BY DEF CInv, CTypeInv, Settled, Insert
<1>3. Known'
  BY DEF CInv, CTypeInv, Known, Insert
<1>4. Whole'
  BY DEF CInv, CTypeInv, Whole, Insert
<1>5. Indexed'
  BY DEF CInv, CTypeInv, Indexed, Insert
<1>6. Looked'
  BY DEF CInv, CTypeInv, Looked, Insert
<1>7. Unlisted'
  BY DEF CInv, CTypeInv, Unlisted, Looked, Insert
<1>8. Gone'
  BY DEF CInv, CTypeInv, Gone, Whole, Settled, Payload, Insert
<1>9. (Removing /\ Private /\ Marked)'
  BY DEF CInv, Removing, Private, Marked, Insert
<1> QED BY <1>1, <1>2, <1>3, <1>4, <1>5, <1>6, <1>7, <1>8, <1>9 DEF CInv

\* What a failed handler did stays; it has no step left.
LEMMA SaveFailsKeeps ==
  ASSUME CInv, NEW c \in Ids, SaveFails(c)
  PROVE  CInv'
<1>1. CTypeInv'
  BY DEF CInv, CTypeInv, SaveFails, Interrupt
<1>2. Settled'
  BY DEF CInv, CTypeInv, Settled, SaveFails, Interrupt
<1>3. Known'
  BY DEF CInv, CTypeInv, Known, SaveFails, Interrupt
<1>4. Whole'
  BY DEF CInv, CTypeInv, Whole, SaveFails, Interrupt
<1>5. Indexed'
  BY DEF CInv, CTypeInv, Indexed, SaveFails, Interrupt
<1>6. Looked'
  BY DEF CInv, CTypeInv, Looked, SaveFails, Interrupt
<1>7. Gone'
  BY DEF CInv, CTypeInv, Gone, SaveFails, Interrupt
<1>8. (Removing /\ Private /\ Marked /\ Unlisted)'
  BY DEF CInv, Removing, Private, Marked, Unlisted, SaveFails
<1> QED BY <1>1, <1>2, <1>3, <1>4, <1>5, <1>6, <1>7, <1>8 DEF CInv

\* So with all of them at once.
LEMMA ServerCrashesKeeps ==
  ASSUME CInv, ServerCrashes
  PROVE  CInv'
<1>1. CTypeInv'
  BY DEF CInv, CTypeInv, ServerCrashes, Interrupt
<1>2. Settled'
  BY DEF CInv, CTypeInv, Settled, ServerCrashes, Interrupt
<1>3. Known'
  BY DEF CInv, CTypeInv, Known, ServerCrashes, Interrupt
<1>4. Whole'
  BY DEF CInv, CTypeInv, Whole, ServerCrashes, Interrupt
<1>5. Indexed'
  BY DEF CInv, CTypeInv, Indexed, ServerCrashes, Interrupt
<1>6. Looked'
  BY DEF CInv, CTypeInv, Looked, ServerCrashes, Interrupt
<1>7. Gone'
  BY DEF CInv, CTypeInv, Gone, ServerCrashes, Interrupt
<1>8. (Removing /\ Private /\ Marked /\ Unlisted)'
  BY DEF CInv, Removing, Private, Marked, Unlisted, ServerCrashes
<1> QED BY <1>1, <1>2, <1>3, <1>4, <1>5, <1>6, <1>7, <1>8 DEF CInv

-----------------------------------------------------------------------------
(* rebuild_index.                                                           *)

\* A walk sees every directory in place that no sweep has touched.
LEMMA RebuildWalkKeeps ==
  ASSUME CInv, RebuildWalk
  PROVE  CInv'
<1>1. CTypeInv'
  BY DEF CInv, CTypeInv, RebuildWalk, IdleRebuild, Row
<1>2. Known'
  BY DEF CInv, CTypeInv, Known, RebuildWalk, IdleRebuild
<1>3. Private'
  BY DEF CInv, CTypeInv, Private, RebuildWalk, IdleRebuild
<1>4. Indexed'
  BY DEF CInv, CTypeInv, Indexed, Whole, Settled, Payload, RebuildWalk,
         IdleRebuild
<1>5. Unlisted'
  BY DEF CInv, CTypeInv, Unlisted, RebuildWalk, IdleRebuild
<1>6. Gone'
  BY DEF CInv, CTypeInv, Gone, RebuildWalk, IdleRebuild
<1>7. (Settled /\ Whole /\ Removing /\ Looked /\ Marked)'
  BY DEF CInv, Settled, Whole, Removing, Looked, Marked, RebuildWalk
<1> QED BY <1>1, <1>2, <1>3, <1>4, <1>5, <1>6, <1>7 DEF CInv

\* Nothing is read yet.
LEMMA RebuildBeginKeeps ==
  ASSUME CInv, RebuildBegin
  PROVE  CInv'
<1>1. CTypeInv'
  BY DEF CInv, CTypeInv, RebuildBegin, Row
<1>2. Known'
  BY DEF CInv, CTypeInv, Known, RebuildBegin
<1>3. Private'
  BY DEF CInv, CTypeInv, Private, RebuildBegin
<1>4. Indexed'
  BY DEF CInv, CTypeInv, Indexed, RebuildBegin
<1>5. Unlisted'
  BY DEF CInv, CTypeInv, Unlisted, RebuildBegin
<1>6. Gone'
  BY DEF CInv, CTypeInv, Gone, Private, RebuildBegin
<1>7. (Settled /\ Whole /\ Removing /\ Looked /\ Marked)'
  BY DEF CInv, Settled, Whole, Removing, Looked, Marked, RebuildBegin
<1> QED BY <1>1, <1>2, <1>3, <1>4, <1>5, <1>6, <1>7 DEF CInv

\* A directory of a handler at its INSERT is there to be read.
LEMMA RebuildReadKeeps ==
  ASSUME CInv, NEW c \in Ids, RebuildRead(c)
  PROVE  CInv'
<1>1. CTypeInv'
  BY DEF CInv, CTypeInv, RebuildRead, Row
<1>2. Known'
  BY DEF CInv, CTypeInv, Known, RebuildRead
<1>3. Private'
  BY DEF CInv, CTypeInv, Private, RebuildRead
<1>4. Indexed'
  BY DEF CInv, CTypeInv, Indexed, Whole, Settled, Payload, RebuildRead
<1>5. Unlisted'
  BY DEF CInv, CTypeInv, Unlisted, RebuildRead
<1>6. Gone'
  BY DEF CInv, CTypeInv, Gone, RebuildRead
<1>7. (Settled /\ Whole /\ Removing /\ Looked /\ Marked)'
  BY DEF CInv, Settled, Whole, Removing, Looked, Marked, RebuildRead
<1> QED BY <1>1, <1>2, <1>3, <1>4, <1>5, <1>6, <1>7 DEF CInv

\* A deleted submission has its marker when the row is made.
LEMMA RebuildIndexKeeps ==
  ASSUME CInv, NEW c \in Ids, RebuildIndex(c)
  PROVE  CInv'
<1>1. CTypeInv'
  BY DEF CInv, CTypeInv, RebuildIndex, RowFor, Row
<1>2. Known'
  BY DEF CInv, CTypeInv, Known, RebuildIndex, RowFor
<1>3. Private'
  BY DEF CInv, CTypeInv, Private, RebuildIndex, RowFor
<1>4. Indexed'
  BY DEF CInv, CTypeInv, Indexed, RebuildIndex, RowFor
<1>5. Unlisted'
  BY DEF CInv, CTypeInv, Unlisted, Marked, RebuildIndex, RowFor
<1>6. Gone'
  BY DEF CInv, CTypeInv, Gone, RebuildIndex, RowFor
<1>7. (Settled /\ Whole /\ Removing /\ Looked /\ Marked)'
  BY DEF CInv, Settled, Whole, Removing, Looked, Marked, RebuildIndex
<1> QED BY <1>1, <1>2, <1>3, <1>4, <1>5, <1>6, <1>7 DEF CInv

\* The rows of the transaction take the place of the index.
LEMMA RebuildCommitKeeps ==
  ASSUME CInv, RebuildCommit
  PROVE  CInv'
<1>1. CTypeInv'
  BY DEF CInv, CTypeInv, RebuildCommit, IdleRebuild, Row
<1>2. Known'
  BY DEF CInv, CTypeInv, Known, RebuildCommit, IdleRebuild
<1>3. Private'
  BY DEF CInv, CTypeInv, Private, RebuildCommit, IdleRebuild
<1>4. Indexed'
  BY DEF CInv, CTypeInv, Indexed, RebuildCommit, IdleRebuild
<1>5. Looked'
  BY DEF CInv, CTypeInv, Looked, Indexed, RebuildCommit, IdleRebuild
<1>6. Unlisted'
  BY DEF CInv, CTypeInv, Unlisted, RebuildCommit, IdleRebuild
<1>7. Gone'
  BY DEF CInv, CTypeInv, Gone, RebuildCommit, IdleRebuild
<1>8. (Settled /\ Whole /\ Removing /\ Marked)'
  BY DEF CInv, Settled, Whole, Removing, Marked, RebuildCommit
<1> QED BY <1>1, <1>2, <1>3, <1>4, <1>5, <1>6, <1>7, <1>8 DEF CInv

-----------------------------------------------------------------------------
(* soft_delete.                                                             *)

\* Whatever has a row has a directory, or had one.
LEMMA DeleteLookUpKeeps ==
  ASSUME CInv, NEW c \in Ids, DeleteLookUp(c)
  PROVE  CInv'
<1>1. CTypeInv'
  BY DEF CInv, CTypeInv, DeleteLookUp
<1>2. Known'
  BY DEF CInv, CTypeInv, Known, DeleteLookUp
<1>3. Looked'
  BY DEF CInv, CTypeInv, Looked, DeleteLookUp
<1>4. Marked'
  BY DEF CInv, CTypeInv, Marked, DeleteLookUp
<1>5. (Settled /\ Whole /\ Removing /\ Private /\ Indexed /\ Unlisted
       /\ Gone)'
  BY DEF CInv, Settled, Whole, Removing, Private, Indexed, Unlisted, Gone,
         DeleteLookUp
<1> QED BY <1>1, <1>2, <1>3, <1>4, <1>5 DEF CInv

\* The marker is added; the row waits.
LEMMA MarkKeeps ==
  ASSUME CInv, NEW c \in Ids, Mark(c)
  PROVE  CInv'
<1>1. CTypeInv'
  BY DEF CInv, CTypeInv, Mark, IdleDeleter
<1>2. Settled'
  BY DEF CInv, CTypeInv, Settled, Mark, IdleDeleter
<1>3. Known'
  BY DEF CInv, CTypeInv, Known, Mark, IdleDeleter
<1>4. Whole'
  BY DEF CInv, CTypeInv, Whole, Mark, IdleDeleter
<1>5. Looked'
  BY DEF CInv, CTypeInv, Looked, Mark, IdleDeleter
<1>6. Marked'
  BY DEF CInv, CTypeInv, Marked, Mark, IdleDeleter
<1>7. Gone'
  BY DEF CInv, CTypeInv, Gone, Mark, IdleDeleter
<1>8. (Removing /\ Private /\ Indexed /\ Unlisted)'
  BY DEF CInv, Removing, Private, Indexed, Unlisted, Mark
<1> QED BY <1>1, <1>2, <1>3, <1>4, <1>5, <1>6, <1>7, <1>8 DEF CInv

\* No transaction is open, so no row of a rebuild can undo the UPDATE.
LEMMA HideKeeps ==
  ASSUME CInv, NEW c \in Ids, Hide(c)
  PROVE  CInv'
<1>1. CTypeInv'
  BY DEF CInv, CTypeInv, Hide, IdleDeleter, Unlocked, Row
<1>2. Known'
  BY DEF CInv, CTypeInv, Known, Hide, IdleDeleter, Unlocked
<1>3. Indexed'
  BY DEF CInv, CTypeInv, Indexed, Hide, IdleDeleter, Unlocked
<1>4. Looked'
  BY DEF CInv, CTypeInv, Looked, Hide, IdleDeleter, Unlocked
<1>5. Marked'
  BY DEF CInv, CTypeInv, Marked, Hide, IdleDeleter, Unlocked
<1>6. Unlisted'
  BY DEF CInv, CTypeInv, Unlisted, Private, Hide, IdleDeleter, Unlocked
<1>7. Gone'
  BY DEF CInv, CTypeInv, Gone, Hide, IdleDeleter, Unlocked
<1>8. (Settled /\ Whole /\ Removing /\ Private)'
  BY DEF CInv, Settled, Whole, Removing, Private, Hide
<1> QED BY <1>1, <1>2, <1>3, <1>4, <1>5, <1>6, <1>7, <1>8 DEF CInv

-----------------------------------------------------------------------------
(* retention_sweep.                                                         *)

\* What has a marker and no handler at its INSERT has none before it.
LEMMA MarkerAgesKeeps ==
  ASSUME CInv, NEW c \in Ids, MarkerAges(c)
  PROVE  CInv'
<1>1. CTypeInv'
  BY DEF CInv, CTypeInv, MarkerAges
<1>2. Settled'
  BY DEF CInv, CTypeInv, Settled, Known, MarkerAges
<1>3. (Known /\ Whole /\ Removing /\ Private /\ Indexed /\ Looked /\ Marked
       /\ Unlisted /\ Gone)'
  BY DEF CInv, Known, Whole, Removing, Private, Indexed, Looked, Marked,
         Unlisted, Gone, MarkerAges
<1> QED BY <1>1, <1>2, <1>3 DEF CInv

\* Candidates come from the rows; nothing is touched.
LEMMA SweepStartKeeps ==
  ASSUME CInv, SweepStart
  PROVE  CInv'
<1>1. CTypeInv'
  BY DEF CInv, CTypeInv, SweepStart
<1>2. Removing'
  BY DEF CInv, CTypeInv, Removing, SweepStart
<1>3. Gone'
  BY DEF CInv, CTypeInv, Gone, Removing, SweepStart
<1>4. (Settled /\ Known /\ Whole /\ Private /\ Indexed /\ Looked /\ Marked
       /\ Unlisted)'
  BY DEF CInv, Settled, Known, Whole, Private, Indexed, Looked, Marked,
         Unlisted, SweepStart
<1> QED BY <1>1, <1>2, <1>3, <1>4 DEF CInv

\* The candidate becomes the directory being removed, or is passed over.
LEMMA SweepJudgeKeeps ==
  ASSUME CInv, NEW c \in Ids, SweepJudge(c)
  PROVE  CInv'
<1>1. CTypeInv' /\ Removing'
  <2>1. CASE Sweepable(c)
    <3>1. /\ sweeper' = [sweeper EXCEPT !.pc = "removing", !.id = {c}]
          /\ purged' = purged \cup {c}
      BY <2>1 DEF SweepJudge
    <3>2. sweeper' = [pc |-> "removing", todo |-> sweeper.todo, id |-> {c}]
      BY <3>1 DEF CInv, CTypeInv
    <3> QED BY <2>1, <3>1, <3>2 DEF CInv, CTypeInv, Removing, SweepJudge
  <2>2. CASE ~ Sweepable(c)
    BY <2>2 DEF CInv, CTypeInv, Removing, SweepJudge, SweptTo
  <2> QED BY <2>1, <2>2
<1>2. Settled'
  BY DEF CInv, CTypeInv, Settled, SweepJudge, SweptTo, Sweepable
<1>3. Whole'
  BY DEF CInv, CTypeInv, Whole, SweepJudge, SweptTo, Sweepable
<1>4. Marked'
  BY DEF CInv, CTypeInv, Marked, SweepJudge, SweptTo, Sweepable
<1>5. Unlisted'
  BY DEF CInv, CTypeInv, Unlisted, SweepJudge, SweptTo, Sweepable
<1>6. Gone'
  BY DEF CInv, CTypeInv, Gone, Removing, SweepJudge, SweptTo, Sweepable
<1>7. (Known /\ Private /\ Indexed /\ Looked)'
  BY DEF CInv, Known, Private, Indexed, Looked, SweepJudge
<1> QED BY <1>1, <1>2, <1>3, <1>4, <1>5, <1>6, <1>7 DEF CInv

\* Only the directory of the sweep loses a file.
LEMMA SweepRemoveKeeps ==
  ASSUME CInv, NEW c \in Ids, NEW x \in Payload \cup {Marker}, SweepRemove(c,
    x)
  PROVE  CInv'
<1>1. CTypeInv'
  BY DEF CInv, CTypeInv, SweepRemove
<1>2. Settled'
  BY DEF CInv, CTypeInv, Settled, SweepRemove
<1>3. Known'
  BY DEF CInv, CTypeInv, Known, SweepRemove
<1>4. Whole'
  BY DEF CInv, CTypeInv, Whole, Removing, SweepRemove
<1>5. Marked'
  BY DEF CInv, CTypeInv, Marked, Removing, SweepRemove
<1>6. Gone'
  BY DEF CInv, CTypeInv, Gone, SweepRemove
<1>7. (Removing /\ Private /\ Indexed /\ Looked /\ Unlisted)'
  BY DEF CInv, Removing, Private, Indexed, Looked, Unlisted, SweepRemove
<1> QED BY <1>1, <1>2, <1>3, <1>4, <1>5, <1>6, <1>7 DEF CInv

\* The row goes when no transaction holds a copy of it.
LEMMA SweepDeleteRowKeeps ==
  ASSUME CInv, NEW c \in Ids, SweepDeleteRow(c)
  PROVE  CInv'
<1>1. CTypeInv'
  BY DEF CInv, CTypeInv, SweepDeleteRow, SweptTo, Unlocked, Row
<1>2. Known'
  BY DEF CInv, CTypeInv, Known, SweepDeleteRow, SweptTo, Unlocked
<1>3. Removing'
  BY DEF CInv, CTypeInv, Removing, SweepDeleteRow, SweptTo, Unlocked
<1>4. Indexed'
  BY DEF CInv, CTypeInv, Indexed, SweepDeleteRow, SweptTo, Unlocked
<1>5. Looked'
  BY DEF CInv, CTypeInv, Looked, Removing, Settled, SweepDeleteRow, SweptTo,
         Unlocked
<1>6. Unlisted'
  BY DEF CInv, CTypeInv, Unlisted, SweepDeleteRow, SweptTo, Unlocked
<1>7. Gone'
  BY DEF CInv, CTypeInv, Gone, Private, SweepDeleteRow, SweptTo, Unlocked
<1>8. (Settled /\ Whole /\ Private /\ Marked)'
  BY DEF CInv, Settled, Whole, Private, Marked, SweepDeleteRow
<1> QED BY <1>1, <1>2, <1>3, <1>4, <1>5, <1>6, <1>7, <1>8 DEF CInv

\* A process that stops leaves its files and rows; a transaction is lost.
LEMMA OperatorStopsKeeps ==
  ASSUME CInv, OperatorStops
  PROVE  CInv'
<1>1. CTypeInv'
  BY DEF CInv, CTypeInv, OperatorStops, Interrupt, IdleRebuild, IdleDeleter,
         IdleSweeper, Row
<1>2. Known'
  BY DEF CInv, CTypeInv, Known, OperatorStops, Interrupt, IdleRebuild,
         IdleDeleter, IdleSweeper
<1>3. Removing'
  BY DEF CInv, CTypeInv, Removing, OperatorStops, Interrupt, IdleRebuild,
         IdleDeleter, IdleSweeper
<1>4. Private'
  BY DEF CInv, CTypeInv, Private, OperatorStops, Interrupt, IdleRebuild,
         IdleDeleter, IdleSweeper
<1>5. Indexed'
  BY DEF CInv, CTypeInv, Indexed, OperatorStops, Interrupt, IdleRebuild,
         IdleDeleter, IdleSweeper
<1>6. Looked'
  BY DEF CInv, CTypeInv, Looked, OperatorStops, Interrupt, IdleRebuild,
         IdleDeleter, IdleSweeper
<1>7. Marked'
  BY DEF CInv, CTypeInv, Marked, OperatorStops, Interrupt, IdleRebuild,
         IdleDeleter, IdleSweeper
<1>8. Unlisted'
  BY DEF CInv, CTypeInv, Unlisted, OperatorStops, Interrupt, IdleRebuild,
         IdleDeleter, IdleSweeper
<1>9. Gone'
  BY DEF CInv, CTypeInv, Gone, OperatorStops, Interrupt, IdleRebuild,
         IdleDeleter, IdleSweeper
<1>10. (Settled /\ Whole)'
  BY DEF CInv, Settled, Whole, OperatorStops
<1> QED BY <1>1, <1>2, <1>3, <1>4, <1>5, <1>6, <1>7, <1>8, <1>9,
           <1>10 DEF CInv

-----------------------------------------------------------------------------
(* The invariant and what follows.                                         *)

LEMMA CInvInit == CInit => CInv
BY CollectorConstants
   DEF CInit, CInv, CTypeInv, Settled, Known, Whole, Removing, Private, Indexed,
       Looked, Marked, Unlisted, Gone, Row, IdleRebuild, IdleDeleter, IdleSweeper

LEMMA CInvStep == CInv /\ [CNext]_cvars => CInv'
<1> SUFFICES ASSUME CInv, [CNext]_cvars PROVE CInv'
  OBVIOUS
<1>1. ASSUME NEW c \in Ids, Handler(c) PROVE CInv'
  BY <1>1, StageKeeps, PlaceKeeps, InsertKeeps, SaveFailsKeeps DEF Handler
<1>2. CASE ServerCrashes
  BY <1>2, ServerCrashesKeeps
<1>3. CASE RebuildWalk \/ RebuildBegin \/ RebuildCommit
  BY <1>3, RebuildWalkKeeps, RebuildBeginKeeps, RebuildCommitKeeps
<1>4. ASSUME NEW c \in Ids, RebuildRead(c) \/ RebuildIndex(c) PROVE CInv'
  BY <1>4, RebuildReadKeeps, RebuildIndexKeeps
<1>5. ASSUME NEW c \in Ids, DeleteLookUp(c) \/ Mark(c) \/ Hide(c) PROVE CInv'
  BY <1>5, DeleteLookUpKeeps, MarkKeeps, HideKeeps
<1>6. CASE SweepStart \/ OperatorStops
  BY <1>6, SweepStartKeeps, OperatorStopsKeeps
<1>7. ASSUME NEW c \in Ids, MarkerAges(c) \/ SweepJudge(c) \/ SweepDeleteRow(c)
      PROVE  CInv'
  BY <1>7, MarkerAgesKeeps, SweepJudgeKeeps, SweepDeleteRowKeeps
<1>8. ASSUME NEW c \in Ids, NEW x \in Payload \cup {Marker}, SweepRemove(c, x)
      PROVE  CInv'
  BY <1>8, SweepRemoveKeeps
<1>9. CASE UNCHANGED cvars
  BY <1>9 DEF cvars, CInv, CTypeInv, Settled, Known, Whole, Removing, Private,
              Indexed, Looked, Marked, Unlisted, Gone
<1> QED
  BY <1>1, <1>2, <1>3, <1>4, <1>5, <1>6, <1>7, <1>8, <1>9 DEF CNext, Operator

\* All the above always holds, for any number of uploads and of interrupts.
THEOREM CollectorInvariant == CSpec => []CInv
  BY CInvInit, CInvStep, PTL DEF CSpec

\* Unless a process dies or a call fails, a sweep leaves no directory behind
\* that it began to remove.
Emptied == interrupts = 0 => \A c \in purged : files[c] = {} \/ sweeper.id = {c}

LEMMA EmptiedStep == CInv /\ Emptied /\ [CNext]_cvars => Emptied'
<1> SUFFICES ASSUME CInv, Emptied, [CNext]_cvars PROVE Emptied'
  OBVIOUS
<1>1. ASSUME NEW c \in Ids, Stage(c) \/ Insert(c) PROVE Emptied'
  BY <1>1 DEF Emptied, Stage, Insert
<1>2. ASSUME NEW c \in Ids, Place(c) PROVE Emptied'
  BY <1>2 DEF Emptied, Place, CInv, CTypeInv, Settled
<1>3. ASSUME (\E c \in Ids : SaveFails(c)) \/ ServerCrashes \/ OperatorStops
      PROVE  Emptied'
  <2>1. interrupts' # 0
    BY <1>3 DEF SaveFails, ServerCrashes, OperatorStops, Interrupt, CInv, CTypeInv
  <2> QED
    BY <2>1 DEF Emptied
<1>4. CASE RebuildWalk \/ RebuildBegin \/ RebuildCommit
  BY <1>4 DEF Emptied, RebuildWalk, RebuildBegin, RebuildCommit
<1>5. ASSUME NEW c \in Ids,
             \/ RebuildRead(c) \/ RebuildIndex(c) \/ DeleteLookUp(c) \/ Hide(c)
             \/ MarkerAges(c)
      PROVE  Emptied'
  BY <1>5 DEF Emptied, RebuildRead, RebuildIndex, DeleteLookUp, Hide, MarkerAges
<1>6. ASSUME NEW c \in Ids, Mark(c) PROVE Emptied'
  BY <1>6 DEF Emptied, Mark, CInv, CTypeInv
<1>7. CASE SweepStart
  BY <1>7 DEF Emptied, SweepStart, CInv, CTypeInv, Removing
<1>8. ASSUME NEW c \in Ids, SweepJudge(c) PROVE Emptied'
  <2>1. sweeper.id = {}
    BY <1>8 DEF SweepJudge, CInv, Removing
  <2>2. interrupts' = interrupts /\ files' = files
    BY <1>8 DEF SweepJudge
  <2>3. CASE Sweepable(c)
    <3>1. purged' = purged \cup {c} /\ sweeper' = [sweeper EXCEPT !.pc = "removing", !.id = {c}]
      BY <1>8, <2>3 DEF SweepJudge
    <3>2. sweeper'.id = {c}
      BY <3>1 DEF CInv, CTypeInv
    <3> QED
      BY <2>1, <2>2, <3>1, <3>2 DEF Emptied
  <2>4. CASE ~ Sweepable(c)
    <3>1. purged' = purged
      BY <1>8, <2>4 DEF SweepJudge
    <3> QED
      BY <2>1, <2>2, <3>1 DEF Emptied
  <2> QED
    BY <2>3, <2>4
<1>9. ASSUME NEW c \in Ids, NEW x \in Payload \cup {Marker}, SweepRemove(c, x)
      PROVE  Emptied'
  BY <1>9 DEF Emptied, SweepRemove, CInv, CTypeInv
<1>10. ASSUME NEW c \in Ids, SweepDeleteRow(c) PROVE Emptied'
  BY <1>10 DEF Emptied, SweepDeleteRow, CInv, CTypeInv
<1>11. CASE UNCHANGED cvars
  BY <1>11 DEF Emptied, cvars
<1> QED
  BY <1>1, <1>2, <1>3, <1>4, <1>5, <1>6, <1>7, <1>8, <1>9, <1>10, <1>11
     DEF CNext, Handler, Operator

LEMMA PurgedIsEmptied == CSpec => [](CInv /\ Emptied)
<1>1. CInit => Emptied
  BY DEF CInit, Emptied
<1> QED BY <1>1, EmptiedStep, CInvInit, CInvStep, PTL DEF CSpec

\* A directory under submissions/ is whole until a sweep begins to remove it, and
\* what was answered with 200 has one, however crashes, failed calls and the
\* maintenance commands fall; while none fails, what a sweep began to remove is
\* gone when it goes on (store.rs, save_submission, retention_sweep).
THEOREM UploadsAreWhole == CSpec => []EntriesAreWhole
<1>1. CInv /\ Emptied => EntriesAreWhole
  BY DEF CInv, Whole, Emptied, EntriesAreWhole
<1> QED BY <1>1, PurgedIsEmptied, PTL

\* What was soft-deleted is not listed again before a sweep begins to remove it,
\* whatever rebuild was under way and whatever insert came late; and after that,
\* while no process dies and no call fails, only until that sweep deletes the row
\* (store.rs, soft_delete, retention_sweep).
THEOREM DeletedIsNotListed == CSpec => []DeletedStaysHidden
<1>1. CInv /\ Emptied => DeletedStaysHidden
  <2> SUFFICES ASSUME CInv, Emptied, NEW c \in deleted, rows[c] = "listed"
               PROVE  c \in purged /\ (interrupts = 0 => sweeper.id = {c})
    BY DEF DeletedStaysHidden
  <2>1. c \in Ids /\ c \in purged
    BY DEF CInv, CTypeInv, Unlisted
  <2>2. interrupts = 0 /\ files[c] = {} => sweeper.id = {c}
    BY <2>1 DEF CInv, Gone
  <2> QED
    BY <2>1, <2>2 DEF Emptied
<1> QED BY <1>1, PurgedIsEmptied, PTL

\* Unless a process dies or a call fails, only the sweep that is just removing
\* a directory leaves a row without one (store.rs, retention_sweep).
THEOREM RowsHaveDirectories == CSpec => []GoneMeansUnindexed
<1>1. CInv => GoneMeansUnindexed
  BY DEF CInv, Gone, GoneMeansUnindexed
<1> QED BY <1>1, CollectorInvariant, PTL

-----------------------------------------------------------------------------
(* Queue, transport and collector together.                                *)

\* An answer of 200 said so: c is the id of a submission s that is stored.
StoredAs(s, c) == c \in Ids /\ origin[c] = s /\ post[c] = "accepted"

Places == {"none", "staging", "pending", "sent", "dead", "gone"}
State == [attempts : Nat, gated : BOOLEAN,
          collector_id : Ids \cup {NoCollectorId}, rejected : BOOLEAN]
Entry == [place : Places, attempts : Nat, gated : BOOLEAN,
          collector_id : Ids \cup {NoCollectorId}, rejected : BOOLEAN]

Flusher ==
  [pc : {"idle", "pass", "sending", "writing", "clearing", "moving"},
   todo : SUBSET Submissions, id : Submissions \cup {0}, state : State,
   target : {"none", "pending", "sent", "dead"}]

STypeInv ==
  /\ entry \in [Submissions -> Entry]
  /\ flusher \in [Flushers -> Flusher]
  /\ posts \in [Submissions -> Nat]
  /\ crashes \in Nat
  /\ request \in [Flushers -> Ids \cup {NoCollectorId}]
  /\ origin \in [Ids -> Submissions \cup {0}]

Busy(f) == flusher[f].pc \in {"sending", "writing", "clearing", "moving"}

\* A busy flusher works on an entry.
Named == \A f \in Flushers : Busy(f) => flusher[f].id \in Submissions

\* A request stands for the entry its flusher waits for.
Asked ==
  \A f \in Flushers : request[f] # NoRequest =>
    /\ At(f, "sending")
    /\ origin[request[f]] = flusher[f].id
    /\ post[request[f]] # "unused"

\* A flusher that was answered knows where the entry goes, and why.
Decided ==
  \A f \in Flushers : flusher[f].pc \in {"writing", "clearing", "moving"} =>
    /\ flusher[f].target = "sent"
         => StoredAs(flusher[f].id, flusher[f].state.collector_id)
    /\ flusher[f].target = "dead" => flusher[f].state.rejected
    /\ flusher[f].target = "pending" => At(f, "writing")
    /\ flusher[f].target # "none"

\* What is in sent/ is stored.
SentIsSomewhere == \A s \in In("sent") : \E c \in Ids : StoredAs(s, c)

SInv == STypeInv /\ Named /\ Asked /\ Decided /\ SentIsSomewhere /\ purged = {}

-----------------------------------------------------------------------------
(* The records of the queue.                                               *)

LEMMA FreshIsState ==
  /\ DOMAIN Fresh = {"attempts", "gated", "collector_id", "rejected"}
  /\ Fresh \in State
BY DEF Fresh, State

LEMMA StateOfEntry ==
  ASSUME NEW e \in Entry
  PROVE  /\ StateOf(e) \in State
         /\ StateOf(e).attempts = e.attempts
<1>1. StateOf(e) = [attempts |-> e.attempts, gated |-> e.gated,
                    collector_id |-> e.collector_id, rejected |-> e.rejected]
  BY FreshIsState DEF StateOf, Entry
<1> QED BY <1>1 DEF State, Entry

LEMMA EntryWithState ==
  ASSUME NEW place \in Places, NEW state \in State
  PROVE  /\ EntryWith(place, state) \in Entry
         /\ EntryWith(place, state).place = place
         /\ EntryWith(place, state).attempts = state.attempts
         /\ EntryWith(place, state).collector_id = state.collector_id
         /\ EntryWith(place, state).rejected = state.rejected
<1>1. EntryWith(place, state) =
        [place |-> place, attempts |-> state.attempts, gated |-> state.gated,
         collector_id |-> state.collector_id, rejected |-> state.rejected]
  BY DEF EntryWith, State
<1> QED BY <1>1 DEF State, Entry

LEMMA NewStates ==
  ASSUME NEW state \in State
  PROVE  /\ \A c \in Ids :
              /\ Accepted(state, c) \in State
              /\ Accepted(state, c).collector_id = c
              /\ Accepted(state, c).attempts = state.attempts
         /\ Rejected(state) \in State
         /\ Rejected(state).rejected
         /\ Rejected(state).attempts = state.attempts
BY DEF State, Accepted, Rejected

LEMMA FailedState ==
  ASSUME NEW state \in State
  PROVE  /\ Failed(state) \in State
         /\ Failed(state).attempts = state.attempts + 1
         /\ Exhausted(Failed(state)) => Failed(state).rejected
<1> DEFINE counted == [state EXCEPT !.attempts = @ + 1]
<1>1. counted \in State /\ counted.attempts = state.attempts + 1
  BY DEF State
<1>2. Failed(state) = IF Exhausted(counted) THEN Rejected(counted)
                                            ELSE [counted EXCEPT !.gated = TRUE]
  BY DEF Failed
<1> HIDE DEF counted
<1>3. CASE Exhausted(counted)
  BY <1>1, <1>2, <1>3, NewStates
<1>4. CASE ~ Exhausted(counted)
  <2>1. Failed(state) = [counted EXCEPT !.gated = TRUE]
    BY <1>2, <1>4
  <2>2. Failed(state) \in State /\ Failed(state).attempts = counted.attempts
    BY <1>1, <2>1 DEF State
  <2> QED BY <1>1, <1>4, <2>2 DEF Exhausted
<1> QED BY <1>3, <1>4

LEMMA IdleFacts == Idle \in Flusher /\ Idle.pc = "idle"
BY FreshIsState DEF Flusher, Idle

LEMMA NextFacts ==
  ASSUME STypeInv, NEW f \in Flushers, NEW s \in Submissions
  PROVE  NextEntry(f, s) \in Flusher /\ NextEntry(f, s).pc \in {"idle", "pass"}
BY FreshIsState DEF STypeInv, Flusher, Idle, NextEntry

-----------------------------------------------------------------------------
(* The invariant, for any number of flushers.                              *)

\* A step of the queue has its effect on the requests and no other.
QueueOnly ==
  /\ request' = [f \in Flushers |-> IF flusher'[f].pc = "sending" THEN request[f] ELSE NoRequest]
  /\ UNCHANGED <<cvars, origin>>

\* What a step of one flusher may do to it and to its entry.
LEMMA FlusherKeeps ==
  ASSUME SInv, QueueOnly, NEW f \in Flushers, NEW q \in Flusher,
         flusher' = [flusher EXCEPT ![f] = q],
         entry' \in [Submissions -> Entry],
         posts' \in [Submissions -> Nat], crashes' \in Nat,
         \/ q.pc \in {"idle", "pass"}
         \/ At(f, "pass") /\ q.pc = "sending" /\ q.id \in Submissions
         \/ /\ flusher[f].pc \in {"writing", "clearing"}
            /\ q.pc \in {"clearing", "moving"}
            /\ q.target # "pending"
            /\ q.id = flusher[f].id /\ q.state = flusher[f].state
            /\ q.target = flusher[f].target,
         \A s \in Submissions : entry'[s].place = "sent" =>
            \/ entry[s].place = "sent"
            \/ At(f, "moving") /\ flusher[f].target = "sent" /\ flusher[f].id = s
  PROVE  SInv'
<1>1. STypeInv'
  BY DEF SInv, STypeInv, QueueOnly, NoRequest
<1>2. \A g \in Flushers : flusher'[g] = IF g = f THEN q ELSE flusher[g]
  BY DEF SInv, STypeInv
<1>3. Named'
  BY <1>2 DEF SInv, Named, Busy
<1>4. Asked'
  BY <1>2 DEF SInv, STypeInv, Asked, At, QueueOnly, NoRequest, cvars
<1>5. Decided'
  BY <1>2 DEF SInv, Decided, At, StoredAs, QueueOnly, cvars
<1>6. SentIsSomewhere'
  <2> SUFFICES ASSUME NEW s \in Submissions, entry'[s].place = "sent"
               PROVE  \E c \in Ids : StoredAs(s, c)
    BY DEF SentIsSomewhere, In, StoredAs, QueueOnly, cvars
  <2>1. CASE entry[s].place = "sent"
    BY <2>1 DEF SInv, SentIsSomewhere, In
  <2>2. CASE At(f, "moving") /\ flusher[f].target = "sent" /\ flusher[f].id = s
    BY <2>2 DEF SInv, Decided, At, StoredAs
  <2> QED BY <2>1, <2>2
<1>7. purged' = {}
  BY DEF SInv, QueueOnly, cvars
<1> QED BY <1>1, <1>3, <1>4, <1>5, <1>6, <1>7 DEF SInv

\* In particular where a flusher goes on to its next entry or gives up.
LEMMA PassGoesOn ==
  ASSUME SInv, QueueOnly, NEW f \in Flushers, NEW q \in Flusher,
         flusher' = [flusher EXCEPT ![f] = q], q.pc \in {"idle", "pass"},
         entry' \in [Submissions -> Entry], posts' = posts, crashes' \in Nat,
         \A s \in Submissions : entry'[s].place = "sent" =>
            \/ entry[s].place = "sent"
            \/ At(f, "moving") /\ flusher[f].target = "sent" /\ flusher[f].id = s
  PROVE  SInv'
<1>1. posts' \in [Submissions -> Nat]
  BY DEF SInv, STypeInv
<1> QED BY <1>1, FlusherKeeps

\* Nor does a step that leaves the flushers alone disturb it.
LEMMA EntriesKeep ==
  ASSUME SInv, QueueOnly, UNCHANGED <<flusher, posts, crashes>>,
         entry' \in [Submissions -> Entry],
         \A s \in Submissions : entry'[s].place = "sent" => entry[s].place = "sent"
  PROVE  SInv'
<1>1. STypeInv'
  BY DEF SInv, STypeInv, QueueOnly, NoRequest
<1>2. Asked'
  BY DEF SInv, Asked, At, QueueOnly, NoRequest, cvars
<1>3. (Named /\ Decided)'
  BY DEF SInv, Named, Busy, Decided, At, StoredAs, QueueOnly, cvars
<1>4. SentIsSomewhere'
  BY DEF SInv, SentIsSomewhere, In, StoredAs, QueueOnly, cvars
<1>5. purged' = {}
  BY DEF SInv, QueueOnly, cvars
<1> QED BY <1>1, <1>2, <1>3, <1>4, <1>5 DEF SInv

LEMMA EnvironmentKeeps ==
  ASSUME SInv, QueueOnly, NEW s \in Submissions,
         Assemble(s) \/ Enqueue(s) \/ BackoffElapses(s) \/ PartsDrift(s)
  PROVE  SInv'
<1>0. entry \in [Submissions -> Entry]
  BY DEF SInv, STypeInv
<1>1. CASE Assemble(s)
  <2>1. EntryWith("staging", Fresh) \in Entry /\ EntryWith("staging", Fresh).place = "staging"
    BY FreshIsState, EntryWithState DEF Places
  <2> QED BY <1>0, <1>1, <2>1, EntriesKeep DEF Assemble
<1>2. CASE Enqueue(s)
  <2>1. [entry[s] EXCEPT !.place = "pending"] \in Entry
    BY <1>0 DEF Entry, Places
  <2> QED BY <1>0, <1>2, <2>1, EntriesKeep DEF Enqueue, Entry
<1>3. CASE BackoffElapses(s)
  <2>1. [entry[s] EXCEPT !.gated = FALSE] \in Entry
    BY <1>0 DEF Entry, Places
  <2> QED BY <1>0, <1>3, <2>1, EntriesKeep DEF BackoffElapses, Entry
<1>4. CASE PartsDrift(s)
  BY <1>0, <1>4, EntriesKeep DEF PartsDrift
<1> QED BY <1>1, <1>2, <1>3, <1>4

LEMMA FlusherStepKeeps ==
  ASSUME SInv, QueueOnly, NEW f \in Flushers, FlusherStep(f) \/ FlusherCrashes(f)
  PROVE  SInv'
<1>0. /\ STypeInv
      /\ entry \in [Submissions -> Entry]
      /\ flusher[f] \in Flusher
      /\ posts \in [Submissions -> Nat] /\ crashes \in Nat
  BY DEF SInv, STypeInv
<1>1. CASE StartPass(f)
  <2> DEFINE q == [Idle EXCEPT !.pc = "pass", !.todo = PendingIds]
  <2>1. q \in Flusher /\ q.pc = "pass"
    BY FreshIsState DEF Flusher, Idle, PendingIds, In
  <2>2. flusher' = [flusher EXCEPT ![f] = q] /\ UNCHANGED <<entry, posts, crashes>>
    BY <1>1 DEF StartPass
  <2> HIDE DEF q
  <2> QED BY <1>0, <2>1, <2>2, PassGoesOn
<1>2. CASE FlusherCrashes(f)
  <2>1. flusher' = [flusher EXCEPT ![f] = Idle] /\ UNCHANGED <<entry, posts>>
    BY <1>2 DEF FlusherCrashes
  <2>2. crashes' \in Nat
    BY <1>0, <1>2 DEF FlusherCrashes
  <2> QED BY <1>0, <2>1, <2>2, IdleFacts, PassGoesOn
<1>3. ASSUME NEW s \in Submissions, Defer(f, s) \/ LoadFails(f, s)
      PROVE  SInv'
  <2>1. /\ \/ flusher' = [flusher EXCEPT ![f] = NextEntry(f, s)]
           \/ flusher' = [flusher EXCEPT ![f] = Idle]
        /\ UNCHANGED <<entry, posts, crashes>>
    BY <1>3 DEF Defer, LoadFails
  <2> QED BY <1>0, <2>1, IdleFacts, NextFacts, PassGoesOn
<1>4. ASSUME NEW s \in Submissions, Send(f, s)
      PROVE  SInv'
  <2> DEFINE q == [flusher[f] EXCEPT !.pc = "sending", !.id = s, !.state = StateOf(entry[s])]
  <2>1. flusher' = [flusher EXCEPT ![f] = q]
    BY <1>4 DEF Send
  <2>2. StateOf(entry[s]) \in State
    BY <1>0, StateOfEntry
  <2>3. q \in Flusher /\ q.pc = "sending" /\ q.id = s
    BY <1>0, <2>2 DEF Flusher
  <2>4. posts' \in [Submissions -> Nat]
    BY <1>0, <1>4 DEF Send
  <2> HIDE DEF q
  <2> QED BY <1>0, <1>4, <2>1, <2>3, <2>4, FlusherKeeps DEF Send
<1>5. CASE WriteState(f)
  <2> DEFINE s == flusher[f].id
             q == [flusher[f] EXCEPT !.pc = "clearing"]
  <2>1. s \in Submissions /\ flusher[f].target # "none" /\ At(f, "writing")
    BY <1>5 DEF SInv, Named, Decided, Busy, At, WriteState
  <2>2. CASE entry[s].place = "pending"
    <3>1. /\ EntryWith("pending", flusher[f].state) \in Entry
          /\ EntryWith("pending", flusher[f].state).place = "pending"
      BY <1>0, EntryWithState DEF Flusher, Places
    <3>2. /\ entry' = [entry EXCEPT ![s] = EntryWith("pending", flusher[f].state)]
          /\ UNCHANGED <<posts, crashes>>
      BY <1>5, <2>2 DEF WriteState
    <3>3. /\ entry' \in [Submissions -> Entry]
          /\ \A t \in Submissions : entry'[t].place = "sent" => entry[t].place = "sent"
      BY <1>0, <3>1, <3>2
    <3>4. CASE flusher[f].target = "pending"
      <4>1. flusher' = [flusher EXCEPT ![f] = NextEntry(f, s)]
        BY <1>5, <2>2, <3>4 DEF WriteState
      <4> QED BY <1>0, <2>1, <3>2, <3>3, <4>1, NextFacts, PassGoesOn
    <3>5. CASE flusher[f].target # "pending"
      <4>1. flusher' = [flusher EXCEPT ![f] = q]
        BY <1>5, <2>2, <3>5 DEF WriteState
      <4>2. /\ q \in Flusher /\ q.pc = "clearing" /\ q.id = flusher[f].id
            /\ q.state = flusher[f].state /\ q.target = flusher[f].target
        BY <1>0 DEF Flusher
      <4> HIDE DEF q
      <4> QED BY <1>0, <2>1, <3>2, <3>3, <3>5, <4>1, <4>2, FlusherKeeps DEF At
    <3> QED BY <3>4, <3>5
  <2>3. CASE entry[s].place # "pending"
    <3>1. UNCHANGED <<entry, posts, crashes>> /\ flusher' = [flusher EXCEPT ![f] = Idle]
      BY <1>5, <2>3 DEF WriteState
    <3> QED BY <1>0, <3>1, IdleFacts, PassGoesOn
  <2> QED BY <2>2, <2>3
<1>6. CASE ClearTarget(f)
  <2> DEFINE s == flusher[f].id
             q == [flusher[f] EXCEPT !.pc = "moving"]
  <2>1. s \in Submissions /\ flusher[f].target # "pending" /\ At(f, "clearing")
    BY <1>6 DEF SInv, Named, Decided, Busy, At, ClearTarget
  <2>2. flusher' = [flusher EXCEPT ![f] = q] /\ UNCHANGED <<posts, crashes>>
    BY <1>6 DEF ClearTarget
  <2>3. /\ q \in Flusher /\ q.pc = "moving" /\ q.id = flusher[f].id
        /\ q.state = flusher[f].state /\ q.target = flusher[f].target
    BY <1>0 DEF Flusher
  <2>4. [entry[s] EXCEPT !.place = "gone"] \in Entry
    BY <1>0, <2>1 DEF Entry, Places
  <2>5. /\ entry' \in [Submissions -> Entry]
        /\ \A t \in Submissions : entry'[t].place = "sent" => entry[t].place = "sent"
    BY <1>0, <1>6, <2>1, <2>4 DEF ClearTarget, Entry
  <2> HIDE DEF q
  <2> QED BY <1>0, <2>1, <2>2, <2>3, <2>5, FlusherKeeps DEF At
<1>7. CASE Move(f)
  <2> DEFINE s == flusher[f].id
             q == IF entry[s].place = "pending" THEN NextEntry(f, s) ELSE Idle
  <2>1. /\ s \in Submissions /\ At(f, "moving")
        /\ flusher[f].target \in {"sent", "dead"}
    BY <1>0, <1>7 DEF SInv, Named, Decided, Busy, At, Move, Flusher
  <2>2. flusher' = [flusher EXCEPT ![f] = q] /\ UNCHANGED <<posts, crashes>>
    BY <1>7 DEF Move
  <2>3. q \in Flusher /\ q.pc \in {"idle", "pass"}
    BY <1>0, <2>1, IdleFacts, NextFacts
  <2>4. [entry[s] EXCEPT !.place = flusher[f].target] \in Entry
    BY <1>0, <2>1 DEF Entry, Places
  <2>5. /\ entry' \in [Submissions -> Entry]
        /\ \A t \in Submissions : entry'[t].place = "sent" =>
             entry[t].place = "sent" \/ (flusher[f].target = "sent" /\ s = t)
    <3>1. CASE entry[s].place = "pending"
      <4>1. entry' = [entry EXCEPT ![s] = [entry[s] EXCEPT !.place = flusher[f].target]]
        BY <1>7, <3>1 DEF Move
      <4> QED BY <1>0, <2>1, <2>4, <4>1 DEF Entry
    <3>2. CASE entry[s].place # "pending"
      BY <1>0, <1>7, <3>2 DEF Move
    <3> QED BY <3>1, <3>2
  <2> HIDE DEF q
  <2> QED BY <1>0, <2>1, <2>2, <2>3, <2>5, PassGoesOn
<1> QED
  BY <1>1, <1>2, <1>3, <1>4, <1>5, <1>6, <1>7 DEF FlusherStep

\* What the collector does to an upload never takes an answer back.
LEMMA CollectorForward ==
  ASSUME CInv, NEW d \in Ids,
         Stage(d) \/ Place(d) \/ Insert(d) \/ SaveFails(d) \/ ServerCrashes
  PROVE  /\ purged' = purged
         /\ \A c \in Ids : post[c] = "accepted" => post'[c] = "accepted"
         /\ \A c \in Ids : post[c] # "unused" => post'[c] # "unused"
BY DEF CInv, CTypeInv, Stage, Place, Insert, SaveFails, ServerCrashes

\* So what a flusher once heard of stays stored.
LEMMA StoredStays ==
  ASSUME CInv, SInv,
         SCollectorStep \/ \E f \in Flushers, d \in Ids : Arrive(f, d)
  PROVE  \A s \in Submissions, c \in Ids : StoredAs(s, c) => StoredAs(s, c)'
<1>1. CASE SCollectorStep
  <2>1. \E d \in Ids : Stage(d) \/ Place(d) \/ Insert(d) \/ SaveFails(d) \/ ServerCrashes
    BY <1>1 DEF SCollectorStep, ServerCrashes
  <2>2. \A c \in Ids : post[c] = "accepted" => post'[c] = "accepted"
    BY <2>1, CollectorForward
  <2> QED BY <1>1, <2>2 DEF SCollectorStep, StoredAs
<1>2. ASSUME NEW f \in Flushers, NEW d \in Ids, Arrive(f, d)
      PROVE  \A s \in Submissions, c \in Ids : StoredAs(s, c) => StoredAs(s, c)'
  BY <1>2 DEF Arrive, Stage, CInv, CTypeInv, SInv, STypeInv, StoredAs
<1> QED BY <1>1, <1>2

LEMMA SCollectorStepKeeps ==
  ASSUME CInv, SInv, SCollectorStep
  PROVE  SInv'
<1>0. UNCHANGED <<entry, flusher, posts, crashes, request, origin>>
  BY DEF SCollectorStep, qvars
<1>1. \E d \in Ids : Stage(d) \/ Place(d) \/ Insert(d) \/ SaveFails(d) \/ ServerCrashes
  BY DEF SCollectorStep, ServerCrashes
<1>6. /\ purged' = purged
      /\ \A c \in Ids : post[c] = "accepted" => post'[c] = "accepted"
      /\ \A c \in Ids : post[c] # "unused" => post'[c] # "unused"
  BY <1>1, CollectorForward
<1>2. (STypeInv /\ Named)'
  BY <1>0 DEF SInv, STypeInv, Named, Busy
<1>3. Asked'
  BY <1>0, <1>6 DEF SInv, STypeInv, Asked, At, NoRequest
<1>4. Decided'
  BY <1>0, StoredStays DEF SInv, Named, Busy, Decided, At, StoredAs
<1>5. SentIsSomewhere'
  BY <1>0, StoredStays DEF SInv, SentIsSomewhere, In
<1> QED BY <1>6, <1>2, <1>3, <1>4, <1>5 DEF SInv

\* The id drawn for a POST is nobody's yet.
LEMMA ArriveKeeps ==
  ASSUME CInv, SInv, NEW f \in Flushers, NEW d \in Ids, Arrive(f, d)
  PROVE  SInv'
<1>0. /\ At(f, "sending") /\ UNCHANGED qvars
      /\ request' = [request EXCEPT ![f] = d]
      /\ origin' = [origin EXCEPT ![d] = flusher[f].id]
      /\ post[d] = "unused" /\ post' = [post EXCEPT ![d] = "staged"]
      /\ UNCHANGED purged
  BY DEF Arrive, Stage
<1>1. flusher[f].id \in Submissions
  BY <1>0 DEF SInv, Named, Busy, At
<1>2. STypeInv'
  BY <1>0, <1>1 DEF SInv, STypeInv, qvars
<1>3. \A s \in Submissions, c \in Ids : StoredAs(s, c) => StoredAs(s, c)'
  BY StoredStays
<1>4. Asked'
  BY <1>0 DEF CInv, CTypeInv, SInv, STypeInv, Asked, At, NoRequest, qvars
<1>5. Named'
  BY <1>0 DEF SInv, Named, Busy, qvars
<1>6. Decided'
  BY <1>0, <1>3 DEF SInv, Named, Busy, Decided, At, StoredAs, qvars
<1>7. SentIsSomewhere'
  BY <1>0, <1>3 DEF SInv, SentIsSomewhere, In, qvars
<1> QED BY <1>0, <1>2, <1>4, <1>5, <1>6, <1>7 DEF SInv

\* What a flusher makes of an answer: the record it goes on with.
LEMMA AnsweredKeeps ==
  ASSUME SInv, NEW f \in Flushers, NEW state \in State,
         NEW target \in {"pending", "sent", "dead"},
         Answered(f, state, target),
         request' = [request EXCEPT ![f] = NoRequest], UNCHANGED <<cvars, origin>>,
         target = "sent" => StoredAs(flusher[f].id, state.collector_id),
         target = "dead" => state.rejected
  PROVE  SInv'
<1> DEFINE q == [flusher[f] EXCEPT !.pc = "writing", !.state = state, !.target = target]
<1>1. /\ At(f, "sending") /\ flusher' = [flusher EXCEPT ![f] = q]
      /\ UNCHANGED <<entry, posts, crashes>>
  BY DEF Answered
<1>2. /\ q \in Flusher /\ q.pc = "writing" /\ q.id = flusher[f].id
      /\ q.state = state /\ q.target = target
  BY DEF SInv, STypeInv, Flusher
<1> HIDE DEF q
<1>3. /\ \A g \in Flushers : flusher'[g] = IF g = f THEN q ELSE flusher[g]
      /\ \A g \in Flushers : request'[g] = IF g = f THEN NoRequest ELSE request[g]
  BY <1>1 DEF SInv, STypeInv
<1>4. STypeInv'
  BY <1>1, <1>2 DEF SInv, STypeInv, NoRequest
<1>5. Named'
  BY <1>1, <1>2, <1>3 DEF SInv, Named, Busy, At
<1>6. Asked'
  BY <1>3 DEF SInv, Asked, At, cvars
<1>7. Decided'
  BY <1>2, <1>3 DEF SInv, Decided, At, StoredAs, cvars
<1>8. SentIsSomewhere' /\ purged' = {}
  BY <1>1 DEF SInv, SentIsSomewhere, In, StoredAs, cvars
<1> QED BY <1>4, <1>5, <1>6, <1>7, <1>8 DEF SInv

LEMMA AnswerKeeps ==
  ASSUME SInv, NEW f \in Flushers, Answer(f)
  PROVE  SInv'
<1>0. flusher[f].state \in State
  BY DEF SInv, STypeInv, Flusher
<1>1. CASE HearsAccepted(f)
  <2> DEFINE c == request[f]
  <2>1. /\ c \in Ids /\ post[c] = "accepted"
        /\ Answered(f, Accepted(flusher[f].state, c), "sent")
        /\ request' = [request EXCEPT ![f] = NoRequest] /\ UNCHANGED <<cvars, origin>>
    BY <1>1 DEF HearsAccepted, Hears, Accept
  <2>2. origin[c] = flusher[f].id
    BY <2>1, NoneIsNoId DEF SInv, Asked, NoRequest
  <2> QED BY <1>0, <2>1, <2>2, NewStates, AnsweredKeeps DEF StoredAs
<1>2. CASE HearsRefused(f)
  BY <1>0, <1>2, NewStates, AnsweredKeeps DEF HearsRefused, Hears, Refuse
<1>3. CASE HearsNothing(f)
  <2> DEFINE state == Failed(flusher[f].state)
  <2>1. /\ Answered(f, state, IF Exhausted(state) THEN "dead" ELSE "pending")
        /\ request' = [request EXCEPT ![f] = NoRequest] /\ UNCHANGED <<cvars, origin>>
    BY <1>3 DEF HearsNothing, Hears, Fail
  <2>2. state \in State /\ (Exhausted(state) => state.rejected)
    BY <1>0, FailedState
  <2> HIDE DEF state
  <2>3. CASE Exhausted(state)
    BY <2>1, <2>2, <2>3, AnsweredKeeps
  <2>4. CASE ~ Exhausted(state)
    BY <2>1, <2>2, <2>4, AnsweredKeeps
  <2> QED BY <2>3, <2>4
<1> QED BY <1>1, <1>2, <1>3 DEF Answer

-----------------------------------------------------------------------------
(* The composition.                                                        *)

\* Under the queue and the network the collector is still the collector: what
\* is proved of it alone holds end to end.
THEOREM SubmissionUsesCollector == SSpec => CSpec
<1>1. SInit => CInit
  BY DEF SInit
<1>2. [SNext]_svars => [CNext]_cvars
  BY DEF SNext, SQueueStep, SCollectorStep, Answer, HearsAccepted, HearsRefused,
         HearsNothing, Hears, Arrive, CNext, Handler, svars
<1> QED BY <1>1, <1>2, PTL DEF SSpec, CSpec

LEMMA SInvInit == SInit => SInv
<1> SUFFICES ASSUME SInit PROVE SInv
  OBVIOUS
<1>1. \A s \in Submissions : entry[s] \in Entry /\ entry[s].place = "none"
  BY FreshIsState, EntryWithState DEF SInit, QInit, Places
<1>2. STypeInv
  BY <1>1, IdleFacts DEF SInit, QInit, STypeInv, NoRequest
<1>3. \A f \in Flushers : flusher[f].pc = "idle" /\ request[f] = NoRequest
  BY IdleFacts DEF SInit, QInit
<1> QED
  BY <1>1, <1>2, <1>3 DEF SInit, CInit, SInv, Named, Busy, Asked, Decided, SentIsSomewhere, In

LEMMA SInvStep == CInv /\ SInv /\ [SNext]_svars => SInv'
<1> SUFFICES ASSUME CInv, SInv, [SNext]_svars PROVE SInv'
  OBVIOUS
<1>1. CASE SQueueStep
  BY <1>1, EnvironmentKeeps, FlusherStepKeeps DEF SQueueStep, QueueOnly, QueueStep
<1>2. CASE SCollectorStep
  BY <1>2, SCollectorStepKeeps
<1>3. ASSUME NEW f \in Flushers, Answer(f) PROVE SInv'
  BY <1>3, AnswerKeeps
<1>4. ASSUME NEW f \in Flushers, NEW c \in Ids, Arrive(f, c) PROVE SInv'
  BY <1>4, ArriveKeeps
<1>5. CASE UNCHANGED svars
  BY <1>5 DEF svars, qvars, cvars, SInv, STypeInv, Named, Busy, Asked, Decided,
              SentIsSomewhere, In, At, StoredAs
<1> QED BY <1>1, <1>2, <1>3, <1>4, <1>5 DEF SNext

\* What holds of queue, network and collector however many flush at once.
THEOREM SubmissionInvariant == SSpec => [](CInv /\ SInv)
<1>1. SSpec => []CInv
  BY SubmissionUsesCollector, CollectorInvariant, PTL
<1> QED BY <1>1, SInvInit, SInvStep, PTL DEF SSpec

\* Whatever is in sent/ is stored under some id, however many flush at once
\* (queue.rs, attempt_pending; store.rs, save_submission).
SentHasACopy ==
  \A s \in In("sent") : \E c \in Ids : origin[c] = s /\ Payload \subseteq files[c]

\* What an entry in sent/ promises even then.
THEOREM NothingSentIsLost == SSpec => []SentHasACopy
<1>1. CInv /\ SInv => SentHasACopy
  BY DEF CInv, Whole, SInv, SentIsSomewhere, StoredAs, SentHasACopy
<1> QED BY <1>1, SubmissionInvariant, PTL

-----------------------------------------------------------------------------
(* One flusher at a time.  With two, the state the one has written may be   *)
(* overwritten by the other, and what follows does not hold.               *)

OneFlusher == \A f, g \in Flushers : f = g

\* The entry it works on waits for it, with the state it has written.
Sole ==
  \A f \in Flushers :
    LET e == entry[flusher[f].id]
        state == flusher[f].state
        target == flusher[f].target
    IN /\ Busy(f) => e.place = "pending"
       /\ flusher[f].pc \in {"clearing", "moving"} =>
            /\ target = "sent" => e.collector_id = state.collector_id
            /\ target = "dead" => e.rejected
       /\ flusher[f].pc \in {"sending", "writing"} => e.attempts <= state.attempts
       /\ At(f, "writing") /\ target = "pending"
            => e.attempts < state.attempts /\ state.attempts < MaxAttempts

\* ... and under the id the entry has.
SentByName == \A s \in In("sent") : StoredAs(s, entry[s].collector_id)

Holds(s) == \E f \in Flushers : Busy(f) /\ flusher[f].id = s

Waits(s) == entry[s].place \in {"none", "staging", "pending"}

\* An entry that waits can be sent once more, and but for crashes its count
\* says how often it was.
Counted ==
  \A s \in Submissions :
    /\ posts[s] <= MaxAttempts + crashes
    /\ entry[s].place = "none" => posts[s] = 0
    /\ Waits(s) /\ Holds(s) => posts[s] <= entry[s].attempts + 1 + crashes
    /\ Waits(s) /\ ~ Holds(s) => /\ posts[s] <= entry[s].attempts + crashes
                                 /\ posts[s] < MaxAttempts + crashes

AloneInv == Sole /\ SentByName /\ Counted

\* A flusher that goes on or starts again, by itself or after a crash.
LEMMA RestAlone ==
  ASSUME OneFlusher, SInv, AloneInv, QueueOnly, NEW f \in Flushers, NEW q \in Flusher,
         flusher' = [flusher EXCEPT ![f] = q], q.pc \in {"idle", "pass"},
         UNCHANGED <<entry, posts>>,
         \/ crashes' = crashes /\ ~ Busy(f)
         \/ crashes' = crashes + 1
  PROVE  AloneInv'
<1>1. flusher'[f] = q /\ crashes \in Nat /\ posts \in [Submissions -> Nat]
  BY DEF SInv, STypeInv
<1>2. Sole'
  BY <1>1 DEF OneFlusher, Sole, Busy, At
<1>3. SentByName'
  BY DEF AloneInv, SentByName, In, StoredAs, QueueOnly, cvars
<1>4. Counted'
  <2>1. \A s \in Submissions : ~ Holds(s)'
    BY <1>1 DEF OneFlusher, Holds, Busy
  <2>2. CASE crashes' = crashes /\ ~ Busy(f)
    <3>1. \A s \in Submissions : ~ Holds(s)
      BY <2>2 DEF OneFlusher, Holds
    <3> QED BY <2>1, <2>2, <3>1 DEF AloneInv, Counted, Waits
  <2>3. CASE crashes' = crashes + 1
    <3>1. /\ \A s \in Submissions : entry[s].attempts \in Nat /\ posts[s] \in Nat
          /\ MaxAttempts \in Nat
      BY <1>1, QueueConstants DEF SInv, STypeInv, Entry
    <3> QED BY <1>1, <2>1, <2>3, <3>1 DEF AloneInv, Counted, Waits
  <2> QED BY <2>2, <2>3
<1> QED BY <1>2, <1>3, <1>4 DEF AloneInv

\* The entry sent had an attempt left.
LEMMA SendAlone ==
  ASSUME OneFlusher, SInv, AloneInv, QueueOnly,
         NEW f \in Flushers, NEW s \in Submissions, Send(f, s)
  PROVE  AloneInv'
<1> DEFINE q == [flusher[f] EXCEPT !.pc = "sending", !.id = s, !.state = StateOf(entry[s])]
<1>1. /\ At(f, "pass") /\ entry[s].place = "pending" /\ UNCHANGED <<entry, crashes>>
      /\ flusher' = [flusher EXCEPT ![f] = q] /\ posts' = [posts EXCEPT ![s] = @ + 1]
  BY DEF Send, Loadable
<1>2. /\ entry[s] \in Entry /\ flusher[f] \in Flusher /\ posts \in [Submissions -> Nat]
      /\ crashes \in Nat /\ flusher \in [Flushers -> Flusher]
      /\ entry \in [Submissions -> Entry]
  BY DEF SInv, STypeInv
<1>3. q.pc = "sending" /\ q.id = s /\ q.state.attempts = entry[s].attempts
  BY <1>2, StateOfEntry DEF Flusher
<1> HIDE DEF q
<1>4. flusher'[f] = q
  BY <1>1, <1>2
<1>5. Sole'
  BY <1>1, <1>2, <1>3, <1>4, StateOfEntry DEF OneFlusher, Sole, Busy, At, Entry
<1>6. SentByName'
  BY <1>1 DEF AloneInv, SentByName, In, StoredAs, QueueOnly, cvars
<1>7. Counted'
  <2> SUFFICES ASSUME NEW t \in Submissions
               PROVE  /\ posts'[t] <= MaxAttempts + crashes
                      /\ entry[t].place = "none" => posts'[t] = 0
                      /\ Waits(t) /\ Holds(t)' => posts'[t] <= entry[t].attempts + 1 + crashes
                      /\ Waits(t) /\ ~ Holds(t)' =>
                           /\ posts'[t] <= entry[t].attempts + crashes
                           /\ posts'[t] < MaxAttempts + crashes
    BY <1>1 DEF Counted, Waits
  <2>1. ~ Holds(t)
    BY <1>1 DEF OneFlusher, Holds, Busy, At
  <2>2. Holds(t)' <=> t = s
    BY <1>3, <1>4 DEF OneFlusher, Holds, Busy
  <2>3. CASE t = s
    BY <1>1, <1>2, <2>1, <2>2, <2>3, QueueConstants DEF AloneInv, Counted, Waits, Entry
  <2>4. CASE t # s
    BY <1>1, <1>2, <2>1, <2>2, <2>4 DEF AloneInv, Counted, Waits
  <2> QED BY <2>3, <2>4
<1> QED BY <1>5, <1>6, <1>7 DEF AloneInv

\* The retry's count is on disk before the next attempt can read it.
LEMMA WriteStateAlone ==
  ASSUME OneFlusher, SInv, AloneInv, QueueOnly, NEW f \in Flushers, WriteState(f)
  PROVE  AloneInv'
<1> DEFINE s == flusher[f].id
           state == flusher[f].state
           e == EntryWith("pending", state)
           retry == flusher[f].target = "pending"
           q == IF retry THEN NextEntry(f, s) ELSE [flusher[f] EXCEPT !.pc = "clearing"]
<1>1. /\ s \in Submissions /\ Busy(f) /\ At(f, "writing") /\ entry[s].place = "pending"
  BY DEF SInv, Named, Busy, At, WriteState, AloneInv, Sole
<1>2. /\ entry' = [entry EXCEPT ![s] = e] /\ UNCHANGED <<posts, crashes>>
      /\ flusher' = [flusher EXCEPT ![f] = q]
  BY <1>1 DEF WriteState
<1>3. /\ flusher[f] \in Flusher /\ state \in State /\ state.attempts \in Nat
      /\ flusher \in [Flushers -> Flusher] /\ entry \in [Submissions -> Entry]
      /\ posts \in [Submissions -> Nat] /\ crashes \in Nat /\ entry[s].attempts \in Nat
  BY <1>1 DEF SInv, STypeInv, Flusher, State, Entry
<1>4. /\ e.place = "pending" /\ e.attempts = state.attempts
      /\ e.collector_id = state.collector_id /\ e.rejected = state.rejected
  BY <1>3, EntryWithState DEF Places
<1>5. /\ retry => q.pc \in {"idle", "pass"}
      /\ ~ retry => /\ q.pc = "clearing" /\ q.id = s /\ q.state = state
                    /\ q.target = flusher[f].target
  BY <1>1, <1>3, NextFacts DEF SInv, Flusher
<1>6. /\ flusher[f].target = "dead" => state.rejected
      /\ entry[s].attempts <= state.attempts
      /\ retry => entry[s].attempts < state.attempts /\ state.attempts < MaxAttempts
  BY <1>1 DEF SInv, Decided, AloneInv, Sole, At
<1>7. /\ flusher'[f] = q /\ entry'[s] = e
      /\ \A t \in Submissions : t # s => entry'[t] = entry[t]
  BY <1>1, <1>2, <1>3
<1> HIDE DEF q, e
<1>8. Sole'
  BY <1>4, <1>5, <1>6, <1>7 DEF OneFlusher, Sole, Busy, At
<1>9. SentByName'
  BY <1>4, <1>7 DEF AloneInv, SentByName, In, StoredAs, QueueOnly, cvars
<1>10. Counted'
  <2> SUFFICES ASSUME NEW t \in Submissions
               PROVE  /\ posts[t] <= MaxAttempts + crashes
                      /\ entry'[t].place = "none" => posts[t] = 0
                      /\ Waits(t)' /\ Holds(t)' => posts[t] <= entry'[t].attempts + 1 + crashes
                      /\ Waits(t)' /\ ~ Holds(t)' =>
                           /\ posts[t] <= entry'[t].attempts + crashes
                           /\ posts[t] < MaxAttempts + crashes
    BY <1>2 DEF Counted
  <2>1. Holds(t) <=> t = s
    BY <1>1 DEF OneFlusher, Holds
  <2>2. Holds(t)' <=> t = s /\ ~ retry
    BY <1>5, <1>7 DEF OneFlusher, Holds, Busy
  <2>3. posts[t] \in Nat /\ MaxAttempts \in Nat
    BY <1>3, QueueConstants
  <2>4. CASE t = s
    BY <1>1, <1>3, <1>4, <1>6, <1>7, <2>1, <2>2, <2>3, <2>4 DEF AloneInv, Counted, Waits
  <2>5. CASE t # s
    BY <1>7, <2>1, <2>2, <2>5 DEF AloneInv, Counted, Waits
  <2> QED BY <2>4, <2>5
<1> QED BY <1>8, <1>9, <1>10 DEF AloneInv

\* The entry moves with what was written; no other is in its way.
LEMMA MoveAlone ==
  ASSUME OneFlusher, SInv, AloneInv, QueueOnly, NEW f \in Flushers,
         ClearTarget(f) \/ Move(f)
  PROVE  AloneInv'
<1> DEFINE s == flusher[f].id
<1>1. /\ s \in Submissions /\ Busy(f) /\ entry[s].place = "pending"
      /\ flusher[f].target \in {"sent", "dead"} /\ flusher[f].pc \in {"clearing", "moving"}
  BY DEF SInv, STypeInv, Flusher, Named, Decided, Busy, At, ClearTarget, Move, AloneInv, Sole
<1>2. /\ flusher[f] \in Flusher /\ flusher \in [Flushers -> Flusher]
      /\ entry \in [Submissions -> Entry]
  BY DEF SInv, STypeInv
<1>3. CASE ClearTarget(f)
  <2> DEFINE q == [flusher[f] EXCEPT !.pc = "moving"]
  <2>1. UNCHANGED <<entry, posts, crashes>> /\ flusher' = [flusher EXCEPT ![f] = q]
    BY <1>1, <1>3 DEF ClearTarget
  <2>2. /\ q.pc = "moving" /\ q.id = s /\ q.state = flusher[f].state
        /\ q.target = flusher[f].target
    BY <1>2 DEF Flusher
  <2> HIDE DEF q
  <2>3. flusher'[f] = q
    BY <1>2, <2>1
  <2>4. Sole'
    BY <1>1, <2>1, <2>2, <2>3 DEF OneFlusher, AloneInv, Sole, Busy, At
  <2>5. SentByName'
    BY <2>1 DEF AloneInv, SentByName, In, StoredAs, QueueOnly, cvars
  <2>6. \A t \in Submissions : Holds(t)' <=> Holds(t)
    BY <1>1, <2>2, <2>3 DEF OneFlusher, Holds, Busy
  <2>7. Counted'
    BY <2>1, <2>6 DEF AloneInv, Counted, Waits
  <2> QED BY <2>4, <2>5, <2>7 DEF AloneInv
<1>4. CASE Move(f)
  <2> DEFINE q == NextEntry(f, s)
             e == [entry[s] EXCEPT !.place = flusher[f].target]
  <2>1. /\ UNCHANGED <<posts, crashes>> /\ flusher' = [flusher EXCEPT ![f] = q]
        /\ entry' = [entry EXCEPT ![s] = e]
    BY <1>1, <1>4 DEF Move
  <2>2. q.pc \in {"idle", "pass"}
    BY <1>1, NextFacts DEF SInv
  <2>3. e.place = flusher[f].target /\ e.collector_id = entry[s].collector_id
    BY <1>1, <1>2 DEF Entry
  <2> HIDE DEF q, e
  <2>4. /\ flusher'[f] = q /\ entry'[s] = e
        /\ \A t \in Submissions : t # s => entry'[t] = entry[t]
    BY <1>1, <1>2, <2>1
  <2>5. Sole'
    BY <2>2, <2>4 DEF OneFlusher, Sole, Busy, At
  <2>6. SentByName'
    <3> SUFFICES ASSUME NEW t \in Submissions, entry'[t].place = "sent"
                 PROVE  StoredAs(t, entry'[t].collector_id)
      BY DEF SentByName, In, StoredAs, QueueOnly, cvars
    <3>1. CASE t = s
      BY <1>1, <2>3, <2>4, <3>1 DEF AloneInv, Sole, SInv, Decided
    <3>2. CASE t # s
      BY <2>4, <3>2 DEF AloneInv, SentByName, In
    <3> QED BY <3>1, <3>2
  <2>7. \A t \in Submissions : t # s => ~ Holds(t) /\ ~ Holds(t)'
    BY <1>1, <2>2, <2>4 DEF OneFlusher, Holds, Busy
  <2>8. Counted'
    BY <1>1, <2>1, <2>3, <2>4, <2>7 DEF AloneInv, Counted, Waits
  <2> QED BY <2>5, <2>6, <2>8 DEF AloneInv
<1> QED BY <1>3, <1>4

LEMMA FlusherStepAlone ==
  ASSUME OneFlusher, SInv, AloneInv, QueueOnly, NEW f \in Flushers,
         FlusherStep(f) \/ FlusherCrashes(f)
  PROVE  AloneInv'
<1>1. CASE StartPass(f)
  <2> DEFINE q == [Idle EXCEPT !.pc = "pass", !.todo = PendingIds]
  <2>1. q \in Flusher /\ q.pc = "pass"
    BY FreshIsState DEF Flusher, Idle, PendingIds, In
  <2>2. /\ flusher' = [flusher EXCEPT ![f] = q] /\ UNCHANGED <<entry, posts, crashes>>
        /\ ~ Busy(f)
    BY <1>1 DEF StartPass, At, Busy
  <2> HIDE DEF q
  <2> QED BY <2>1, <2>2, RestAlone
<1>2. CASE FlusherCrashes(f)
  BY <1>2, IdleFacts, RestAlone DEF FlusherCrashes
<1>3. ASSUME NEW s \in Submissions, Defer(f, s) \/ LoadFails(f, s)
      PROVE  AloneInv'
  <2>1. /\ \/ flusher' = [flusher EXCEPT ![f] = NextEntry(f, s)]
           \/ flusher' = [flusher EXCEPT ![f] = Idle]
        /\ UNCHANGED <<entry, posts, crashes>> /\ ~ Busy(f)
    BY <1>3 DEF Defer, LoadFails, At, Busy
  <2>2. STypeInv
    BY DEF SInv
  <2> QED BY <2>1, <2>2, IdleFacts, NextFacts, RestAlone
<1>4. ASSUME NEW s \in Submissions, Send(f, s) PROVE AloneInv'
  BY <1>4, SendAlone
<1> QED
  BY <1>1, <1>2, <1>3, <1>4, WriteStateAlone, MoveAlone DEF FlusherStep

LEMMA EnvironmentAlone ==
  ASSUME OneFlusher, SInv, AloneInv, QueueOnly, NEW s \in Submissions,
         Assemble(s) \/ Enqueue(s) \/ BackoffElapses(s) \/ PartsDrift(s)
  PROVE  AloneInv'
<1>1. /\ UNCHANGED <<flusher, posts, crashes>>
      /\ entry \in [Submissions -> Entry] /\ entry[s] \in Entry
      /\ posts \in [Submissions -> Nat] /\ crashes \in Nat /\ MaxAttempts \in Nat \ {0}
  BY QueueConstants DEF SInv, STypeInv, Assemble, Enqueue, BackoffElapses, PartsDrift
<1>2. \A t \in Submissions : t # s => entry'[t] = entry[t]
  BY <1>1 DEF Assemble, Enqueue, BackoffElapses, PartsDrift
<1>3. \/ /\ entry[s].place = "none" /\ entry'[s].place = "staging"
         /\ entry'[s].attempts = 0
      \/ /\ entry[s].place = "staging" /\ entry'[s].place = "pending"
         /\ entry'[s].attempts = entry[s].attempts
      \/ /\ entry'[s].place = entry[s].place
         /\ entry'[s].attempts = entry[s].attempts
         /\ entry'[s].collector_id = entry[s].collector_id
         /\ entry'[s].rejected = entry[s].rejected
  <2>1. CASE Assemble(s)
    <3>1. /\ EntryWith("staging", Fresh).place = "staging"
          /\ EntryWith("staging", Fresh).attempts = 0
      BY FreshIsState, EntryWithState DEF Places, Fresh
    <3> QED BY <1>1, <2>1, <3>1 DEF Assemble
  <2>2. CASE Enqueue(s)
    BY <1>1, <2>2 DEF Enqueue, Entry
  <2>3. CASE BackoffElapses(s)
    BY <1>1, <2>3 DEF BackoffElapses, Entry
  <2>4. CASE PartsDrift(s)
    BY <2>4 DEF PartsDrift
  <2> QED BY <2>1, <2>2, <2>3, <2>4
<1>4. Sole'
  BY <1>1, <1>2, <1>3 DEF SInv, Named, AloneInv, Sole, Busy, At
<1>5. SentByName'
  BY <1>2, <1>3 DEF AloneInv, SentByName, In, StoredAs, QueueOnly, cvars
<1>6. \A t \in Submissions : Holds(t)' <=> Holds(t)
  BY <1>1 DEF Holds, Busy
<1>7. entry[s].place # "pending" => ~ Holds(s)
  BY DEF AloneInv, Sole, Holds
<1>8. Counted'
  BY <1>1, <1>2, <1>3, <1>6, <1>7 DEF AloneInv, Counted, Waits
<1> QED BY <1>4, <1>5, <1>8 DEF AloneInv

\* An answer counts the attempt, or ends it.
LEMMA AnswerAlone ==
  ASSUME OneFlusher, SInv, AloneInv, NEW f \in Flushers, Answer(f)
  PROVE  AloneInv'
<1>0. flusher[f].state \in State /\ flusher[f].state.attempts \in Nat
  BY DEF SInv, STypeInv, Flusher, State
<1>1. PICK state \in State, target \in {"pending", "sent", "dead"} :
        /\ Answered(f, state, target) /\ UNCHANGED <<cvars, origin>>
        /\ flusher[f].state.attempts <= state.attempts
        /\ target = "pending" => /\ state.attempts = flusher[f].state.attempts + 1
                                /\ state.attempts < MaxAttempts
  <2>1. CASE HearsAccepted(f)
    <3>1. /\ request[f] \in Ids /\ UNCHANGED <<cvars, origin>>
          /\ Answered(f, Accepted(flusher[f].state, request[f]), "sent")
      BY <2>1 DEF HearsAccepted, Hears, Accept
    <3> QED BY <1>0, <3>1, NewStates
  <2>2. CASE HearsRefused(f)
    <3>1. /\ Answered(f, Rejected(flusher[f].state), "dead") /\ UNCHANGED <<cvars, origin>>
      BY <2>2 DEF HearsRefused, Hears, Refuse
    <3> QED BY <1>0, <3>1, NewStates
  <2>3. CASE HearsNothing(f)
    <3> DEFINE state == Failed(flusher[f].state)
               target == IF Exhausted(state) THEN "dead" ELSE "pending"
    <3>1. Answered(f, state, target) /\ UNCHANGED <<cvars, origin>>
      BY <2>3 DEF HearsNothing, Hears, Fail
    <3>2. state \in State /\ state.attempts = flusher[f].state.attempts + 1
      BY <1>0, FailedState
    <3>3. ~ Exhausted(state) => state.attempts < MaxAttempts
      BY <1>0, <3>2, QueueConstants DEF Exhausted
    <3> HIDE DEF state
    <3> QED BY <1>0, <3>1, <3>2, <3>3
  <2> QED BY <2>1, <2>2, <2>3 DEF Answer
<1> DEFINE q == [flusher[f] EXCEPT !.pc = "writing", !.state = state, !.target = target]
<1>2. /\ At(f, "sending") /\ flusher' = [flusher EXCEPT ![f] = q]
      /\ UNCHANGED <<entry, posts, crashes>>
  BY <1>1 DEF Answered
<1>3. q.pc = "writing" /\ q.id = flusher[f].id /\ q.state = state /\ q.target = target
  BY DEF SInv, STypeInv, Flusher
<1>4. flusher'[f] = q
  BY <1>2 DEF SInv, STypeInv
<1> HIDE DEF q
<1>5. entry[flusher[f].id].attempts \in Nat /\ state.attempts \in Nat
  BY <1>2 DEF SInv, STypeInv, Named, Busy, At, Entry, State
<1>6. Sole'
  BY <1>0, <1>1, <1>2, <1>3, <1>4, <1>5 DEF OneFlusher, AloneInv, Sole, Busy, At
<1>7. SentByName'
  BY <1>1, <1>2 DEF AloneInv, SentByName, In, StoredAs, cvars
<1>8. \A t \in Submissions : Holds(t)' <=> Holds(t)
  BY <1>2, <1>3, <1>4 DEF OneFlusher, Holds, Busy, At
<1>9. Counted'
  BY <1>2, <1>8 DEF AloneInv, Counted, Waits
<1> QED BY <1>6, <1>7, <1>9 DEF AloneInv

LEMMA CollectorAlone ==
  ASSUME CInv, SInv, AloneInv,
         SCollectorStep \/ \E f \in Flushers, d \in Ids : Arrive(f, d)
  PROVE  AloneInv'
<1>1. UNCHANGED <<entry, flusher, posts, crashes>>
  BY DEF SCollectorStep, Arrive, qvars
<1>2. (Sole /\ Counted)'
  BY <1>1 DEF AloneInv, Sole, Busy, At, Counted, Waits, Holds
<1>3. SentByName'
  <2> SUFFICES ASSUME NEW s \in Submissions, entry[s].place = "sent"
               PROVE  StoredAs(s, entry[s].collector_id)'
    BY <1>1 DEF SentByName, In
  <2>1. StoredAs(s, entry[s].collector_id)
    BY DEF AloneInv, SentByName, In
  <2>2. entry[s].collector_id \in Ids
    BY <2>1 DEF StoredAs
  <2> QED BY <1>1, <2>1, <2>2, StoredStays DEF StoredAs
<1> QED BY <1>2, <1>3 DEF AloneInv

LEMMA AloneStep == OneFlusher /\ CInv /\ SInv /\ AloneInv /\ [SNext]_svars => AloneInv'
<1> SUFFICES ASSUME OneFlusher, CInv, SInv, AloneInv, [SNext]_svars PROVE AloneInv'
  OBVIOUS
<1>1. CASE SQueueStep
  BY <1>1, EnvironmentAlone, FlusherStepAlone DEF SQueueStep, QueueOnly, QueueStep
<1>2. CASE SCollectorStep \/ \E f \in Flushers, c \in Ids : Arrive(f, c)
  BY <1>2, CollectorAlone
<1>3. ASSUME NEW f \in Flushers, Answer(f) PROVE AloneInv'
  BY <1>3, AnswerAlone
<1>4. CASE UNCHANGED svars
  BY <1>4 DEF svars, qvars, cvars, AloneInv, Sole, SentByName, Counted, Waits, Holds,
              Busy, In, At, StoredAs
<1> QED BY <1>1, <1>2, <1>3, <1>4 DEF SNext

LEMMA AloneInit == SInit => AloneInv
<1> SUFFICES ASSUME SInit PROVE AloneInv
  OBVIOUS
<1>1. \A s \in Submissions :
        entry[s].place = "none" /\ entry[s].attempts = 0 /\ posts[s] = 0
  BY FreshIsState, EntryWithState DEF SInit, QInit, Places, Fresh
<1>2. crashes = 0 /\ \A f \in Flushers : flusher[f].pc = "idle"
  BY IdleFacts DEF SInit, QInit
<1>3. Sole /\ SentByName
  BY <1>1, <1>2 DEF Sole, SentByName, Busy, In, At
<1>4. \A s \in Submissions : ~ Holds(s)
  BY <1>2 DEF Holds, Busy
<1>5. Counted
  BY <1>1, <1>2, <1>4, QueueConstants DEF Counted
<1> QED BY <1>3, <1>5 DEF AloneInv

\* What holds besides if one flushes at a time.
THEOREM AloneInvariant ==
  ASSUME OneFlusher
  PROVE  SSpec => [](CInv /\ SInv /\ AloneInv)
<1>1. CInv /\ SInv /\ AloneInv /\ [SNext]_svars => AloneInv'
  BY AloneStep
<1> QED BY <1>1, AloneInit, SubmissionInvariant, PTL DEF SSpec

\* If one flushes at a time, an entry in sent/ names the id under which the
\* collector holds that very submission, through lost requests and answers,
\* retries and crashes of either side (queue.rs, attempt_pending, move_entry).
THEOREM SentNamesItsCopy ==
  ASSUME OneFlusher
  PROVE  SSpec => []SentIsStored
<1>1. CInv /\ SInv /\ AloneInv => SentIsStored
  BY DEF CInv, Whole, SInv, AloneInv, SentByName, StoredAs, SentIsStored
<1> QED BY <1>1, AloneInvariant, PTL

\* ... and no entry is sent more often than max_attempts, but once for each
\* crash or failed write (queue.rs, attempt_pending, write_state).
THEOREM AttemptsAreBounded ==
  ASSUME OneFlusher
  PROVE  SSpec => []RetriesAreBounded
<1>1. AloneInv => RetriesAreBounded
  BY DEF AloneInv, Counted, RetriesAreBounded
<1> QED BY <1>1, AloneInvariant, PTL

\* Only a rename takes an entry out of pending/.
LEMMA EntryLeaves ==
  ASSUME SInv, AloneInv, [SNext]_svars, NEW s \in Submissions,
         entry[s].place = "pending", entry'[s].place # "pending"
  PROVE  \E f \in Flushers : Move(f) /\ flusher[f].id = s
<1>0. entry \in [Submissions -> Entry]
  BY DEF SInv, STypeInv
<1>1. CASE SQueueStep
  <2>1. ASSUME NEW t \in Submissions,
               Assemble(t) \/ Enqueue(t) \/ BackoffElapses(t) \/ PartsDrift(t)
        PROVE  FALSE
    BY <1>0, <2>1 DEF Assemble, Enqueue, BackoffElapses, PartsDrift, Entry
  <2>2. ASSUME NEW f \in Flushers,
               \/ StartPass(f) \/ ClearTarget(f) \/ FlusherCrashes(f)
               \/ \E t \in Submissions : Defer(f, t) \/ Send(f, t) \/ LoadFails(f, t)
        PROVE  FALSE
    <3>1. CASE ClearTarget(f)
      <4>1. flusher[f].target # "pending" /\ flusher[f].id \in Submissions
        BY <3>1 DEF SInv, Named, Busy, Decided, ClearTarget, At
      <4> QED BY <1>0, <3>1, <4>1 DEF ClearTarget, AloneInv, Sole, Busy, At
    <3> QED BY <2>2, <3>1 DEF StartPass, FlusherCrashes, Defer, Send, LoadFails
  <2>3. ASSUME NEW f \in Flushers, WriteState(f) PROVE FALSE
    <3>1. flusher[f].state \in State
      BY DEF SInv, STypeInv, Flusher
    <3>2. EntryWith("pending", flusher[f].state).place = "pending"
      BY <3>1, EntryWithState DEF Places
    <3> QED BY <1>0, <2>3, <3>2 DEF WriteState
  <2>4. ASSUME NEW f \in Flushers, Move(f) PROVE flusher[f].id = s
    BY <1>0, <2>4 DEF Move
  <2> QED BY <1>1, <2>1, <2>2, <2>3, <2>4 DEF SQueueStep, QueueStep, FlusherStep
<1>2. CASE ~ SQueueStep
  <2>1. UNCHANGED entry
    BY <1>2 DEF SNext, SCollectorStep, Arrive, Answer, HearsAccepted, HearsRefused,
                HearsNothing, Hears, Accept, Refuse, Fail, Answered, qvars, svars
  <2> QED BY <2>1
<1> QED BY <1>1, <1>2

\* ... and nothing leaves pending/ but with what the collector said: its id, or
\* the reason of the rejection (queue.rs, move_entry).
THEOREM LeavesResolved ==
  ASSUME OneFlusher
  PROVE  SSpec => NothingLeavesUnresolved
<1> DEFINE Resolved ==
      \A s \in In("pending") :
        \/ entry'[s].place = "pending"
        \/ entry'[s].place = "sent" /\ entry'[s].collector_id # NoCollectorId
        \/ entry'[s].place = "dead" /\ entry'[s].rejected
<1>1. ASSUME SInv, AloneInv, [SNext]_svars PROVE Resolved
  <2> SUFFICES ASSUME NEW s \in Submissions, entry[s].place = "pending",
                      entry'[s].place # "pending"
               PROVE  \/ entry'[s].place = "sent" /\ entry'[s].collector_id # NoCollectorId
                      \/ entry'[s].place = "dead" /\ entry'[s].rejected
    BY DEF In
  <2>1. PICK f \in Flushers : Move(f) /\ flusher[f].id = s
    BY <1>1, EntryLeaves
  <2> DEFINE e == [entry[s] EXCEPT !.place = flusher[f].target]
  <2>2. entry' = [entry EXCEPT ![s] = e] /\ flusher[f].pc = "moving"
    BY <2>1 DEF Move, At
  <2>3. /\ e.place = flusher[f].target /\ e.collector_id = entry[s].collector_id
        /\ e.rejected = entry[s].rejected /\ entry'[s] = e
    BY <1>1, <2>2 DEF SInv, STypeInv, Entry
  <2> HIDE DEF e
  <2>4. /\ flusher[f].target = "sent" => StoredAs(s, entry[s].collector_id)
        /\ flusher[f].target = "dead" => entry[s].rejected
        /\ flusher[f].target \in {"sent", "dead"}
    BY <1>1, <2>1, <2>2 DEF SInv, STypeInv, Flusher, Decided, AloneInv, Sole, At
  <2> QED BY <2>3, <2>4, NoneIsNoId DEF StoredAs
<1>2. CInv /\ SInv /\ AloneInv /\ [SNext]_svars => [Resolved]_svars
  BY <1>1
<1> QED BY <1>2, AloneInvariant, PTL DEF SSpec, NothingLeavesUnresolved

-----------------------------------------------------------------------------
(* The recorder.                                                           *)


\* What bestFix may be.
Acceptable == {s \in Sigmas : s <= HardSigma} \cup {NoFix}

Given == SUBSET Sigmas
Point == {"none", "called", "entered", "writing", "closing", "reporting",
          "listing", "done"}
Call == [pc : Point, fix : Acceptable, dir : Nat, offered : Given]
LogEntry == [fix : Acceptable, offered : Given]

\* A call of finalize holds what bestFix was; the log holds what a call held.
NothingRed ==
  /\ bestFix \in Acceptable
  /\ fin \in [Finalizers -> Call]
  /\ entries \in [Captures -> LogEntry \cup {NoEntry}]

\* Before the first start there is nothing a finalize could enter for.
NothingBeforeStart ==
  /\ captureId \in 0 .. MaxCaptures
  /\ captureId = 0 =>
       /\ main = "idle" /\ captureJob = None
       /\ \A f \in Finalizers : fin[f].pc # "entered"

GivenTyped == seen \in [Captures -> Given]

RecorderInv == NothingRed /\ NothingBeforeStart /\ GivenTyped

-----------------------------------------------------------------------------
LEMMA NothingGiven == {} \in Given
  BY DEF Given

LEMMA RecorderInit == RInit => RecorderInv
<1> SUFFICES ASSUME RInit PROVE RecorderInv
  OBVIOUS
<1> USE RecorderConstants, NothingGiven DEF RInit, None
<1>1. Uncalled \in Call
  BY DEF Call, Uncalled, Acceptable, Point
<1>2. NothingRed
  BY <1>1 DEF NothingRed, Acceptable
<1>3. NothingBeforeStart
  BY DEF NothingBeforeStart, Uncalled
<1>4. GivenTyped
  BY DEF GivenTyped
<1> QED BY <1>2, <1>3, <1>4 DEF RecorderInv

\* The actions of the main thread and of a capture's job.
LEMMA TapsKeepRecorderInv ==
  ASSUME RecorderInv, Start \/ Launch \/ \E f \in Finalizers : TapStop(f)
  PROVE  RecorderInv'
<1> USE RecorderConstants, NothingGiven DEF RecorderInv, NothingRed, NothingBeforeStart,
        GivenTyped, Acceptable, Call, Point, disk, fields, None
<1>1. CASE Start
  BY <1>1 DEF Start, Unset
<1>2. CASE Launch
  BY <1>2 DEF Launch
<1>3. CASE \E f \in Finalizers : TapStop(f)
  BY <1>3 DEF TapStop, Called
<1> QED BY <1>1, <1>2, <1>3

LEMMA JobKeepsRecorderInv ==
  ASSUME RecorderInv, NEW c \in Captures,
         Expire(c) \/ Show(c) \/ \E sigma \in Sigmas : Hear(c, sigma)
  PROVE  RecorderInv'
<1> USE RecorderConstants, NothingGiven DEF RecorderInv, NothingRed, NothingBeforeStart,
        GivenTyped, Acceptable, Call, Point, disk, fields, None
<1>1. CASE Expire(c)
  BY <1>1 DEF Expire, Called, Finalizers, Watchdogs
<1>2. CASE Show(c)
  BY <1>2 DEF Show
<1>3. ASSUME NEW sigma \in Sigmas, Hear(c, sigma) PROVE RecorderInv'
  <2>1. seen[c] \cup {sigma} \in Given
    BY DEF Given
  <2> QED BY <1>3, <2>1 DEF Hear
<1> QED BY <1>1, <1>2, <1>3

\* finalize: what Take copies is all that WriteEntry writes.
LEMMA FinalizeKeepsRecorderInv ==
  ASSUME RecorderInv, NEW f \in Finalizers, FinalizeStep(f)
  PROVE  RecorderInv'
<1> USE RecorderConstants, NothingGiven DEF RecorderInv, NothingRed, NothingBeforeStart,
        GivenTyped, Acceptable, Call, Point, LogEntry, disk, fields, None, Leaves,
        Finished, Uncalled
<1>1. CASE Enter(f)
  BY <1>1 DEF Enter, Active
<1>2. CASE Take(f)
  <2>1. captureId \in Captures
    BY <1>2 DEF Take, Captures
  <2>2. seen[captureId] \in Given
    BY <2>1
  <2>3. [fin[f] EXCEPT !.pc = "writing", !.fix = bestFix,
                       !.offered = seen[captureId]] \in Call
    BY <2>2
  <2> QED BY <1>2, <2>3 DEF Take
<1>3. CASE WriteEntry(f)
  <2>1. [fix |-> fin[f].fix, offered |-> fin[f].offered] \in LogEntry
    OBVIOUS
  <2>2. entries' \in [Captures -> LogEntry \cup {NoEntry}]
    BY <1>3, <2>1 DEF WriteEntry
  <2>3. captureId \in Nat
    OBVIOUS
  <2>4. fin' \in [Finalizers -> Call]
    BY <1>3, <2>3 DEF WriteEntry
  <2> QED BY <1>3, <2>2, <2>4 DEF WriteEntry
<1>4. CASE WriteBundle(f)
  BY <1>4 DEF WriteBundle
<1>5. CASE Report(f)
  BY <1>5 DEF Report
<1>6. CASE ListCapture(f)
  BY <1>6 DEF ListCapture
<1>7. CASE Throws(f)
  BY <1>7 DEF Throws
<1> QED BY <1>1, <1>2, <1>3, <1>4, <1>5, <1>6, <1>7 DEF FinalizeStep

LEMMA CleanupKeepsRecorderInv ==
  ASSUME RecorderInv, NEW f \in Finalizers, CleanupStep(f)
  PROVE  RecorderInv'
<1> USE DEF RecorderInv, NothingRed, NothingBeforeStart, GivenTyped, disk,
        fields, None
<1>1. CASE Cancel(f)
  BY <1>1 DEF Cancel
<1>2. CASE Forget(f)
  BY <1>2 DEF Forget
<1> QED BY <1>1, <1>2 DEF CleanupStep

LEMMA RecorderStep == RecorderInv /\ [RNext]_rvars => RecorderInv'
<1> SUFFICES ASSUME RecorderInv, [RNext]_rvars PROVE RecorderInv'
  OBVIOUS
<1>1. CASE UNCHANGED rvars
  BY <1>1 DEF rvars, fields, disk, RecorderInv, NothingRed,
              NothingBeforeStart, GivenTyped
<1>2. CASE RNext
  BY <1>2, TapsKeepRecorderInv, JobKeepsRecorderInv, FinalizeKeepsRecorderInv,
     CleanupKeepsRecorderInv DEF RNext
<1> QED BY <1>1, <1>2

\* CaptureRecorder.kt:21-23: a red fix is never accepted, not at the timeout
\* and not by a finalize that overlaps another capture.
THEOREM NoRedFixIsSaved == RSpec => []RedIsNeverSaved
<1>1. RecorderInv => RedIsNeverSaved
  BY DEF RecorderInv, NothingRed, RedIsNeverSaved, LogEntry, Acceptable
<1> QED BY RecorderInit, RecorderStep, <1>1, PTL DEF RSpec

-----------------------------------------------------------------------------
(* The history, as far as it is calm: of a capture at most one finalize is   *)
(* at work, and none while another capture starts.                          *)

Inside == {"entered", "writing", "closing", "reporting", "listing"}

\* A finalize at work: from its entry until its cleanup has joined the job.
AtWork(f) == fin[f].pc \in Inside \/ cleanup[f].pc \in {"launched", "joining"}

\* The steps of each coroutine come in order, and a job comes with its capture.
Orderly ==
  /\ cleanup \in [Finalizers -> [pc : {"none", "launched", "joining", "done"},
                                 job : 0 .. MaxCaptures]]
  /\ \A f \in Finalizers : fin[f].pc # "done" => cleanup[f].pc = "none"
  /\ job \in [Captures -> {"none", "active", "cancelled"}]
  /\ collector \in [Captures -> {"idle", "showing"}]
  /\ main \in {"idle", "launching"}
  /\ captureJob \in 0 .. captureId
  /\ main = "launching" =>
       captureId # None /\ captureJob < captureId /\ job[captureId] = "none"
  /\ \A c \in Captures : c > captureId => job[c] = "none"
  /\ \A c \in Captures : job[c] = "none" => seen[c] = {} /\ collector[c] = "idle"

OneAtWork == \A f, g \in Finalizers : AtWork(f) /\ AtWork(g) => f = g

\* Only the capture of this moment has a job, and only it may still be shown.
OneCapture ==
  /\ \A c \in Captures : job[c] = "active" => c = captureId /\ c = captureJob
  /\ \A c \in Captures : collector[c] = "showing" =>
       /\ c = captureId
       /\ job[c] = "active" \/ \E f \in Finalizers : cleanup[f].pc = "joining"
  /\ main = "launching" =>
       /\ status.is = "Capturing"
       /\ \A f \in Finalizers : fin[f].pc # "called" /\ ~ AtWork(f)

\* A finalize at work works for it.
WorkIsForIt ==
  \A f \in Finalizers :
    /\ fin[f].pc \in Inside \/ cleanup[f].pc = "launched" =>
         captureId # None /\ job[captureId] = "active"
    /\ cleanup[f].pc = "joining" =>
         /\ captureId # None /\ cleanup[f].job = captureId
         /\ job[captureId] = "cancelled"

Unbundled ==
  \A f \in Finalizers :
    fin[f].pc \notin {"reporting", "listing"} /\ cleanup[f].pc # "launched"

\* Its writer is open until a finalize has closed it.
WriterIsOpen ==
  captureId # None /\ (main = "launching" \/ (job[captureId] = "active" /\ Unbundled))
    => frameWriter # None

HasEntry(c) == entries[c] # NoEntry /\ IsBest(entries[c].fix, entries[c].offered)

BestIsItsOwn == captureId # None => IsBest(bestFix, seen[captureId])

\* What each finalize at work has done by now.
WorkDone ==
  \A f \in Finalizers :
    /\ fin[f].pc = "writing" => IsBest(fin[f].fix, fin[f].offered)
    /\ fin[f].pc \in {"closing", "reporting", "listing"} =>
         fin[f].dir = captureId /\ HasEntry(captureId)
    /\ fin[f].pc \in {"reporting", "listing"} => captureId \in bundles

SavedIsWhole ==
  status.is = "Saved" =>
    /\ captureId # None /\ status.of = captureId
    /\ HasEntry(captureId) /\ captureId \in bundles
    /\ captureId \in listed \/ \E f \in Finalizers : fin[f].pc = "listing"

CalmInv ==
  /\ OneAtWork /\ OneCapture /\ WorkIsForIt /\ WriterIsOpen
  /\ BestIsItsOwn /\ WorkDone /\ SavedIsWhole

CaptureInv == Orderly /\ (calm => CalmInv)

\* What a finalize writes is something.
LEMMA CallsAreNoBlanks ==
  ASSUME RecorderInv, NEW f \in Finalizers
  PROVE  [fix |-> fin[f].fix, offered |-> fin[f].offered] # NoEntry
BY RecorderConstants DEF RecorderInv, NothingRed, Call, Acceptable, Given

\* The steps of the main thread, of a capture's job and of finalize, one by
\* one: the order of each coroutine, and then what is true while it is calm.
LEMMA LaunchKeepsCaptureInv ==
  ASSUME RecorderInv, RecorderInv', CaptureInv, Launch
  PROVE  CaptureInv'
<1>1. /\ main = "launching" /\ main' = "idle" /\ captureJob' = captureId
      /\ job' = [job EXCEPT ![captureId] = "active"]
      /\ UNCHANGED <<status, captureId, bestFix, frameWriter, collector, fin,
                     cleanup, entries, bundles, listed, seen, calm>>
      /\ captureId \in Captures
  BY DEF Launch, disk, Captures, None, RecorderInv, NothingRed, NothingBeforeStart, Call, CaptureInv, Orderly
<1>2. Orderly'
  BY <1>1 DEF CaptureInv, Orderly, RecorderInv, NothingBeforeStart, GivenTyped
<1>3. ASSUME calm' PROVE CalmInv'
  <2>1. calm /\ Orderly /\ CalmInv
    BY <1>1, <1>3 DEF CaptureInv
  <2>2. OneAtWork'
    BY <1>1, <2>1 DEF CalmInv, OneAtWork, AtWork, Inside
  <2>3. OneCapture'
    BY <1>1, <2>1 DEF CalmInv, OneCapture, AtWork, Inside
  <2>4. WorkIsForIt'
    BY <1>1, <2>1 DEF CalmInv, WorkIsForIt, OneCapture, AtWork, Inside
  <2>5. WriterIsOpen'
    BY <1>1, <2>1 DEF CalmInv, WriterIsOpen, Unbundled
  <2>6. BestIsItsOwn'
    BY <1>1, <2>1 DEF CalmInv, BestIsItsOwn
  <2>7. WorkDone'
    BY <1>1, <2>1 DEF CalmInv, WorkDone, HasEntry
  <2>8. SavedIsWhole'
    BY <1>1, <2>1 DEF CalmInv, SavedIsWhole, HasEntry
  <2>9. QED
    BY <2>2, <2>3, <2>4, <2>5, <2>6, <2>7, <2>8 DEF CalmInv
<1>4. QED
  BY <1>2, <1>3 DEF CaptureInv

LEMMA TapStopKeepsCaptureInv ==
  ASSUME RecorderInv, RecorderInv', CaptureInv, NEW f \in Finalizers, TapStop(f)
  PROVE  CaptureInv'
<1>1. /\ main = "idle" /\ fin[f].pc = "none" /\ fin'[f].pc = "called"
      /\ \A g \in Finalizers : g # f => fin'[g] = fin[g]
      /\ UNCHANGED <<status, main, captureId, captureJob, bestFix, frameWriter,
                     job, collector, cleanup, entries, bundles, listed, seen, calm>>
  BY DEF TapStop, Called, fields, disk, RecorderInv, NothingRed, NothingBeforeStart, Call, CaptureInv, Orderly
<1>2. Orderly'
  BY <1>1 DEF CaptureInv, Orderly, RecorderInv, NothingBeforeStart, GivenTyped
<1>3. ASSUME calm' PROVE CalmInv'
  <2>1. calm /\ Orderly /\ CalmInv
    BY <1>1, <1>3 DEF CaptureInv
  <2>2. OneAtWork'
    BY <1>1, <2>1 DEF CalmInv, OneAtWork, AtWork, Inside
  <2>3. OneCapture'
    BY <1>1, <2>1 DEF CalmInv, OneCapture, AtWork, Inside
  <2>4. WorkIsForIt'
    BY <1>1, <2>1 DEF CalmInv, WorkIsForIt, Inside
  <2>5. WriterIsOpen'
    BY <1>1, <2>1 DEF CalmInv, WriterIsOpen, Unbundled
  <2>6. BestIsItsOwn'
    BY <1>1, <2>1 DEF CalmInv, BestIsItsOwn
  <2>7. WorkDone'
    BY <1>1, <2>1 DEF CalmInv, WorkDone, HasEntry
  <2>8. SavedIsWhole'
    BY <1>1, <2>1 DEF CalmInv, SavedIsWhole, HasEntry
  <2>9. QED
    BY <2>2, <2>3, <2>4, <2>5, <2>6, <2>7, <2>8 DEF CalmInv
<1>4. QED
  BY <1>2, <1>3 DEF CaptureInv

LEMMA ExpireKeepsCaptureInv ==
  ASSUME RecorderInv, RecorderInv', CaptureInv, NEW c \in Captures, Expire(c)
  PROVE  CaptureInv'
<1>1. /\ job[c] = "active" /\ <<"watchdog", c>> \in Finalizers
      /\ fin[<<"watchdog", c>>].pc = "none" /\ fin'[<<"watchdog", c>>].pc = "called"
      /\ \A g \in Finalizers : g # <<"watchdog", c>> => fin'[g] = fin[g]
      /\ UNCHANGED <<status, main, captureId, captureJob, bestFix, frameWriter,
                     job, collector, cleanup, entries, bundles, listed, seen, calm>>
  BY DEF Expire, Called, Active, Finalizers, Watchdogs, fields, disk, RecorderInv, NothingRed, NothingBeforeStart, Call, CaptureInv, Orderly
<1>2. Orderly'
  BY <1>1 DEF CaptureInv, Orderly, RecorderInv, NothingBeforeStart, GivenTyped
<1>3. ASSUME calm' PROVE CalmInv'
  <2>1. calm /\ Orderly /\ CalmInv
    BY <1>1, <1>3 DEF CaptureInv
  <2>2. OneAtWork'
    BY <1>1, <2>1 DEF CalmInv, OneAtWork, AtWork, Inside
  <2>3. OneCapture'
    BY <1>1, <2>1 DEF CalmInv, OneCapture, AtWork, Inside, Orderly
  <2>4. WorkIsForIt'
    BY <1>1, <2>1 DEF CalmInv, WorkIsForIt, Inside
  <2>5. WriterIsOpen'
    BY <1>1, <2>1 DEF CalmInv, WriterIsOpen, Unbundled
  <2>6. BestIsItsOwn'
    BY <1>1, <2>1 DEF CalmInv, BestIsItsOwn
  <2>7. WorkDone'
    BY <1>1, <2>1 DEF CalmInv, WorkDone, HasEntry
  <2>8. SavedIsWhole'
    BY <1>1, <2>1 DEF CalmInv, SavedIsWhole, HasEntry
  <2>9. QED
    BY <2>2, <2>3, <2>4, <2>5, <2>6, <2>7, <2>8 DEF CalmInv
<1>4. QED
  BY <1>2, <1>3 DEF CaptureInv

LEMMA ShowKeepsCaptureInv ==
  ASSUME RecorderInv, RecorderInv', CaptureInv, NEW c \in Captures, Show(c)
  PROVE  CaptureInv'
<1>1. /\ collector[c] = "showing" /\ collector' = [collector EXCEPT ![c] = "idle"]
      /\ status'.is = "Capturing"
      /\ UNCHANGED <<main, captureId, captureJob, bestFix, frameWriter, job, fin,
                     cleanup, entries, bundles, listed, seen, calm>>
  BY DEF Show, Is, fields, disk, RecorderInv, NothingRed, NothingBeforeStart, Call, CaptureInv, Orderly
<1>2. Orderly'
  BY <1>1 DEF CaptureInv, Orderly, RecorderInv, NothingBeforeStart, GivenTyped
<1>3. ASSUME calm' PROVE CalmInv'
  <2>1. calm /\ Orderly /\ CalmInv
    BY <1>1, <1>3 DEF CaptureInv
  <2>2. OneAtWork'
    BY <1>1, <2>1 DEF CalmInv, OneAtWork, AtWork, Inside
  <2>3. OneCapture'
    BY <1>1, <2>1 DEF CalmInv, OneCapture, AtWork, Inside
  <2>4. WorkIsForIt'
    BY <1>1, <2>1 DEF CalmInv, WorkIsForIt, Inside
  <2>5. WriterIsOpen'
    BY <1>1, <2>1 DEF CalmInv, WriterIsOpen, Unbundled
  <2>6. BestIsItsOwn'
    BY <1>1, <2>1 DEF CalmInv, BestIsItsOwn
  <2>7. WorkDone'
    BY <1>1, <2>1 DEF CalmInv, WorkDone, HasEntry
  <2>8. SavedIsWhole'
    BY <1>1, <2>1 DEF CalmInv, SavedIsWhole, HasEntry
  <2>9. QED
    BY <2>2, <2>3, <2>4, <2>5, <2>6, <2>7, <2>8 DEF CalmInv
<1>4. QED
  BY <1>2, <1>3 DEF CaptureInv

LEMMA EnterKeepsCaptureInv ==
  ASSUME RecorderInv, RecorderInv', CaptureInv, NEW f \in Finalizers, Enter(f)
  PROVE  CaptureInv'
<1>1. /\ fin[f].pc = "called"
      /\ fin'[f].pc = IF Active(captureJob) THEN "entered" ELSE "done"
      /\ \A g \in Finalizers : g # f => fin'[g] = fin[g]
      /\ calm' = (calm /\ Alone(f))
      /\ UNCHANGED <<status, main, captureId, captureJob, bestFix, frameWriter,
                     job, collector, cleanup, entries, bundles, listed, seen>>
  BY DEF Enter, fields, disk, RecorderInv, NothingRed, NothingBeforeStart, Call, CaptureInv, Orderly
<1>2. Orderly'
  BY <1>1 DEF CaptureInv, Orderly, RecorderInv, NothingBeforeStart, GivenTyped
<1>3. ASSUME calm' PROVE CalmInv'
  <2>1. calm /\ Orderly /\ CalmInv
    BY <1>1, <1>3 DEF CaptureInv
  <2>2. OneAtWork'
    <3>1. \A g \in Finalizers : g # f => ~ AtWork(g)'
      BY <1>1, <1>3 DEF Alone, AtWork, Inside
    <3>2. QED
      BY <3>1 DEF OneAtWork
  <2>3. OneCapture'
    BY <1>1, <2>1 DEF CalmInv, OneCapture, AtWork, Inside
  <2>4. WorkIsForIt'
    <3>1. Active(captureJob) => captureId # None /\ job[captureId] = "active"
      BY <1>1, <2>1, RecorderConstants DEF CalmInv, OneCapture, Active, Orderly, RecorderInv, NothingBeforeStart, Captures, None
    <3>2. QED
      BY <1>1, <2>1, <3>1 DEF CalmInv, WorkIsForIt, Inside
  <2>5. WriterIsOpen'
    BY <1>1, <2>1 DEF CalmInv, WriterIsOpen, Unbundled
  <2>6. BestIsItsOwn'
    BY <1>1, <2>1 DEF CalmInv, BestIsItsOwn
  <2>7. WorkDone'
    BY <1>1, <2>1 DEF CalmInv, WorkDone, HasEntry
  <2>8. SavedIsWhole'
    BY <1>1, <2>1 DEF CalmInv, SavedIsWhole, HasEntry
  <2>9. QED
    BY <2>2, <2>3, <2>4, <2>5, <2>6, <2>7, <2>8 DEF CalmInv
<1>4. QED
  BY <1>2, <1>3 DEF CaptureInv

LEMMA TakeKeepsCaptureInv ==
  ASSUME RecorderInv, RecorderInv', CaptureInv, NEW f \in Finalizers, Take(f)
  PROVE  CaptureInv'
<1>1. /\ fin[f].pc = "entered" /\ fin'[f].pc = "writing"
      /\ fin'[f].fix = bestFix /\ fin'[f].offered = seen[captureId]
      /\ \A g \in Finalizers : g # f => fin'[g] = fin[g]
      /\ status'.is = "Saving"
      /\ UNCHANGED <<main, captureId, captureJob, bestFix, frameWriter,
                     job, collector, cleanup, entries, bundles, listed, seen, calm>>
  BY DEF Take, Is, fields, disk, RecorderInv, NothingRed, NothingBeforeStart, Call, CaptureInv, Orderly
<1>2. Orderly'
  BY <1>1 DEF CaptureInv, Orderly, RecorderInv, NothingBeforeStart, GivenTyped
<1>3. ASSUME calm' PROVE CalmInv'
  <2>1. calm /\ Orderly /\ CalmInv
    BY <1>1, <1>3 DEF CaptureInv
  <2>2. OneAtWork'
    BY <1>1, <2>1 DEF CalmInv, OneAtWork, AtWork, Inside
  <2>3. OneCapture'
    BY <1>1, <2>1 DEF CalmInv, OneCapture, AtWork, Inside
  <2>4. WorkIsForIt'
    BY <1>1, <2>1 DEF CalmInv, WorkIsForIt, Inside
  <2>5. WriterIsOpen'
    BY <1>1, <2>1 DEF CalmInv, WriterIsOpen, Unbundled
  <2>6. BestIsItsOwn'
    BY <1>1, <2>1 DEF CalmInv, BestIsItsOwn
  <2>7. WorkDone'
    BY <1>1, <2>1 DEF CalmInv, WorkDone, WorkIsForIt, BestIsItsOwn, HasEntry, Inside
  <2>8. SavedIsWhole'
    BY <1>1, <2>1 DEF CalmInv, SavedIsWhole, HasEntry
  <2>9. QED
    BY <2>2, <2>3, <2>4, <2>5, <2>6, <2>7, <2>8 DEF CalmInv
<1>4. QED
  BY <1>2, <1>3 DEF CaptureInv

LEMMA WriteEntryKeepsCaptureInv ==
  ASSUME RecorderInv, RecorderInv', CaptureInv, NEW f \in Finalizers, WriteEntry(f)
  PROVE  CaptureInv'
<1>1. /\ fin[f].pc = "writing" /\ fin'[f].pc = "closing" /\ fin'[f].dir = captureId
      /\ \A g \in Finalizers : g # f => fin'[g] = fin[g]
      /\ entries' = [entries EXCEPT ![captureId] =
                        [fix |-> fin[f].fix, offered |-> fin[f].offered]]
      /\ UNCHANGED <<status, main, captureId, captureJob, bestFix, frameWriter,
                     job, collector, cleanup, bundles, listed, seen, calm>>
  BY DEF WriteEntry, fields, RecorderInv, NothingRed, NothingBeforeStart, Call, CaptureInv, Orderly
<1>2. Orderly'
  BY <1>1 DEF CaptureInv, Orderly, RecorderInv, NothingBeforeStart, GivenTyped
<1>3. ASSUME calm' PROVE CalmInv'
  <2>1. calm /\ Orderly /\ CalmInv
    BY <1>1, <1>3 DEF CaptureInv
  <2>2. OneAtWork'
    BY <1>1, <2>1 DEF CalmInv, OneAtWork, AtWork, Inside
  <2>3. OneCapture'
    BY <1>1, <2>1 DEF CalmInv, OneCapture, AtWork, Inside
  <2>4. WorkIsForIt'
    BY <1>1, <2>1 DEF CalmInv, WorkIsForIt, Inside
  <2>5. WriterIsOpen'
    BY <1>1, <2>1 DEF CalmInv, WriterIsOpen, Unbundled
  <2>6. BestIsItsOwn'
    BY <1>1, <2>1 DEF CalmInv, BestIsItsOwn
  <2>7. WorkDone'
    <3>1. captureId \in Captures
      BY <1>1, <2>1 DEF CalmInv, WorkIsForIt, Inside, RecorderInv, NothingBeforeStart, None, Captures
    <3>2. HasEntry(captureId)'
      BY <1>1, <2>1, <3>1, CallsAreNoBlanks DEF RecorderInv, NothingRed, CalmInv, WorkDone, HasEntry
    <3>3. QED
      BY <1>1, <2>1, <3>2 DEF CalmInv, WorkDone, HasEntry
  <2>8. SavedIsWhole'
    <3>1. HasEntry(captureId)'
      BY <1>1, <2>7 DEF WorkDone
    <3>2. QED
      BY <1>1, <2>1, <3>1 DEF CalmInv, SavedIsWhole
  <2>9. QED
    BY <2>2, <2>3, <2>4, <2>5, <2>6, <2>7, <2>8 DEF CalmInv
<1>4. QED
  BY <1>2, <1>3 DEF CaptureInv

LEMMA WriteBundleKeepsCaptureInv ==
  ASSUME RecorderInv, RecorderInv', CaptureInv, NEW f \in Finalizers, WriteBundle(f)
  PROVE  CaptureInv'
<1>1. /\ fin[f].pc = "closing" /\ fin'[f] = [fin[f] EXCEPT !.pc = "reporting"]
      /\ fin'[f].pc = "reporting" /\ fin'[f].dir = fin[f].dir
      /\ \A g \in Finalizers : g # f => fin'[g] = fin[g]
      /\ bundles' = IF frameWriter = None THEN bundles ELSE bundles \cup {captureId}
      /\ UNCHANGED <<status, main, captureId, captureJob, bestFix,
                     job, collector, cleanup, entries, listed, seen, calm>>
  BY DEF WriteBundle, RecorderInv, NothingRed, NothingBeforeStart, Call, CaptureInv, Orderly
<1>2. Orderly'
  BY <1>1 DEF CaptureInv, Orderly, RecorderInv, NothingBeforeStart, GivenTyped
<1>3. ASSUME calm' PROVE CalmInv'
  <2>1. calm /\ Orderly /\ CalmInv
    BY <1>1, <1>3 DEF CaptureInv
  <2>2. OneAtWork'
    BY <1>1, <2>1 DEF CalmInv, OneAtWork, AtWork, Inside
  <2>3. OneCapture'
    BY <1>1, <2>1 DEF CalmInv, OneCapture, AtWork, Inside
  <2>4. WorkIsForIt'
    BY <1>1, <2>1 DEF CalmInv, WorkIsForIt, Inside
  <2>5. WriterIsOpen'
    BY <1>1, <2>1 DEF CalmInv, WriterIsOpen, Unbundled, OneCapture, AtWork, Inside
  <2>6. BestIsItsOwn'
    BY <1>1, <2>1 DEF CalmInv, BestIsItsOwn
  <2>7. WorkDone'
    <3>1. Unbundled
      BY <1>1, <2>1 DEF CalmInv, OneAtWork, AtWork, Inside, Unbundled, Orderly
    <3>2. frameWriter # None
      BY <1>1, <2>1, <3>1 DEF CalmInv, WriterIsOpen, WorkIsForIt, Inside
    <3>3. captureId \in bundles'
      BY <1>1, <3>2
    <3>4. QED
      BY <1>1, <2>1, <3>3 DEF CalmInv, WorkDone, HasEntry
  <2>8. SavedIsWhole'
    BY <1>1, <2>1 DEF CalmInv, SavedIsWhole, HasEntry
  <2>9. QED
    BY <2>2, <2>3, <2>4, <2>5, <2>6, <2>7, <2>8 DEF CalmInv
<1>4. QED
  BY <1>2, <1>3 DEF CaptureInv

LEMMA ReportKeepsCaptureInv ==
  ASSUME RecorderInv, RecorderInv', CaptureInv, NEW f \in Finalizers, Report(f)
  PROVE  CaptureInv'
<1>1. /\ fin[f].pc = "reporting" /\ fin'[f].pc = "listing" /\ fin'[f].dir = fin[f].dir
      /\ \A g \in Finalizers : g # f => fin'[g] = fin[g]
      /\ status'.is = "Saved" /\ status'.of = fin[f].dir
      /\ UNCHANGED <<main, captureId, captureJob, bestFix, frameWriter,
                     job, collector, cleanup, entries, bundles, listed, seen, calm>>
  BY DEF Report, Is, fields, disk, RecorderInv, NothingRed, NothingBeforeStart, Call, CaptureInv, Orderly
<1>2. Orderly'
  BY <1>1 DEF CaptureInv, Orderly, RecorderInv, NothingBeforeStart, GivenTyped
<1>3. ASSUME calm' PROVE CalmInv'
  <2>1. calm /\ Orderly /\ CalmInv
    BY <1>1, <1>3 DEF CaptureInv
  <2>2. OneAtWork'
    BY <1>1, <2>1 DEF CalmInv, OneAtWork, AtWork, Inside
  <2>3. OneCapture'
    BY <1>1, <2>1 DEF CalmInv, OneCapture, AtWork, Inside
  <2>4. WorkIsForIt'
    BY <1>1, <2>1 DEF CalmInv, WorkIsForIt, Inside
  <2>5. WriterIsOpen'
    BY <1>1, <2>1 DEF CalmInv, WriterIsOpen, Unbundled
  <2>6. BestIsItsOwn'
    BY <1>1, <2>1 DEF CalmInv, BestIsItsOwn
  <2>7. WorkDone'
    BY <1>1, <2>1 DEF CalmInv, WorkDone, HasEntry
  <2>8. SavedIsWhole'
    BY <1>1, <2>1 DEF CalmInv, SavedIsWhole, HasEntry, WorkDone, WorkIsForIt, Inside
  <2>9. QED
    BY <2>2, <2>3, <2>4, <2>5, <2>6, <2>7, <2>8 DEF CalmInv
<1>4. QED
  BY <1>2, <1>3 DEF CaptureInv

LEMMA ListCaptureKeepsCaptureInv ==
  ASSUME RecorderInv, RecorderInv', CaptureInv, NEW f \in Finalizers, ListCapture(f)
  PROVE  CaptureInv'
<1>1. /\ fin[f].pc = "listing" /\ fin'[f].pc = "done"
      /\ cleanup' = [cleanup EXCEPT ![f].pc = "launched"]
      /\ cleanup[f].pc = "none" /\ cleanup'[f].pc = "launched"
      /\ \A g \in Finalizers : g # f => cleanup'[g] = cleanup[g]
      /\ \A g \in Finalizers : g # f => fin'[g] = fin[g]
      /\ listed' = listed \cup {captureId}
      /\ UNCHANGED <<status, main, captureId, captureJob, bestFix, frameWriter,
                     job, collector, entries, bundles, seen, calm>>
  BY DEF ListCapture, Leaves, Finished, Uncalled, fields, RecorderInv, NothingRed, NothingBeforeStart, Call, CaptureInv, Orderly
<1>2. Orderly'
  BY <1>1 DEF CaptureInv, Orderly, RecorderInv, NothingBeforeStart, GivenTyped
<1>3. ASSUME calm' PROVE CalmInv'
  <2>1. calm /\ Orderly /\ CalmInv
    BY <1>1, <1>3 DEF CaptureInv
  <2>2. OneAtWork'
    BY <1>1, <2>1 DEF CalmInv, OneAtWork, AtWork, Inside
  <2>3. OneCapture'
    BY <1>1, <2>1 DEF CalmInv, OneCapture, AtWork, Inside
  <2>4. WorkIsForIt'
    BY <1>1, <2>1 DEF CalmInv, WorkIsForIt, Inside
  <2>5. WriterIsOpen'
    BY <1>1, <2>1 DEF CalmInv, WriterIsOpen, Unbundled, OneCapture, AtWork, Inside
  <2>6. BestIsItsOwn'
    BY <1>1, <2>1 DEF CalmInv, BestIsItsOwn
  <2>7. WorkDone'
    BY <1>1, <2>1 DEF CalmInv, WorkDone, HasEntry
  <2>8. SavedIsWhole'
    BY <1>1, <2>1 DEF CalmInv, SavedIsWhole, HasEntry
  <2>9. QED
    BY <2>2, <2>3, <2>4, <2>5, <2>6, <2>7, <2>8 DEF CalmInv
<1>4. QED
  BY <1>2, <1>3 DEF CaptureInv

LEMMA ThrowsKeepsCaptureInv ==
  ASSUME RecorderInv, RecorderInv', CaptureInv, NEW f \in Finalizers, Throws(f)
  PROVE  CaptureInv'
<1>1. /\ fin[f].pc \in {"writing", "closing", "reporting", "listing"}
      /\ fin'[f].pc = "done" /\ cleanup' = [cleanup EXCEPT ![f].pc = "launched"]
      /\ cleanup[f].pc = "none" /\ cleanup'[f].pc = "launched"
      /\ \A g \in Finalizers : g # f => cleanup'[g] = cleanup[g]
      /\ \A g \in Finalizers : g # f => fin'[g] = fin[g]
      /\ status'.is = "Failed"
      /\ UNCHANGED <<main, captureId, captureJob, bestFix,
                     job, collector, entries, bundles, listed, seen, calm>>
  BY DEF Throws, Leaves, Finished, Uncalled, Is, disk, RecorderInv, NothingRed, NothingBeforeStart, Call, CaptureInv, Orderly
<1>2. Orderly'
  BY <1>1 DEF CaptureInv, Orderly, RecorderInv, NothingBeforeStart, GivenTyped
<1>3. ASSUME calm' PROVE CalmInv'
  <2>1. calm /\ Orderly /\ CalmInv
    BY <1>1, <1>3 DEF CaptureInv
  <2>2. OneAtWork'
    BY <1>1, <2>1 DEF CalmInv, OneAtWork, AtWork, Inside
  <2>3. OneCapture'
    BY <1>1, <2>1 DEF CalmInv, OneCapture, AtWork, Inside
  <2>4. WorkIsForIt'
    BY <1>1, <2>1 DEF CalmInv, WorkIsForIt, Inside
  <2>5. WriterIsOpen'
    BY <1>1, <2>1 DEF CalmInv, WriterIsOpen, Unbundled, OneCapture, AtWork, Inside
  <2>6. BestIsItsOwn'
    BY <1>1, <2>1 DEF CalmInv, BestIsItsOwn
  <2>7. WorkDone'
    BY <1>1, <2>1 DEF CalmInv, WorkDone, HasEntry
  <2>8. SavedIsWhole'
    BY <1>1, <2>1 DEF CalmInv, SavedIsWhole, HasEntry
  <2>9. QED
    BY <2>2, <2>3, <2>4, <2>5, <2>6, <2>7, <2>8 DEF CalmInv
<1>4. QED
  BY <1>2, <1>3 DEF CaptureInv

LEMMA CancelKeepsCaptureInv ==
  ASSUME RecorderInv, RecorderInv', CaptureInv, NEW f \in Finalizers, Cancel(f)
  PROVE  CaptureInv'
<1>1. /\ cleanup[f].pc = "launched" /\ cleanup'[f].pc = "joining"
      /\ cleanup' = [cleanup EXCEPT ![f] = [pc |-> "joining", job |-> captureJob]]
      /\ job' = [c \in Captures |-> IF c = captureJob THEN "cancelled" ELSE job[c]]
      /\ UNCHANGED <<status, main, captureId, captureJob, bestFix, frameWriter,
                     collector, fin, entries, bundles, listed, seen, calm>>
  BY DEF Cancel, fields, disk, RecorderInv, NothingRed, NothingBeforeStart, Call, CaptureInv, Orderly
<1>2. Orderly'
  BY <1>1, RecorderConstants DEF CaptureInv, Orderly, RecorderInv, NothingBeforeStart, GivenTyped, Captures, None
<1>3. ASSUME calm' PROVE CalmInv'
  <2>1. calm /\ Orderly /\ CalmInv
    BY <1>1, <1>3 DEF CaptureInv
  <2>2. /\ captureJob = captureId /\ captureId \in Captures
        /\ job'[captureId] = "cancelled" /\ main = "idle"
        /\ \A g \in Finalizers : g # f => ~ AtWork(g)
    BY <1>1, <2>1, RecorderConstants DEF CalmInv, OneAtWork, OneCapture, WorkIsForIt,
       Orderly, RecorderInv, NothingBeforeStart, AtWork, Inside, Captures, None
  <2>3. OneAtWork'
    BY <1>1, <2>1 DEF CalmInv, OneAtWork, AtWork, Inside
  <2>4. OneCapture'
    BY <1>1, <2>1, <2>2 DEF CalmInv, OneCapture
  <2>5. WorkIsForIt'
    BY <1>1, <2>1, <2>2 DEF WorkIsForIt, AtWork, Inside, Captures, None, Orderly
  <2>6. WriterIsOpen'
    BY <1>1, <2>1, <2>2 DEF WriterIsOpen
  <2>7. BestIsItsOwn'
    BY <1>1, <2>1 DEF CalmInv, BestIsItsOwn
  <2>8. WorkDone'
    BY <1>1, <2>1 DEF CalmInv, WorkDone, HasEntry
  <2>9. SavedIsWhole'
    BY <1>1, <2>1 DEF CalmInv, SavedIsWhole, HasEntry
  <2>10. QED
    BY <2>3, <2>4, <2>5, <2>6, <2>7, <2>8, <2>9 DEF CalmInv
<1>4. QED
  BY <1>2, <1>3 DEF CaptureInv

LEMMA ForgetKeepsCaptureInv ==
  ASSUME RecorderInv, RecorderInv', CaptureInv, NEW f \in Finalizers, Forget(f)
  PROVE  CaptureInv'
<1>0. [NoCleanup EXCEPT !.pc = "done"] = [pc |-> "done", job |-> None]
  BY DEF NoCleanup
<1>1. /\ cleanup[f].pc = "joining"
      /\ cleanup[f].job \in Captures => Returned(cleanup[f].job)
      /\ captureJob' = None
      /\ cleanup' = [cleanup EXCEPT ![f] = [pc |-> "done", job |-> None]]
      /\ UNCHANGED <<status, main, captureId, bestFix, frameWriter, job,
                     collector, fin, entries, bundles, listed, seen, calm>>
  BY <1>0 DEF Forget, disk, RecorderInv, NothingRed, NothingBeforeStart, Call, CaptureInv, Orderly
<1>2. Orderly'
  BY <1>1, RecorderConstants DEF CaptureInv, Orderly, RecorderInv, NothingBeforeStart, GivenTyped, Captures, None
<1>3. ASSUME calm' PROVE CalmInv'
  <2>1. calm /\ Orderly /\ CalmInv
    BY <1>1, <1>3 DEF CaptureInv
  <2>2. /\ captureId \in Captures /\ job[captureId] = "cancelled"
        /\ collector[captureId] = "idle" /\ main = "idle"
    BY <1>1, <2>1, RecorderConstants DEF CalmInv, OneCapture, WorkIsForIt, Returned,
       Orderly, RecorderInv, NothingBeforeStart, AtWork, Captures, None
  <2>3. OneAtWork'
    BY <1>1, <2>1 DEF CalmInv, OneAtWork, AtWork, Inside
  <2>4. OneCapture'
    BY <1>1, <2>1, <2>2 DEF CalmInv, OneCapture, Orderly
  <2>5. WorkIsForIt'
    BY <1>1, <2>1 DEF CalmInv, WorkIsForIt, Inside
  <2>6. WriterIsOpen'
    BY <1>1, <2>1 DEF CalmInv, WriterIsOpen, Unbundled
  <2>7. BestIsItsOwn'
    BY <1>1, <2>1 DEF CalmInv, BestIsItsOwn
  <2>8. WorkDone'
    BY <1>1, <2>1 DEF CalmInv, WorkDone, HasEntry
  <2>9. SavedIsWhole'
    BY <1>1, <2>1 DEF CalmInv, SavedIsWhole, HasEntry
  <2>10. QED
    BY <2>3, <2>4, <2>5, <2>6, <2>7, <2>8, <2>9 DEF CalmInv
<1>4. QED
  BY <1>2, <1>3 DEF CaptureInv

LEMMA StartKeepsCaptureInv ==
  ASSUME RecorderInv, RecorderInv', CaptureInv, Start
  PROVE  CaptureInv'
<1>1. /\ main = "idle" /\ main' = "launching" /\ ~ Active(captureJob)
      /\ captureId < MaxCaptures /\ captureId' = captureId + 1
      /\ bestFix' = NoFix /\ frameWriter' = captureId + 1
      /\ status'.is = "Capturing"
      /\ calm' = (calm /\ Quiet)
      /\ UNCHANGED <<captureJob, job, collector, fin, cleanup, entries, bundles,
                     listed, seen>>
  BY DEF Start, Unset, Is, disk, RecorderInv, NothingRed, NothingBeforeStart, Call, CaptureInv, Orderly
<1>2. Orderly'
  BY <1>1, RecorderConstants DEF CaptureInv, Orderly, RecorderInv, NothingBeforeStart, GivenTyped, Captures, None
<1>3. ASSUME calm' PROVE CalmInv'
  <2>1. calm /\ Orderly /\ CalmInv
    BY <1>1, <1>3 DEF CaptureInv
  <2>2. \A f \in Finalizers : fin[f].pc \in {"none", "done"} /\ ~ AtWork(f)
    BY <1>1, <1>3 DEF Quiet, AtWork, Inside
  <2>3. \A c \in Captures : job[c] # "active"
    BY <1>1, <2>1 DEF CalmInv, OneCapture, Active, Captures, None
  <2>4. \A c \in Captures : collector[c] = "idle"
    BY <2>1, <2>2, <2>3 DEF CalmInv, OneCapture, Orderly, AtWork
  <2>5. captureId' \in Captures /\ seen'[captureId'] = {}
    BY <1>1, <1>2 DEF Orderly, RecorderInv, NothingBeforeStart, Captures
  <2>6. OneAtWork'
    BY <1>1, <2>1 DEF CalmInv, OneAtWork, AtWork, Inside
  <2>7. OneCapture'
    BY <1>1, <2>1, <2>2, <2>3, <2>4 DEF OneCapture, AtWork
  <2>8. WorkIsForIt'
    BY <1>1, <2>1, <2>2 DEF WorkIsForIt, AtWork, Inside
  <2>9. WriterIsOpen'
    BY <1>1, <2>1 DEF CalmInv, WriterIsOpen, Unbundled
  <2>10. BestIsItsOwn'
    BY <1>1, <2>1, <2>5 DEF BestIsItsOwn, IsBest
  <2>11. WorkDone'
    BY <1>1, <2>1, <2>2 DEF WorkDone
  <2>12. SavedIsWhole'
    BY <1>1, <2>1 DEF CalmInv, SavedIsWhole, HasEntry
  <2>13. QED
    BY <2>6, <2>7, <2>8, <2>9, <2>10, <2>11, <2>12 DEF CalmInv
<1>4. QED
  BY <1>2, <1>3 DEF CaptureInv

\* What is best of the fixes given stays best when onFix has seen one more.
LEMMA HearingKeepsTheBest ==
  ASSUME NEW offered \in Given, NEW fix \in Acceptable, IsBest(fix, offered),
         NEW sigma \in Sigmas
  PROVE  IsBest(IF sigma <= HardSigma /\ (fix = NoFix \/ sigma < fix)
                  THEN sigma ELSE fix, offered \cup {sigma})
<1> DEFINE Fit(s) == {t \in s : t <= HardSigma}
           new == IF sigma <= HardSigma /\ (fix = NoFix \/ sigma < fix)
                    THEN sigma ELSE fix
<1>1. /\ Sigmas \subseteq Nat /\ HardSigma \in Nat /\ NoFix \notin Nat
      /\ Fit(offered) \subseteq Nat
      /\ Fit(offered \cup {sigma}) = Fit(offered) \cup Fit({sigma})
  BY RecorderConstants DEF Given
<1>2. IF Fit(offered) = {} THEN fix = NoFix
        ELSE fix \in Fit(offered) /\ \A s \in Fit(offered) : fix <= s
  BY DEF IsBest
<1>3. CASE sigma <= HardSigma
  <2>1. Fit({sigma}) = {sigma} /\ sigma \in Nat
    BY <1>1, <1>3
  <2>2. new \in Fit(offered) \cup {sigma}
        /\ \A s \in Fit(offered) \cup {sigma} : new <= s
    <3> HIDE DEF Fit
    <3>1. CASE Fit(offered) = {}
      BY <1>1, <1>2, <1>3, <2>1, <3>1
    <3>2. CASE Fit(offered) # {}
      <4>1. fix \in Nat /\ fix # NoFix
        BY <1>1, <1>2, <3>2
      <4>2. QED
        BY <1>1, <1>2, <1>3, <2>1, <3>2, <4>1
    <3>3. QED
      BY <3>1, <3>2
  <2>3. QED
    BY <1>1, <2>1, <2>2 DEF IsBest
<1>4. CASE ~ (sigma <= HardSigma)
  <2>1. Fit({sigma}) = {} /\ new = fix
    BY <1>4
  <2>2. QED
    BY <1>1, <1>2, <2>1 DEF IsBest
<1>5. QED
  BY <1>3, <1>4

LEMMA HearKeepsCaptureInv ==
  ASSUME RecorderInv, RecorderInv', CaptureInv, NEW c \in Captures, NEW sigma \in Sigmas, Hear(c, sigma)
  PROVE  CaptureInv'
<1>1. /\ job[c] = "active" /\ collector[c] = "idle"
      /\ seen' = [seen EXCEPT ![c] = @ \cup {sigma}]
      /\ bestFix' = IF sigma <= HardSigma /\ (bestFix = NoFix \/ sigma < bestFix)
                       THEN sigma ELSE bestFix
      /\ collector' = [collector EXCEPT ![c] =
                          IF status.is = "Capturing" THEN "showing" ELSE @]
      /\ UNCHANGED <<status, main, captureId, captureJob, frameWriter, job, fin,
                     cleanup, entries, bundles, listed, calm>>
  BY DEF Hear, Active, disk, RecorderInv, NothingRed, NothingBeforeStart, Call, CaptureInv, Orderly
<1>2. Orderly'
  BY <1>1 DEF CaptureInv, Orderly, RecorderInv, NothingBeforeStart, GivenTyped
<1>3. ASSUME calm' PROVE CalmInv'
  <2>1. calm /\ Orderly /\ CalmInv
    BY <1>1, <1>3 DEF CaptureInv
  <2>2. OneAtWork'
    BY <1>1, <2>1 DEF CalmInv, OneAtWork, AtWork, Inside
  <2>3. OneCapture'
    BY <1>1, <2>1 DEF CalmInv, OneCapture, AtWork, Inside
  <2>4. WorkIsForIt'
    BY <1>1, <2>1 DEF CalmInv, WorkIsForIt, Inside
  <2>5. WriterIsOpen'
    BY <1>1, <2>1 DEF CalmInv, WriterIsOpen, Unbundled
  <2>6. BestIsItsOwn'
    <3>1. c = captureId
      BY <1>1, <2>1 DEF CalmInv, OneCapture
    <3>2. /\ seen'[c] = seen[c] \cup {sigma} /\ seen[c] \in Given
          /\ bestFix \in Acceptable
      BY <1>1 DEF RecorderInv, GivenTyped, NothingRed
    <3>3. captureId # None => IsBest(bestFix, seen[c])
      BY <2>1, <3>1 DEF CalmInv, BestIsItsOwn
    <3>4. captureId # None => IsBest(bestFix', seen'[c])
      BY <1>1, <3>2, <3>3, HearingKeepsTheBest
    <3>5. QED
      BY <1>1, <3>1, <3>4 DEF BestIsItsOwn
  <2>7. WorkDone'
    BY <1>1, <2>1 DEF CalmInv, WorkDone, HasEntry
  <2>8. SavedIsWhole'
    BY <1>1, <2>1 DEF CalmInv, SavedIsWhole, HasEntry
  <2>9. QED
    BY <2>2, <2>3, <2>4, <2>5, <2>6, <2>7, <2>8 DEF CalmInv
<1>4. QED
  BY <1>2, <1>3 DEF CaptureInv

LEMMA CaptureInit == RInit => CaptureInv
<1> SUFFICES ASSUME RInit PROVE CaptureInv
  OBVIOUS
<1> USE RecorderConstants DEF RInit, None
<1>1. Orderly
  BY DEF Orderly, NoCleanup, Uncalled
<1>2. OneAtWork /\ OneCapture /\ WorkIsForIt
  BY DEF OneAtWork, OneCapture, WorkIsForIt, AtWork, Inside, NoCleanup, Uncalled, Is
<1>3. WriterIsOpen /\ BestIsItsOwn
  BY DEF WriterIsOpen, BestIsItsOwn
<1>4. WorkDone /\ SavedIsWhole
  BY DEF WorkDone, SavedIsWhole, Uncalled, Is
<1>5. QED
  BY <1>1, <1>2, <1>3, <1>4 DEF CaptureInv, CalmInv

LEMMA CaptureStep == RecorderInv /\ CaptureInv /\ [RNext]_rvars => CaptureInv'
<1> SUFFICES ASSUME RecorderInv, CaptureInv, [RNext]_rvars PROVE CaptureInv'
  OBVIOUS
<1>1. RecorderInv'
  BY RecorderStep
<1>2. CASE UNCHANGED rvars
  BY <1>2 DEF rvars, fields, disk, CaptureInv, Orderly, CalmInv, OneAtWork,
              OneCapture, WorkIsForIt, WriterIsOpen, BestIsItsOwn, WorkDone,
              SavedIsWhole, AtWork, Unbundled, HasEntry
<1>3. CASE Start \/ Launch
  BY <1>1, <1>3, StartKeepsCaptureInv, LaunchKeepsCaptureInv
<1>4. ASSUME NEW c \in Captures,
             Expire(c) \/ Show(c) \/ \E sigma \in Sigmas : Hear(c, sigma)
      PROVE  CaptureInv'
  BY <1>1, <1>4, ExpireKeepsCaptureInv, ShowKeepsCaptureInv, HearKeepsCaptureInv
<1>5. ASSUME NEW f \in Finalizers, TapStop(f) \/ FinalizeStep(f) \/ CleanupStep(f)
      PROVE  CaptureInv'
  BY <1>1, <1>5, TapStopKeepsCaptureInv, EnterKeepsCaptureInv,
     TakeKeepsCaptureInv, WriteEntryKeepsCaptureInv, WriteBundleKeepsCaptureInv,
     ReportKeepsCaptureInv, ListCaptureKeepsCaptureInv, ThrowsKeepsCaptureInv,
     CancelKeepsCaptureInv, ForgetKeepsCaptureInv DEF FinalizeStep, CleanupStep
<1>6. QED
  BY <1>2, <1>3, <1>4, <1>5 DEF RNext

\* As long as no finalize meets another or a new start, what the screen calls
\* saved has its entry, its bundle and its place in the session, and the
\* entry's fix is the best of what this capture was given: for any number of
\* captures, taps and fixes, and whatever call of a finalize throws.
THEOREM WhatIsSavedIsItsOwn == RSpec => []SavedIsItsOwnBest
<1>1. CaptureInv => SavedIsItsOwnBest
  <2>1. SUFFICES ASSUME CaptureInv, calm, Quiet, status.is = "Saved"
                 PROVE  /\ entries[status.of] # NoEntry
                        /\ status.of \in bundles /\ status.of \in listed
                        /\ IsBest(entries[status.of].fix, entries[status.of].offered)
    BY DEF SavedIsItsOwnBest
  <2>2. \A f \in Finalizers : fin[f].pc # "listing"
    BY <2>1 DEF Quiet
  <2>3. QED
    BY <2>1, <2>2 DEF CaptureInv, CalmInv, SavedIsWhole, HasEntry
<1>2. RecorderInv /\ CaptureInv /\ [RNext]_rvars => CaptureInv'
  BY CaptureStep
<1>3. QED
  BY RecorderInit, RecorderStep, CaptureInit, <1>1, <1>2, PTL DEF RSpec

=============================================================================
