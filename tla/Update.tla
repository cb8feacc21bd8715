------------------------------- MODULE Update -------------------------------
(***************************************************************************)
(* `bris update`: a signed payload is verified, copied to a staging         *)
(* directory beside the data directory, and swapped into place with two     *)
(* renames.  Any step may fail, and the process may die between any two;    *)
(* what it has written stays.  Nothing is ever synced, so what a machine    *)
(* that loses power has lost is not modelled.  The payload directory does   *)
(* not change between its verification and the copy, which reads it again.  *)
(*                                                                          *)
(* A tree is a function from the paths it holds to their contents; a digest *)
(* stands for the content it is of.  NoTree is a directory that is not      *)
(* there, Empty one with nothing in it.                                     *)
(***************************************************************************)
EXTENDS Naturals, FiniteSets, Functions

CONSTANTS
  NoTree,
  Original,    \* the tree the data directory starts with, or NoTree
  Payloads,    \* [signed, supported, manifest, tree]: what a run may be given
  MaxRuns,     \* bound: runs of the command
  MaxFaults    \* bound: failed or interrupted steps

IsTree(t) == t = [f \in DOMAIN t |-> t[f]]

ASSUME UpdateAssumption ==
  /\ MaxRuns \in Nat /\ MaxFaults \in Nat
  /\ \A p \in Payloads : IsTree(p.tree) /\ p.tree # NoTree

VARIABLES
  data, staging, backup,  \* the three directories
  pc,          \* idle, clear_staging, clear_backup, copy, aside, swap, drop
  payload,     \* what this run applies
  hadExisting,
  before,      \* the data directory when this run began
  last,        \* how the last run ended: none, refused, error, died or applied
  runs, faults

dirs  == <<data, staging, backup>>
uvars == <<dirs, pc, payload, hadExisting, before, last, runs, faults>>

UInit ==
  /\ data = Original /\ staging = NoTree /\ backup = NoTree
  /\ pc = "idle" /\ payload = NoTree /\ hadExisting = FALSE
  /\ before = Original /\ last = "none" /\ runs = 0 /\ faults = 0

Empty == [f \in {} |-> NoTree]

\* The signature covers the manifest, and the payload is the manifest's files,
\* each with its digest, and no other.
VerifyPayload(p) ==
  /\ \A f \in DOMAIN p.manifest :
       f \in DOMAIN p.tree /\ p.tree[f] = p.manifest[f]
  /\ DOMAIN p.tree \subseteq DOMAIN p.manifest

Verified(p) == p.signed /\ p.supported /\ VerifyPayload(p)

Begin ==
  /\ pc = "idle" /\ runs < MaxRuns
  /\ runs' = runs + 1 /\ before' = data
  /\ \E p \in Payloads :
       IF Verified(p)
       THEN pc' = "clear_staging" /\ payload' = p /\ last' = "none"
       ELSE last' = "refused" /\ UNCHANGED <<pc, payload>>
  /\ UNCHANGED <<dirs, hadExisting, faults>>

-----------------------------------------------------------------------------
(* The steps of a run.  Each may be the one that fails.                     *)

Less(tree, f) == Restrict(tree, DOMAIN tree \ {f})

\* remove_dir_all, one entry at a time: what is left, and whether it is done.
RemoveSome(tree, left) ==
  IF tree = Empty THEN left = NoTree
                  ELSE \E f \in DOMAIN tree : left = Less(tree, f)

Goto(next) == pc' = next /\ UNCHANGED <<payload, before, last, runs, faults>>

\* A plausible bug: what an interrupted run left is kept.
StaleStagingKept ==
  /\ pc = "clear_staging" /\ Goto("clear_backup")
  /\ UNCHANGED <<dirs, hadExisting>>

ClearStaging ==
  /\ pc = "clear_staging"
  /\ IF staging = NoTree THEN Goto("clear_backup") /\ UNCHANGED staging
                         ELSE RemoveSome(staging, staging') /\ Goto(pc)
  /\ UNCHANGED <<data, backup, hadExisting>>

ClearBackup ==
  /\ pc = "clear_backup"
  /\ IF backup = NoTree THEN Goto("copy") /\ UNCHANGED backup
                        ELSE RemoveSome(backup, backup') /\ Goto(pc)
  /\ UNCHANGED <<data, staging, hadExisting>>

With(tree, f, v) ==
  [g \in DOMAIN tree \union {f} |-> IF g = f THEN v ELSE tree[g]]

ToCopy == {f \in DOMAIN payload.tree :
             f \notin DOMAIN staging \/ staging[f] # payload.tree[f]}

\* The directory, then file after file in the order read_dir lists them, each
\* read again and taken to be what VerifyPayload read.
Copy ==
  /\ pc = "copy"
  /\ IF staging = NoTree THEN staging' = Empty /\ Goto(pc)
     ELSE \/ /\ \E f \in ToCopy : staging' = With(staging, f, payload.tree[f])
             /\ Goto(pc)
          \/ ToCopy = {} /\ UNCHANGED staging /\ Goto("aside")
  /\ UNCHANGED <<data, backup, hadExisting>>

\* A plausible bug: the old tree is deleted to make room for the new one.
DeletedInstead ==
  /\ pc = "aside"
  /\ data' = NoTree
  /\ hadExisting' = (data # NoTree)
  /\ Goto("swap") /\ UNCHANGED <<staging, backup>>

MoveAside ==
  /\ pc = "aside"
  /\ hadExisting' = (data # NoTree)
  /\ IF data = NoTree THEN UNCHANGED <<data, backup>>
                      ELSE data' = NoTree /\ backup' = data
  /\ Goto("swap") /\ UNCHANGED staging

Swap ==
  /\ pc = "swap"
  /\ data' = staging /\ staging' = NoTree
  /\ Goto("drop") /\ UNCHANGED <<backup, hadExisting>>

DropBackup ==
  /\ pc = "drop"
  /\ IF backup = NoTree
     THEN /\ pc' = "idle" /\ last' = "applied"
          /\ UNCHANGED <<backup, payload, before, runs, faults>>
     ELSE RemoveSome(backup, backup') /\ Goto(pc)
  /\ UNCHANGED <<data, staging, hadExisting>>

\* A file being copied when a run ends may be cut short.
CutShort ==
  \/ UNCHANGED dirs
  \/ /\ pc = "copy" /\ staging # NoTree
     /\ \E f \in ToCopy : staging' = With(staging, f, "cut")
     /\ UNCHANGED <<data, backup>>

\* A plausible bug: the failed rename is reported and no more.
NothingRestored == CutShort

\* A rename that fails puts the old tree back, if that rename does not fail.
Restored ==
  \/ /\ pc = "swap" /\ hadExisting
     /\ data' = backup /\ backup' = NoTree /\ UNCHANGED staging
  \/ ~ (pc = "swap" /\ hadExisting) /\ CutShort

\* The step returns an error, and the run with it.  That the restoring rename
\* fails too is a second fault.
Fail ==
  /\ pc # "idle" /\ faults < MaxFaults
  /\ \/ faults' = faults + 1 /\ Restored
     \/ /\ pc = "swap" /\ hadExisting /\ faults + 2 <= MaxFaults
        /\ faults' = faults + 2 /\ UNCHANGED dirs
  /\ pc' = "idle" /\ last' = "error"
  /\ UNCHANGED <<payload, hadExisting, before, runs>>

\* The process is killed.  The machine runs on: every write and rename the
\* process made is there for the next run.
Die ==
  /\ pc # "idle" /\ faults < MaxFaults
  /\ faults' = faults + 1
  /\ pc' = "idle" /\ last' = "died"
  /\ CutShort /\ UNCHANGED <<payload, hadExisting, before, runs>>

UNext == \/ Begin \/ ClearStaging \/ ClearBackup \/ Copy \/ MoveAside \/ Swap
         \/ DropBackup \/ Fail \/ Die

USpec == UInit /\ [][UNext]_uvars

-----------------------------------------------------------------------------
Whole(tree) == tree = Original \/ \E p \in Payloads : Verified(p) /\ tree = p.tree

\* The program never finds a mixture in the data directory: it holds the tree
\* it started with or a verified payload's, to the last file, or is not there
\* (subcommands.rs: "never a silent partial update").  So for runs that fail or
\* are killed, and a payload that stays as it was verified; nothing is synced,
\* so no more is said of a machine that loses power.
DataIsWhole == data = NoTree \/ Whole(data)

\* Between runs, after at most one failed step or killed process, wherever it
\* struck, the operator still has a whole tree: in place, or in the backup
\* beside it.  A power loss is another matter, as for DataIsWhole.
OneFailureIsSurvived ==
  (Original # NoTree /\ pc = "idle" /\ faults <= 1)
    => \E tree \in {data, backup} : tree # NoTree /\ Whole(tree)

\* A run of which one step failed, and which reports it, leaves the data
\* directory as it found it, or, when only the backup could not be removed, with
\* the whole new tree.  When the restoring rename fails too, a second fault that
\* the code ignores, the data directory is gone and the old tree is in the backup
\* (subcommands.rs: "restore the backup so the operator is never left without
\* data").
ErrorsLeaveTheData ==
  [][last' = "error" /\ last # "error" /\ faults' = faults + 1
       => data' \in {before, payload.tree}]_uvars

\* What the module's header claims of a failure at any point: between runs the
\* previous data, or what replaced it, is still there, whole, in place or in
\* the backup (subcommands.rs: "A failure at any point leaves the previous data
\* intact").
PreviousDataIntact ==
  (Original # NoTree /\ pc = "idle")
    => \E tree \in {data, backup} : tree # NoTree /\ Whole(tree)

=============================================================================
