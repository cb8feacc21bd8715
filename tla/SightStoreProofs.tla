-------------------------- MODULE SightStoreProofs --------------------------
(***************************************************************************)
(* What holds of the sight and fix logs for any number of records, faults    *)
(* and hours and any rotation size and retention.                           *)
(*                                                                         *)
(* AppendHasAFile, for any number of processes: a writer loses its file      *)
(* only in maybe_rotate, that is with the trigger up; the trigger stays up   *)
(* until the writer has a file again, since the byte count does not move     *)
(* without a file and the clock never returns to the anchor's hour.  That is *)
(* the inductive invariant, Fileless.                                       *)
(*                                                                         *)
(* AcknowledgedIsKept and KillsLeaveNoFalseRecord, of one process at a time: *)
(* whoever appends has read current.log since it started and so cut what a   *)
(* kill left there (Aligned), hence every record begins a block (Framed) and *)
(* what was acknowledged is in a file that a query lists (Placed).           *)
(*                                                                         *)
(* LocksGoWithTheirOwners, for any number of processes.                     *)
(***************************************************************************)
EXTENDS SightStore, FiniteSetTheorems, SequenceTheorems,
        WellFoundedInduction, TLAPS

Unit == [rec : Nat, header : BOOLEAN]
Log == [file : Nat, bytes : Nat, anchor : Nat]
Proc == [pc : Phase \cup Kind, k : DOMAIN Kinds, enabled : BOOLEAN,
         log : [Kind -> Log]]

TypeInv ==
  /\ data \in Seq(Seq(Unit))
  /\ current \in [Kind -> Nat]
  /\ \A k \in Kind : current[k] \in 0 .. Len(data)
  /\ proc \in [Processes -> Proc]
  /\ \A p \in Processes, k \in Kind : proc[p].log[k].file \in 0 .. Len(data)
  /\ hour \in Nat
  /\ records \in Nat

\* No log was opened in an hour that is yet to come.
Anchored == \A p \in Processes, k \in Kind : proc[p].log[k].anchor <= hour

\* Has a file, or still the reason to rotate.
Fit(log) == log.file # None \/ Triggered(log)

\* The logs a process is done opening.
Done(q) ==
  IF q.pc \in {"locking", "opening"} THEN {Kinds[i] : i \in 1 .. q.k - 1}
                                     ELSE Kind

\* A log without a file is one whose rotation failed and is still due; while
\* the logs are being opened, this is so of those already done.
Fileless ==
  \A p \in Processes : proc[p].enabled =>
    /\ proc[p].pc # "panicked"
    /\ \A k \in Done(proc[p]) : Fit(proc[p].log[k])

\* A process without files is nowhere near a write.
Idle == \A p \in Processes : ~ proc[p].enabled => proc[p].pc \in {"down", "open"}

Inv == TypeInv /\ Anchored /\ Fileless /\ Idle

-----------------------------------------------------------------------------
(* Kinds, and what a step does to one process.                             *)

LEMMA KindsFacts ==
  /\ 1 \in DOMAIN Kinds /\ Len(Kinds) \in Nat /\ DOMAIN Kinds = 1 .. Len(Kinds)
  /\ \A i \in DOMAIN Kinds : Kinds[i] \in Kind
  /\ \A k \in Kind : \E i \in DOMAIN Kinds : Kinds[i] = k
  /\ \A k \in Kind : k \notin Phase
BY KindsAssumption DEF Kind, Range

LEMMA ClosedIsALog == Closed \in Log /\ [k \in Kind |-> Closed] \in [Kind -> Log]
BY DEF Closed, Log, None

\* A step that replaces the record of one process by a fit one and takes no
\* file away keeps the invariant.
LEMMA OneProcess ==
  ASSUME Inv, NEW p \in Processes, NEW q \in Proc,
         proc' = [proc EXCEPT ![p] = q],
         data' \in Seq(Seq(Unit)), Len(data) <= Len(data'),
         current' \in [Kind -> Nat],
         \A k \in Kind : current'[k] \in 0 .. Len(data'),
         \A k \in Kind : q.log[k].file \in 0 .. Len(data'),
         \A k \in Kind : q.log[k].anchor <= hour,
         q.enabled => /\ q.pc # "panicked"
                      /\ \A k \in Done(q) : Fit(q.log[k]),
         ~ q.enabled => q.pc \in {"down", "open"},
         hour' = hour, records' \in Nat
  PROVE  Inv'
<1>1. /\ \A r \in Processes : proc'[r] = IF r = p THEN q ELSE proc[r]
      /\ proc' \in [Processes -> Proc]
  BY DEF Inv, TypeInv
<1>2. Len(data) \in Nat /\ Len(data') \in Nat
  BY DEF Inv, TypeInv
<1>3. \A k \in Kind : \A r \in Processes :
        proc'[r].log[k].file \in 0 .. Len(data')
  <2> TAKE k \in Kind
  <2> TAKE r \in Processes
  <2>1. CASE r = p
    BY <2>1, <1>1
  <2>2. CASE r # p
    BY <2>2, <1>1, <1>2 DEF Inv, TypeInv
  <2> QED BY <2>1, <2>2
<1>4. TypeInv'
  BY <1>1, <1>3 DEF Inv, TypeInv
<1>5. Anchored'
  <2> SUFFICES ASSUME NEW r \in Processes, NEW k \in Kind
               PROVE  proc'[r].log[k].anchor <= hour
    BY DEF Anchored
  <2> QED BY <1>1 DEF Inv, Anchored
<1>6. Fileless'
  <2> SUFFICES ASSUME NEW r \in Processes, proc'[r].enabled
               PROVE  /\ proc'[r].pc # "panicked"
                      /\ \A k \in Done(proc'[r]) : Fit(proc'[r].log[k])
    BY DEF Fileless, Fit, Triggered, Done
  <2>1. CASE r = p
    BY <2>1, <1>1
  <2>2. CASE r # p
    BY <2>2, <1>1 DEF Inv, Fileless
  <2> QED BY <2>1, <2>2
<1>7. Idle'
  BY <1>1 DEF Inv, Idle
<1> QED BY <1>4, <1>5, <1>6, <1>7 DEF Inv

\* Opening current.log yields a file of known length and takes none away.
LEMMA Opened ==
  ASSUME TypeInv, NEW k \in Kind, OpenOrInit(k)
  PROVE  /\ data' \in Seq(Seq(Unit)) /\ Len(data) <= Len(data')
         /\ current' \in [Kind -> Nat]
         /\ \A j \in Kind : current'[j] \in 0 .. Len(data')
         /\ current'[k] # None
         /\ Len(data'[current'[k]]) \in Nat
<1>0. Len(data) \in Nat /\ << >> \in Seq(Unit)
  BY DEF TypeInv
<1>1. CASE current[k] # None
  <2>1. data' = data /\ current' = current
    BY <1>1 DEF OpenOrInit
  <2>2. current[k] \in 1 .. Len(data)
    BY <1>1 DEF TypeInv, None
  <2>3. data[current[k]] \in Seq(Unit)
    BY <2>2 DEF TypeInv
  <2> QED BY <1>0, <1>1, <2>1, <2>2, <2>3 DEF TypeInv
<1>2. CASE current[k] = None
  <2>1. data' = Append(data, << >>)
        /\ current' = [current EXCEPT ![k] = Len(data) + 1]
    BY <1>2 DEF OpenOrInit
  <2>2. /\ data' \in Seq(Seq(Unit)) /\ Len(data') = Len(data) + 1
        /\ data'[Len(data) + 1] = << >>
    BY <1>0, <2>1 DEF TypeInv
  <2>3. current' \in [Kind -> Nat] /\ current'[k] = Len(data) + 1
    BY <1>0, <2>1 DEF TypeInv
  <2>4. \A j \in Kind : current'[j] \in 0 .. Len(data')
    BY <1>0, <2>1, <2>2 DEF TypeInv
  <2> QED BY <1>0, <2>2, <2>3, <2>4 DEF None
<1> QED BY <1>1, <1>2

-----------------------------------------------------------------------------
(* One lemma per action.                                                   *)

\* What OneProcess asks of the files, when they are left alone.
LEMMA Untouched ==
  ASSUME Inv
  PROVE  /\ data \in Seq(Seq(Unit)) /\ Len(data) <= Len(data)
         /\ current \in [Kind -> Nat]
         /\ \A k \in Kind : current[k] \in 0 .. Len(data)
         /\ hour \in Nat /\ records \in Nat /\ Len(data) \in Nat
BY DEF Inv, TypeInv

\* A process without files may be replaced by any such process.
LEMMA Standing ==
  ASSUME Inv
  PROVE  /\ Down \in Proc /\ StandIn \in Proc
         /\ ~ Down.enabled /\ ~ StandIn.enabled
         /\ Down.pc = "down" /\ StandIn.pc = "open"
         /\ \A k \in Kind : /\ Down.log[k] = Closed
                            /\ StandIn.log[k] = Closed
         /\ Closed.file \in 0 .. Len(data) /\ Closed.anchor <= hour
<1>1. Down \in Proc
  BY KindsFacts, ClosedIsALog DEF Down, Fresh, Proc, Phase
<1>3. StandIn \in Proc
  BY KindsFacts, ClosedIsALog DEF StandIn, Fresh, Proc, Phase
<1>4. Closed.file \in 0 .. Len(data) /\ Closed.anchor <= hour
  BY Untouched DEF Closed, None
<1> QED BY <1>1, <1>3, <1>4 DEF Down, StandIn, Fresh

\* The records of the processes before the step.
LEMMA Before ==
  ASSUME Inv, NEW p \in Processes
  PROVE  /\ proc[p] \in Proc
         /\ \A k \in Kind : /\ proc[p].log[k] \in Log
                            /\ proc[p].log[k].file \in 0 .. Len(data)
                            /\ proc[p].log[k].anchor <= hour
BY DEF Inv, TypeInv, Anchored, Proc

LEMMA StartStep ==
  ASSUME Inv, NEW p \in Processes, Start(p)
  PROVE  Inv'
<1> DEFINE q == Fresh("locking", TRUE)
<1>0. q = [pc |-> "locking", k |-> 1, enabled |-> TRUE,
           log |-> [k \in Kind |-> Closed]]
  BY DEF Fresh
<1>1. /\ q \in Proc /\ q.enabled /\ q.pc = "locking" /\ Done(q) = {}
      /\ \A k \in Kind : q.log[k] = Closed
  <2> HIDE DEF q
  <2>1. Done(q) = {}
    BY <1>0 DEF Done
  <2>2. q \in Proc
    BY <1>0, KindsFacts, ClosedIsALog DEF Proc, Phase
  <2> QED BY <1>0, <2>1, <2>2
<1>2. \A k \in Kind : /\ q.log[k].file \in 0 .. Len(data)
                       /\ q.log[k].anchor <= hour
  BY <1>1, Standing
<1>3. proc' = [proc EXCEPT ![p] = q]
  BY DEF Start
<1> HIDE DEF q
<1> QED BY <1>1, <1>2, <1>3, Untouched, OneProcess DEF Start

LEMMA StandInStep ==
  ASSUME Inv, NEW p \in Processes, NEW q \in {Down, StandIn},
         proc' = [proc EXCEPT ![p] = q],
         UNCHANGED <<data, current, hour, records>>
  PROVE  Inv'
<1>1. /\ q \in Proc /\ ~ q.enabled /\ q.pc \in {"down", "open"}
      /\ \A k \in Kind : /\ q.log[k].file \in 0 .. Len(data)
                         /\ q.log[k].anchor <= hour
  BY Standing
<1> QED BY <1>1, Untouched, OneProcess

LEMMA AcquireLockStep ==
  ASSUME Inv, NEW p \in Processes, AcquireLock(p)
  PROVE  Inv'
<1>1. CASE proc' = [proc EXCEPT ![p] = StandIn]
  BY <1>1, StandInStep DEF AcquireLock
<1>2. CASE proc' = [proc EXCEPT ![p].pc = "opening"]
  <2> DEFINE q == [proc[p] EXCEPT !.pc = "opening"]
  <2>1. proc[p].pc = "locking"
    BY DEF AcquireLock
  <2>2. /\ q \in Proc /\ q.pc = "opening" /\ q.enabled = proc[p].enabled
        /\ q.log = proc[p].log /\ Done(q) = Done(proc[p])
    BY <2>1, Before DEF Proc, Phase, Done
  <2>3. proc[p].enabled
    BY <2>1 DEF Inv, Idle
  <2>4. \A k \in Done(q) : Fit(q.log[k])
    BY <2>2, <2>3 DEF Inv, Fileless
  <2>5. proc' = [proc EXCEPT ![p] = q]
    BY <1>2
  <2>6. UNCHANGED <<data, current, hour, records>>
    BY DEF AcquireLock
  <2> HIDE DEF q
  <2> QED BY <2>2, <2>3, <2>4, <2>5, <2>6, Before, Untouched, OneProcess
<1> QED BY <1>1, <1>2 DEF AcquireLock

LEMMA OpenLogStep ==
  ASSUME Inv, NEW p \in Processes, OpenLog(p)
  PROVE  Inv'
<1>1. CASE proc' = [proc EXCEPT ![p] = StandIn] /\ UNCHANGED <<data, current>>
  BY <1>1, StandInStep DEF OpenLog
<1>2. CASE proc' # [proc EXCEPT ![p] = StandIn] \/ ~ UNCHANGED <<data, current>>
  <2> DEFINE k == Kinds[proc[p].k]
             log == [file |-> current'[k], bytes |-> Len(data'[current'[k]]),
                     anchor |-> hour]
             last == proc[p].k = Len(Kinds)
             q == [proc[p] EXCEPT !.log[k] = log,
                                  !.k = IF last THEN 1 ELSE @ + 1,
                                  !.pc = IF last THEN "pruning" ELSE "locking"]
  <2>1. proc[p].pc = "opening" /\ proc[p].k \in DOMAIN Kinds /\ k \in Kind
    BY Before, KindsFacts DEF OpenLog, Proc
  <2>2. OpenOrInit(k) /\ proc' = [proc EXCEPT ![p] = q]
    BY <1>2 DEF OpenLog
  <2>3. /\ data' \in Seq(Seq(Unit)) /\ Len(data) <= Len(data')
        /\ current' \in [Kind -> Nat]
        /\ \A j \in Kind : current'[j] \in 0 .. Len(data')
        /\ current'[k] # None
        /\ Len(data'[current'[k]]) \in Nat
    BY <2>1, <2>2, Opened DEF Inv
  <2>4. log \in Log /\ Fit(log) /\ log.file \in 0 .. Len(data') /\ log.anchor = hour
    BY <2>1, <2>3, Untouched DEF Log, Fit
  <2>5. /\ q.log = [proc[p].log EXCEPT ![k] = log]
        /\ q.log \in [Kind -> Log]
        /\ q.enabled = proc[p].enabled
        /\ q.pc = (IF last THEN "pruning" ELSE "locking")
        /\ q.k = (IF last THEN 1 ELSE proc[p].k + 1)
        /\ q \in Proc
    <3> HIDE DEF log, k, last
    <3>1. proc[p].log \in [Kind -> Log] /\ proc[p].enabled \in BOOLEAN
      BY Before DEF Proc
    <3> DEFINE q1 == [proc[p] EXCEPT !.log[k] = log]
               q2 == [q1 EXCEPT !.k = IF last THEN 1 ELSE @ + 1]
               q3 == [q2 EXCEPT !.pc = IF last THEN "pruning" ELSE "locking"]
    <3>2. q = q3
      OBVIOUS
    <3>3. [proc[p].log EXCEPT ![k] = log] \in [Kind -> Log]
      BY <3>1, <2>1, <2>4
    <3>4. (IF last THEN 1 ELSE proc[p].k + 1) \in DOMAIN Kinds
      BY <2>1, KindsFacts DEF last
    <3>5. /\ q1 \in Proc /\ q1.log = [proc[p].log EXCEPT ![k] = log]
          /\ q1.k = proc[p].k /\ q1.enabled = proc[p].enabled
      BY <3>3, Before DEF Proc
    <3> HIDE DEF q1
    <3>6. /\ q2 \in Proc /\ q2.log = q1.log /\ q2.enabled = q1.enabled
          /\ q2.k = (IF last THEN 1 ELSE proc[p].k + 1)
      BY <3>4, <3>5 DEF Proc
    <3> HIDE DEF q2
    <3>7. /\ q3 \in Proc /\ q3.log = q2.log /\ q3.enabled = q2.enabled
          /\ q3.k = q2.k /\ q3.pc = (IF last THEN "pruning" ELSE "locking")
      BY <3>6 DEF Proc, Phase
    <3> HIDE DEF q, q3
    <3> QED BY <3>2, <3>3, <3>5, <3>6, <3>7
  <2>6. proc[p].enabled
    BY <2>1 DEF Inv, Idle
  <2>7. \A j \in Kind : q.log[j] = IF j = k THEN log ELSE proc[p].log[j]
    BY <2>1, <2>5, Before DEF Proc
  <2>8. Done(q) \subseteq Done(proc[p]) \cup {k}
    BY <2>1, <2>5, KindsFacts DEF Done
  <2>9. \A j \in Done(q) : Fit(q.log[j])
    <3>1. \A j \in Done(proc[p]) : j \in Kind /\ Fit(proc[p].log[j])
      BY <2>1, <2>6, KindsFacts DEF Inv, Fileless, Done
    <3> QED BY <2>1, <2>4, <2>7, <2>8, <3>1
  <2>10. \A j \in Kind : q.log[j].file \in 0 .. Len(data') /\ q.log[j].anchor <= hour
    BY <2>3, <2>4, <2>7, Before, Untouched
  <2>11. hour' = hour /\ records' = records
    BY DEF OpenLog
  <2> HIDE DEF q, log, last, k
  <2> QED BY <2>2, <2>3, <2>5, <2>6, <2>9, <2>10, <2>11, Untouched, OneProcess
<1> QED BY <1>1, <1>2

\* A process that goes on with the same logs, none of them in the making.
LEMMA GoesOn ==
  ASSUME Inv, NEW p \in Processes, NEW q \in Proc,
         proc' = [proc EXCEPT ![p] = q],
         q.log = proc[p].log, q.enabled = proc[p].enabled, proc[p].enabled,
         Done(proc[p]) = Kind, q.pc # "panicked",
         data' \in Seq(Seq(Unit)), Len(data') = Len(data),
         UNCHANGED <<current, hour>>, records' \in Nat
  PROVE  Inv'
<1>1. \A k \in Kind : Fit(q.log[k])
  BY DEF Inv, Fileless
<1>2. Done(q) \subseteq Kind
  <2>1. q.k \in 1 .. Len(Kinds)
    BY KindsFacts DEF Proc
  <2>2. \A i \in 1 .. q.k - 1 : Kinds[i] \in Kind
    BY <2>1, KindsFacts
  <2> QED BY <2>2 DEF Done
<1> QED BY <1>1, <1>2, Before, Untouched, OneProcess

LEMMA PruneStep ==
  ASSUME Inv, NEW p \in Processes, Prune(p)
  PROVE  Inv'
<1> DEFINE q == [proc[p] EXCEPT !.pc = "hydrating"]
<1>1. proc[p].pc = "pruning" /\ proc' = [proc EXCEPT ![p] = q]
  BY DEF Prune
<1>2. q \in Proc /\ q.log = proc[p].log /\ q.enabled = proc[p].enabled
      /\ q.pc = "hydrating"
  BY Before DEF Proc, Phase
<1>3. Done(proc[p]) = Kind /\ proc[p].enabled
  BY <1>1 DEF Done, Inv, Idle
<1>4. UNCHANGED <<data, current, hour, records>>
  BY DEF Prune
<1> HIDE DEF q
<1> QED BY <1>1, <1>2, <1>3, <1>4, Untouched, GoesOn

LEMMA WholeRecords == \A n \in Nat : 2 * (n \div 2) \in 0 .. n
OBVIOUS

LEMMA IsASequence ==
  ASSUME NEW T, NEW n \in Nat, NEW s \in [1 .. n -> T]
  PROVE  s \in Seq(T) /\ Len(s) = n
<1>1. s \in UNION {[1 .. m -> T] : m \in Nat}
  OBVIOUS
<1>2. s \in Seq(T)
  BY <1>1, SeqDef, Zenon
<1>3. DOMAIN s = 1 .. n
  OBVIOUS
<1> QED BY <1>2, <1>3, LenProperties

\* Cutting tails off keeps the files and their number.
LEMMA TailsCut ==
  ASSUME data \in Seq(Seq(Unit)), NEW inodes, CutTails(inodes)
  PROVE  /\ data' \in Seq(Seq(Unit)) /\ Len(data') = Len(data)
         /\ \A i \in 1 .. Len(data) :
              data'[i] = IF i \in inodes THEN Truncated(data[i]) ELSE data[i]
<1>1. ASSUME NEW i \in 1 .. Len(data) PROVE Truncated(data[i]) \in Seq(Unit)
  <2>1. data[i] \in Seq(Unit) /\ Len(data[i]) \in Nat
    OBVIOUS
  <2>2. RecordSize * (Len(data[i]) \div RecordSize) \in 0 .. Len(data[i])
    BY <2>1, WholeRecords DEF RecordSize
  <2> QED BY <2>1, <2>2 DEF Truncated, Whole
<1>2. DOMAIN data = 1 .. Len(data) /\ Len(data) \in Nat
  OBVIOUS
<1>3. \A i \in 1 .. Len(data) :
        data'[i] = IF i \in inodes THEN Truncated(data[i]) ELSE data[i]
  BY <1>2 DEF CutTails
<1>4. data' \in [1 .. Len(data) -> Seq(Unit)]
  BY <1>1, <1>2 DEF CutTails
<1>5. data' \in Seq(Seq(Unit)) /\ Len(data') = Len(data)
  BY <1>2, <1>4, IsASequence
<1> QED BY <1>3, <1>5

LEMMA HydrateStep ==
  ASSUME Inv, NEW p \in Processes, Hydrate(p)
  PROVE  Inv'
<1> DEFINE last == proc[p].k = Len(Kinds)
           q1 == [proc[p] EXCEPT !.k = IF last THEN 1 ELSE @ + 1]
           q == [q1 EXCEPT !.pc = IF last THEN "open" ELSE @]
<1>1. proc[p].pc = "hydrating" /\ proc' = [proc EXCEPT ![p] = q]
  BY DEF Hydrate
<1>2. /\ q1 \in Proc /\ q1.log = proc[p].log /\ q1.enabled = proc[p].enabled
      /\ q1.pc = "hydrating"
  <2>1. proc[p].k \in 1 .. Len(Kinds)
    BY Before, KindsFacts DEF Proc
  <2>2. (IF last THEN 1 ELSE proc[p].k + 1) \in DOMAIN Kinds
    BY <2>1, KindsFacts
  <2> QED BY <1>1, <2>2, Before DEF Proc
<1>3. /\ q \in Proc /\ q.log = proc[p].log /\ q.enabled = proc[p].enabled
      /\ q.pc # "panicked"
  <2> HIDE DEF q1
  <2> QED BY <1>2 DEF Proc, Phase
<1>4. Done(proc[p]) = Kind /\ proc[p].enabled
  BY <1>1 DEF Done, Inv, Idle
<1>5. UNCHANGED <<current, hour, records>>
  BY DEF Hydrate
<1>7. data' \in Seq(Seq(Unit)) /\ Len(data') = Len(data)
  BY Untouched, TailsCut DEF Hydrate
<1> HIDE DEF q, q1
<1> QED BY <1>1, <1>3, <1>4, <1>5, <1>7, Untouched, GoesOn

LEMMA QueryStep ==
  ASSUME Inv, NEW p \in Processes, NEW k \in Kind, Query(p, k)
  PROVE  Inv'
<1>1. /\ proc[p].pc \in {"open"} \cup Kind /\ proc[p].enabled
      /\ UNCHANGED <<current, hour, records, proc>>
  BY DEF Query
<1>2. Done(proc[p]) = Kind /\ proc[p].pc # "panicked"
  BY <1>1, KindsFacts DEF Done, Phase
<1>3. data' \in Seq(Seq(Unit)) /\ Len(data') = Len(data)
  <2>1. PICK inodes : CutTails(inodes)
    BY DEF Query
  <2> QED BY <2>1, Untouched, TailsCut
<1>4. proc' = [proc EXCEPT ![p] = proc[p]]
  BY <1>1 DEF Inv, TypeInv
<1> QED BY <1>1, <1>2, <1>3, <1>4, Before, Untouched, GoesOn

\* A log that loses its file while the trigger is up stays fit.
LEMMA LosesItsFile ==
  ASSUME Inv, NEW p \in Processes, NEW k \in Kind, NEW q \in Proc,
         proc[p].pc = "open", proc[p].enabled, Triggered(proc[p].log[k]),
         q.log = [proc[p].log EXCEPT ![k] = [@ EXCEPT !.file = None]],
         q.enabled = proc[p].enabled, q.pc \in {"open", k},
         proc' = [proc EXCEPT ![p] = q], current' \in {current, [current EXCEPT ![k] = None]},
         UNCHANGED <<data, hour>>, records' \in Nat
  PROVE  Inv'
<1> DEFINE l == [proc[p].log[k] EXCEPT !.file = None]
<1>1. /\ l \in Log /\ l.file = None /\ Fit(l) /\ l.anchor <= hour
  BY Before DEF Log, Fit, Triggered, None
<1>2. \A j \in Kind : q.log[j] = IF j = k THEN l ELSE proc[p].log[j]
  BY Before DEF Proc
<1>3. \A j \in Kind : /\ q.log[j].file \in 0 .. Len(data)
                       /\ q.log[j].anchor <= hour
  <2> HIDE DEF l
  <2> QED BY <1>1, <1>2, Before, Untouched DEF None
<1>4. Done(proc[p]) = Kind /\ Done(q) = Kind /\ q.pc # "panicked"
  BY KindsFacts DEF Done, Phase
<1>5. \A j \in Kind : Fit(q.log[j])
  <2>1. \A j \in Kind : Fit(proc[p].log[j])
    BY <1>4 DEF Inv, Fileless
  <2> HIDE DEF l
  <2> QED BY <1>1, <1>2, <2>1
<1>6. current' \in [Kind -> Nat] /\ \A j \in Kind : current'[j] \in 0 .. Len(data)
  <2>1. CASE current' = current
    BY <2>1, Untouched
  <2>2. CASE current' = [current EXCEPT ![k] = None]
    <3>1. /\ current' \in [Kind -> Nat]
          /\ \A j \in Kind : current'[j] = IF j = k THEN 0 ELSE current[j]
      BY <2>2, Untouched DEF None
    <3> QED BY <3>1, Untouched
  <2> QED BY <2>1, <2>2
<1> HIDE DEF l
<1> QED BY <1>3, <1>4, <1>5, <1>6, Untouched, OneProcess

LEMMA RotateStep ==
  ASSUME Inv, NEW p \in Processes, NEW k \in Kind, Rotate(p, k)
  PROVE  Inv'
<1>1. /\ proc[p].pc = "open" /\ proc[p].enabled /\ Triggered(proc[p].log[k])
      /\ UNCHANGED <<data, hour>>
  BY DEF Rotate
<1>2. CASE proc' = [proc EXCEPT ![p].log[k].file = None]
  <2> DEFINE q == [proc[p] EXCEPT !.log[k].file = None]
  <2>1. q \in Proc /\ q.enabled = proc[p].enabled /\ q.pc = "open"
        /\ q.log = [proc[p].log EXCEPT ![k] = [@ EXCEPT !.file = None]]
    BY <1>1, Before DEF Proc, Log, None
  <2>2. proc' = [proc EXCEPT ![p] = q]
    BY <1>2
  <2>3. records' \in Nat /\ current' \in {current, [current EXCEPT ![k] = None]}
    BY Untouched DEF Rotate, Refused
  <2> HIDE DEF q
  <2> QED BY <1>1, <2>1, <2>2, <2>3, LosesItsFile
<1>3. CASE proc' = [proc EXCEPT ![p].log[k] = Renamed(proc[p].log[k]), ![p].pc = k]
  <2> DEFINE q1 == [proc[p] EXCEPT !.log[k] = Renamed(@)]
             q == [q1 EXCEPT !.pc = k]
  <2>1. q1 \in Proc /\ q1.enabled = proc[p].enabled
        /\ q1.log = [proc[p].log EXCEPT ![k] = [@ EXCEPT !.file = None]]
    BY Before DEF Proc, Log, None, Renamed
  <2>2. proc' = [proc EXCEPT ![p] = q]
    BY <1>3
  <2>3. records' \in Nat /\ current' \in {current, [current EXCEPT ![k] = None]}
    BY Untouched DEF Rotate, Refused
  <2> HIDE DEF q1
  <2>4. q \in Proc /\ q.enabled = q1.enabled /\ q.log = q1.log /\ q.pc = k
    BY <2>1 DEF Proc
  <2> HIDE DEF q
  <2> QED BY <1>1, <2>1, <2>2, <2>3, <2>4, LosesItsFile
<1> QED BY <1>2, <1>3 DEF Rotate

LEMMA ReopenStep ==
  ASSUME Inv, NEW p \in Processes, NEW k \in Kind, Reopen(p, k)
  PROVE  Inv'
<1>0. /\ proc[p].pc = k /\ k \notin Phase /\ UNCHANGED hour
      /\ proc[p].enabled
  BY KindsFacts DEF Reopen, Inv, Idle, Phase
<1>1. Done(proc[p]) = Kind
  BY <1>0 DEF Done, Phase
<1>2. CASE proc' = [proc EXCEPT ![p].pc = "open"] /\ UNCHANGED <<data, current>>
  <2> DEFINE q == [proc[p] EXCEPT !.pc = "open"]
  <2>1. /\ q \in Proc /\ q.log = proc[p].log /\ q.enabled = proc[p].enabled
        /\ q.pc # "panicked"
    BY Before DEF Proc, Phase
  <2>2. proc' = [proc EXCEPT ![p] = q] /\ records' \in Nat
    BY <1>2, Untouched DEF Reopen, Refused
  <2> HIDE DEF q
  <2> QED BY <1>0, <1>1, <1>2, <2>1, <2>2, Untouched, GoesOn
<1>3. CASE OpenOrInit(k) /\ records' = records
           /\ LET log == [file |-> current'[k],
                          bytes |-> Len(data'[current'[k]]), anchor |-> hour]
              IN proc' = [proc EXCEPT ![p].log[k] = log, ![p].pc = "open"]
  <2> DEFINE l == [file |-> current'[k], bytes |-> Len(data'[current'[k]]),
                   anchor |-> hour]
             q1 == [proc[p] EXCEPT !.log[k] = l]
             q == [q1 EXCEPT !.pc = "open"]
  <2>1. /\ data' \in Seq(Seq(Unit)) /\ Len(data) <= Len(data')
        /\ current' \in [Kind -> Nat]
        /\ \A j \in Kind : current'[j] \in 0 .. Len(data')
        /\ current'[k] # None
        /\ Len(data'[current'[k]]) \in Nat
    BY <1>3, Opened DEF Inv
  <2>2. l \in Log /\ Fit(l) /\ l.file \in 0 .. Len(data') /\ l.anchor = hour
    BY <2>1, Untouched DEF Log, Fit
  <2>3. proc' = [proc EXCEPT ![p] = q]
    BY <1>3
  <2> HIDE DEF l
  <2>4. /\ q1 \in Proc /\ q1.log = [proc[p].log EXCEPT ![k] = l]
        /\ q1.enabled = proc[p].enabled
    BY <2>2, Before DEF Proc
  <2> HIDE DEF q1
  <2>5. q \in Proc /\ q.log = q1.log /\ q.enabled = q1.enabled /\ q.pc = "open"
    BY <2>4 DEF Proc, Phase
  <2> HIDE DEF q
  <2>6. \A j \in Kind : q.log[j] = IF j = k THEN l ELSE proc[p].log[j]
    BY <2>4, <2>5, Before DEF Proc
  <2>7. \A j \in Kind : /\ q.log[j].file \in 0 .. Len(data')
                         /\ q.log[j].anchor <= hour
    <3>1. Len(data) \in Nat /\ Len(data') \in Nat
      BY <2>1, Untouched
    <3>2. ASSUME NEW j \in Kind
          PROVE  /\ proc[p].log[j].file \in 0 .. Len(data')
                 /\ proc[p].log[j].anchor <= hour
      BY <3>1, <2>1, Before
    <3>3. l.file \in 0 .. Len(data') /\ l.anchor <= hour
      BY <2>2, Untouched
    <3> HIDE DEF Inv
    <3> QED BY <3>2, <3>3, <2>6
  <2>8. \A j \in Kind : Fit(q.log[j])
    BY <1>0, <1>1, <2>2, <2>6 DEF Inv, Fileless
  <2>9. Done(q) = Kind
    BY <2>5 DEF Done
  <2> QED BY <1>0, <1>3, <2>1, <2>3, <2>5, <2>7, <2>8, <2>9, Untouched, OneProcess
<1> QED BY <1>2, <1>3 DEF Reopen

LEMMA ARecord ==
  ASSUME NEW r \in Nat
  PROVE  /\ Record(r) \in Seq(Unit) /\ Len(Record(r)) = 2
         /\ Record(r)[1] \in Unit
         /\ \A n \in 0 .. RecordSize : SubSeq(Record(r), 1, n) \in Seq(Unit)
<1>1. Record(r) \in Seq(Unit) /\ Len(Record(r)) = 2 /\ Record(r)[1] \in Unit
  BY DEF Record, Unit
<1>2. \A n \in 0 .. 2 : SubSeq(Record(r), 1, n) \in Seq(Unit)
  <2> HIDE DEF Record
  <2> QED BY <1>1
<1> QED BY <1>1, <1>2 DEF RecordSize

\* A file that grows leaves the others and their number as they were.
LEMMA Grows ==
  ASSUME Inv, NEW f \in 1 .. Len(data), NEW piece \in Seq(Unit),
         data' = [data EXCEPT ![f] = @ \o piece]
  PROVE  data' \in Seq(Seq(Unit)) /\ Len(data') = Len(data)
<1>1. data[f] \in Seq(Unit)
  BY Untouched
<1>2. data[f] \o piece \in Seq(Unit)
  BY <1>1
<1> QED BY <1>2, Untouched

LEMMA WriteStep ==
  ASSUME Inv, NEW p \in Processes, NEW k \in Kind, Write(p, k)
  PROVE  Inv'
<1> DEFINE log == proc[p].log[k]
           r == records + 1
<1>1. /\ proc[p].pc = "open" /\ proc[p].enabled /\ ~ Triggered(log)
      /\ UNCHANGED <<current, hour>> /\ records' = r
      /\ r \in Nat
  <2>1. proc[p].pc = "open" /\ proc[p].enabled /\ ~ Triggered(log)
    BY DEF Write
  <2>2. UNCHANGED <<current, hour>> /\ records' = r
    BY DEF Write
  <2>3. r \in Nat
    BY Untouched
  <2> QED BY <2>1, <2>2, <2>3
<1>2. Done(proc[p]) = Kind
  BY <1>1 DEF Done
<1>3. log.file # None
  BY <1>1, <1>2 DEF Inv, Fileless, Fit
<1>4. log \in Log /\ log.file \in 1 .. Len(data)
  BY <1>3, Before, Untouched DEF None
<1>5. CASE /\ data' = [data EXCEPT ![log.file] = @ \o Record(r)]
           /\ proc' = [proc EXCEPT ![p].log[k].bytes = @ + RecordSize]
  <2> DEFINE l == [log EXCEPT !.bytes = @ + RecordSize]
             q == [proc[p] EXCEPT !.log[k].bytes = @ + RecordSize]
  <2>1. data' \in Seq(Seq(Unit)) /\ Len(data') = Len(data)
    BY <1>1, <1>4, <1>5, ARecord, Grows
  <2>2. /\ l \in Log /\ l.file = log.file /\ Fit(l) /\ l.anchor = log.anchor
    BY <1>3, <1>4 DEF Log, Fit, RecordSize
  <2>3. proc' = [proc EXCEPT ![p] = q]
    BY <1>5
  <2>4. /\ q \in Proc /\ q.log = [proc[p].log EXCEPT ![k] = l]
        /\ q.enabled = proc[p].enabled /\ q.pc = "open"
    BY <1>1, <1>4, <2>2, Before DEF Proc, Log
  <2> HIDE DEF l, q
  <2>5. \A j \in Kind : q.log[j] = IF j = k THEN l ELSE proc[p].log[j]
    BY <2>4, Before DEF Proc
  <2>6. \A j \in Kind : /\ q.log[j].file \in 0 .. Len(data')
                         /\ q.log[j].anchor <= hour
    BY <2>1, <2>2, <2>5, Before
  <2>7. \A j \in Kind : Fit(q.log[j])
    BY <1>1, <1>2, <2>2, <2>5 DEF Inv, Fileless
  <2>8. Done(q) = Kind
    BY <2>4 DEF Done
  <2> QED BY <1>1, <2>1, <2>3, <2>4, <2>6, <2>7, <2>8, Untouched, OneProcess
<1>6. CASE /\ \E n \in 0 .. RecordSize :
                data' = [data EXCEPT ![log.file] = @ \o SubSeq(Record(r), 1, n)]
           /\ proc' = proc
  <2>1. data' \in Seq(Seq(Unit)) /\ Len(data') = Len(data)
    <3>1. PICK n \in 0 .. RecordSize :
            data' = [data EXCEPT ![log.file] = @ \o SubSeq(Record(r), 1, n)]
      BY <1>6
    <3> HIDE DEF log, r
    <3>2. SubSeq(Record(r), 1, n) \in Seq(Unit)
      BY <1>1, ARecord
    <3> QED BY <1>4, <3>1, <3>2, Grows
  <2>2. proc' = [proc EXCEPT ![p] = proc[p]]
    BY <1>6 DEF Inv, TypeInv
  <2> QED BY <1>1, <1>2, <2>1, <2>2, Before, GoesOn
<1> QED BY <1>3, <1>5, <1>6 DEF Write

LEMMA CloseStep ==
  ASSUME Inv, NEW p \in Processes, Close(p)
  PROVE  Inv'
BY StandInStep DEF Close

LEMMA CrashStep ==
  ASSUME Inv, NEW p \in Processes, Crash(p)
  PROVE  Inv'
<1>1. UNCHANGED <<current, hour>> /\ proc' = [proc EXCEPT ![p] = Down]
  BY DEF Crash
<1>2. data' \in Seq(Seq(Unit)) /\ Len(data') = Len(data) /\ records' \in Nat
  <2>1. CASE UNCHANGED <<data, records>>
    BY <2>1, Untouched
  <2>2. ASSUME NEW k \in Kind, proc[p].log[k].file # None, records' = records + 1,
               data' = [data EXCEPT ![proc[p].log[k].file] =
                          Append(@, Record(records + 1)[1])]
        PROVE  data' \in Seq(Seq(Unit)) /\ Len(data') = Len(data) /\ records' \in Nat
    <3> DEFINE f == proc[p].log[k].file
               u == Record(records + 1)[1]
    <3>1. f \in 1 .. Len(data)
      BY <2>2, Before, Untouched DEF None
    <3>2. u \in Unit
      BY Untouched, ARecord
    <3>3. data[f] \in Seq(Unit)
      BY <3>1, Untouched
    <3>4. Append(data[f], u) \in Seq(Unit)
      <4> HIDE DEF f, u
      <4> QED BY <3>2, <3>3
    <3>5. data' = [data EXCEPT ![f] = Append(data[f], u)]
      BY <2>2
    <3>6. records' \in Nat
      BY <2>2, Untouched
    <3> HIDE DEF f, u
    <3> QED BY <3>1, <3>4, <3>5, <3>6, Untouched
  <2> QED BY <2>1, <2>2 DEF Crash
<1>3. /\ Down \in Proc /\ ~ Down.enabled /\ Down.pc = "down"
      /\ \A k \in Kind : /\ Down.log[k].file \in 0 .. Len(data')
                         /\ Down.log[k].anchor <= hour
  BY <1>2, Standing
<1> QED BY <1>1, <1>2, <1>3, Untouched, OneProcess

LEMMA TickStep ==
  ASSUME Inv, Tick
  PROVE  Inv'
<1>1. /\ UNCHANGED <<data, current, proc, records>> /\ hour' = hour + 1
      /\ hour' \in Nat
  BY Untouched DEF Tick
<1>2. TypeInv' /\ Idle'
  BY <1>1 DEF Inv, TypeInv, Idle
<1>3. Anchored'
  BY <1>1, Untouched, Before DEF Anchored, Log
<1>4. Fileless'
  <2> SUFFICES ASSUME NEW p \in Processes, proc[p].enabled
               PROVE  /\ proc[p].pc # "panicked"
                      /\ \A k \in Done(proc[p]) : Fit(proc[p].log[k])'
    BY <1>1 DEF Fileless, Done
  <2>1. proc[p].pc # "panicked" /\ \A k \in Done(proc[p]) : Fit(proc[p].log[k])
    BY DEF Inv, Fileless
  <2>2. Done(proc[p]) \subseteq Kind
    <3>1. proc[p].k \in 1 .. Len(Kinds)
      BY Before, KindsFacts DEF Proc
    <3>2. \A i \in 1 .. proc[p].k - 1 : Kinds[i] \in Kind
      BY <3>1, KindsFacts
    <3> QED BY <3>2 DEF Done
  <2>3. \A k \in Kind : Triggered(proc[p].log[k]) => Triggered(proc[p].log[k])'
    BY <1>1, Before, Untouched DEF Triggered, Log
  <2>4. \A k \in Kind : Fit(proc[p].log[k]) => Fit(proc[p].log[k])'
    BY <1>1, <2>3 DEF Fit
  <2> QED BY <2>1, <2>2, <2>4
<1> QED BY <1>2, <1>3, <1>4 DEF Inv

-----------------------------------------------------------------------------

LEMMA InitInv == Init => Inv
<1> SUFFICES ASSUME Init PROVE Inv
  OBVIOUS
<1>1. Down \in Proc
  BY KindsFacts, ClosedIsALog DEF Down, Fresh, Proc, Phase
<1>2. \A p \in Processes : proc[p] = Down
  BY DEF Init
<1>3. \A k \in Kind : Down.log[k] = Closed
  BY DEF Down, Fresh
<1>4. Closed.file = 0 /\ Closed.anchor = 0
  BY DEF Closed, None
<1>5. Down.enabled = FALSE /\ Down.pc = "down"
  BY DEF Down, Fresh
<1>6. /\ data = << >> /\ Len(data) = 0 /\ data \in Seq(Seq(Unit))
      /\ hour = 1 /\ records = 0
      /\ proc \in [Processes -> Proc] /\ current \in [Kind -> Nat]
      /\ \A k \in Kind : current[k] = 0
  BY <1>1 DEF Init, None
<1>7. TypeInv
  BY <1>2, <1>3, <1>4, <1>6 DEF TypeInv
<1>8. Anchored /\ Fileless /\ Idle
  BY <1>2, <1>3, <1>4, <1>5, <1>6 DEF Anchored, Fileless, Idle
<1> QED BY <1>7, <1>8 DEF Inv

LEMMA StepInv == Inv /\ [Next]_svars => Inv'
<1> SUFFICES ASSUME Inv, [Next]_svars PROVE Inv'
  OBVIOUS
<1>1. ASSUME NEW p \in Processes,
             Start(p) \/ AcquireLock(p) \/ OpenLog(p) \/ Prune(p) \/ Hydrate(p)
      PROVE  Inv'
  BY <1>1, StartStep, AcquireLockStep, OpenLogStep, PruneStep, HydrateStep
<1>2. ASSUME NEW p \in Processes, NEW k \in Kind,
             Query(p, k) \/ Rotate(p, k) \/ Reopen(p, k) \/ Write(p, k)
      PROVE  Inv'
  BY <1>2, QueryStep, RotateStep, ReopenStep, WriteStep
<1>3. ASSUME NEW p \in Processes, Close(p) \/ Crash(p)
      PROVE  Inv'
  BY <1>3, CloseStep, CrashStep
<1>4. CASE UNCHANGED svars
  BY <1>4 DEF svars, Inv, TypeInv, Anchored, Fileless, Idle, Fit, Triggered, Done
<1> QED BY <1>1, <1>2, <1>3, <1>4, TickStep DEF Next

\* No append ever finds its log without a file: expect("file open") holds,
\* however the system calls fail, the processes die and the hours pass; they do
\* pass, for the clock is taken not to step back (Tick).
THEOREM AppendHasAFile == Spec => []NeverPanics
<1>1. Inv => NeverPanics
  BY DEF Inv, Fileless, Idle, NeverPanics
<1> QED BY <1>1, InitInv, StepInv, PTL DEF Spec

-----------------------------------------------------------------------------
(* What is read back.  These statements are about a process that has the     *)
(* store to itself: of two, the one whose open failed removes the other's    *)
(* lock files when it is dropped, may then open the same files itself, and   *)
(* leave a piece of a record where the other goes on to append.              *)

Lone == \A p, q \in Processes : p = q

Entry == [name : Nat \X Nat, inode : Nat]

FileTypes ==
  /\ written \in Seq(Nat) /\ Len(written) = Len(data)
  /\ archive \in [Kind -> SUBSET Entry]
  /\ \A k \in Kind : IsFiniteSet(archive[k])
  /\ \A k \in Kind : \A e \in archive[k] : e.inode \in 1 .. Len(data)
  /\ acked \subseteq [rec : Nat, at : Nat, whole : BOOLEAN]
  /\ \A a \in acked : a.at <= hour

\* A writer's handle is on the file that is named current.log.
Handle ==
  \A p \in Processes, k \in Kind :
    proc[p].log[k].file # None => current[k] = proc[p].log[k].file

\* The current.logs a process has read since it started, and so cut.
Cut(q) ==
  IF q.pc \in {"open"} \cup Kind THEN Kind
  ELSE IF q.pc = "hydrating" THEN {Kinds[i] : i \in 1 .. q.k - 1} ELSE {}

Even(i) == Len(data[i]) = 2 * (Len(data[i]) \div 2)

\* From then on they end with a whole record, unless a write failed half way.
Aligned ==
  \A p \in Processes : proc[p].enabled =>
    /\ proc[p].pc = "pruning" => proc[p].k = 1
    /\ \A k \in Cut(proc[p]) :
         current[k] # None /\ current[k] \notin torn => Even(current[k])

\* The j-th block of a file is the record r.
Holds(i, j, r) ==
  /\ j \in 1 .. Len(data[i]) \div 2
  /\ data[i][2 * j - 1] = Record(r)[1] /\ data[i][2 * j] = Record(r)[2]

\* Each block of a file no write failed half way in is some record.
Framed ==
  \A i \in 1 .. Len(data) \ torn : \A j \in 1 .. Len(data[i]) \div 2 :
    Holds(i, j, data[i][2 * j - 1].rec)

\* What was acknowledged is a block of a file that is still listed and was not
\* written before it.
Placed ==
  \A a \in acked : a.whole =>
    \/ a.at < hour - Retention
    \/ \E i \in LogFiles : /\ a.at <= written[i]
                           /\ \E j \in Nat : Holds(i, j, a.rec)

Stored == FileTypes /\ Handle /\ Aligned /\ Framed /\ Placed

LoneInv == Inv /\ Stored

\* unique_archive_path yields a name that is not taken: among one more
\* suffixes than there are archived files one is free.
LEMMA NameIsFree ==
  ASSUME FileTypes, NEW k \in Kind, NEW anchor \in Nat
  PROVE  /\ UniqueName(k, anchor) \in Nat \X Nat
         /\ \A e \in archive[k] : e.name # UniqueName(k, anchor)
<1> DEFINE taken == {e.name : e \in archive[k]}
           free == {n \in 0 .. Cardinality(taken) : <<anchor, n>> \notin taken}
           least == CHOOSE n \in free : \A m \in free : n <= m
<1>1. IsFiniteSet(taken)
  <2> DEFINE f == [e \in archive[k] |-> e.name]
  <2>1. f \in Surjection(archive[k], taken)
    BY DEF Surjection
  <2> QED BY <2>1, FS_Surjection DEF FileTypes
<1>2. Cardinality(taken) \in Nat
  BY <1>1, FS_CardinalityType
<1>3. free # {}
  <2> DEFINE S == 0 .. Cardinality(taken)
             f == [n \in S |-> <<anchor, n>>]
  <2> HIDE DEF taken
  <2> SUFFICES ASSUME \A n \in S : <<anchor, n>> \in taken PROVE FALSE
    OBVIOUS
  <2>1. IsFiniteSet(S) /\ Cardinality(S) = Cardinality(taken) + 1
    BY <1>2, FS_Interval
  <2>2. f \in [S -> taken]
    OBVIOUS
  <2>3. Cardinality(taken) < Cardinality(S)
    BY <1>2, <2>1
  <2>4. PICK x \in S, y \in S : x # y /\ f[x] = f[y]
    <3> HIDE DEF S, f
    <3> QED BY <1>1, <2>1, <2>2, <2>3, FS_PigeonHole
  <2> QED BY <2>4
<1>4. \E n \in free : \A m \in free : n <= m
  <2>1. free \subseteq Nat
    BY <1>2
  <2> DEFINE R == OpToRel(<, Nat)
  <2>2. \A x, y \in Nat : x < y => <<x, y>> \in R
    BY DEF OpToRel
  <2> HIDE DEF free, R
  <2>3. IsWellFoundedOn(R, Nat)
    BY NatLessThanWellFounded DEF R
  <2>4. PICK n \in free : \A m \in free : ~ (<<m, n>> \in R)
    BY <1>3, <2>1, <2>3, WFMin
  <2>5. \A m \in free : n <= m
    <3> TAKE m \in free
    <3>1. n \in Nat /\ m \in Nat
      BY <2>1
    <3>2. ~ m < n
      BY <2>2, <2>4, <3>1
    <3> QED BY <3>1, <3>2
  <2> QED BY <2>5
<1>5. least \in free
  <2> HIDE DEF free
  <2> QED BY <1>4
<1>6. UniqueName(k, anchor) = <<anchor, least>>
  BY DEF UniqueName
<1>7. least \in Nat /\ <<anchor, least>> \notin taken
  <2> HIDE DEF least, taken
  <2> QED BY <1>2, <1>5
<1>8. \A e \in archive[k] : e.name \in taken
  OBVIOUS
<1> HIDE DEF least, taken
<1> QED BY <1>6, <1>7, <1>8

\* Files that are read may lose their tail, and no block.
LEMMA TailsAreNoBlocks ==
  ASSUME data \in Seq(Seq(Unit)), NEW inodes, CutTails(inodes),
         NEW i \in 1 .. Len(data)
  PROVE  /\ Len(data'[i]) \div 2 = Len(data[i]) \div 2
         /\ \A n \in 1 .. 2 * (Len(data[i]) \div 2) : data'[i][n] = data[i][n]
         /\ i \in inodes \/ Even(i) => Len(data'[i]) = 2 * (Len(data'[i]) \div 2)
<1>1. data[i] \in Seq(Unit) /\ Len(data[i]) \in Nat
  OBVIOUS
<1>2. CASE i \notin inodes
  <2>1. data'[i] = data[i]
    BY <1>2, TailsCut
  <2> QED BY <1>1, <1>2, <2>1 DEF Even
<1>3. CASE i \in inodes
  <2> DEFINE m == 2 * (Len(data[i]) \div 2)
  <2>1. data'[i] = SubSeq(data[i], 1, m)
    BY <1>3, TailsCut DEF Truncated, Whole, RecordSize
  <2>2. m \in 0 .. Len(data[i])
    BY <1>1, WholeRecords
  <2>3. m \div 2 = Len(data[i]) \div 2
    <3> \A n \in Nat : n \div 2 \in Nat /\ (2 * n) \div 2 = n
      OBVIOUS
    <3> QED BY <1>1
  <2> HIDE DEF m
  <2>4. Len(data'[i]) = m /\ \A n \in 1 .. m : data'[i][n] = data[i][n]
    BY <1>1, <2>1, <2>2
  <2> QED BY <2>3, <2>4 DEF m
<1> QED BY <1>2, <1>3

-----------------------------------------------------------------------------
(* What a step asks of the files.                                          *)

LEMMA Listed ==
  ASSUME LoneInv
  PROVE  /\ LogFiles \subseteq 1 .. Len(data)
         /\ \A k \in Kind : \A e \in archive[k] : e.inode \in LogFiles
         /\ \A k \in Kind : current[k] # None => /\ current[k] \in LogFiles
                                                 /\ current[k] \in 1 .. Len(data)
         /\ \A i \in 1 .. Len(data) : written[i] \in Nat
         /\ \A a \in acked : a.at \in Nat /\ a.rec \in Nat /\ a.at <= hour
         /\ hour \in Nat /\ Len(data) \in Nat /\ Retention \in Nat
<1>1. \A k \in Kind : current[k] # None => current[k] \in 1 .. Len(data)
  BY Untouched DEF LoneInv, None
<1>2. \A k \in Kind : \A e \in archive[k] : e.inode \in 1 .. Len(data)
  BY DEF LoneInv, Stored, FileTypes
<1>3. \A k \in Kind : FilesOf(k) \subseteq 1 .. Len(data)
  BY <1>1, <1>2 DEF FilesOf
<1>4. \A i \in 1 .. Len(data) : written[i] \in Nat
  BY DEF LoneInv, Stored, FileTypes
<1>5. \A a \in acked : a.at \in Nat /\ a.rec \in Nat /\ a.at <= hour
  BY DEF LoneInv, Stored, FileTypes
<1>6. hour \in Nat /\ Len(data) \in Nat /\ Retention \in Nat
  BY Untouched, SightStoreConstants DEF LoneInv
<1> QED BY <1>1, <1>2, <1>3, <1>4, <1>5, <1>6 DEF LogFiles, FilesOf

\* What was acknowledged stays placed when no file is unlisted, no block is
\* lost and no file is made older.
LEMMA StillPlaced ==
  ASSUME LoneInv, NEW A, A \subseteq acked,
         hour' \in Nat, hour <= hour',
         LogFiles \subseteq LogFiles',
         \A i \in LogFiles : written'[i] \in {written[i], hour},
         \A i \in LogFiles : \A j, r \in Nat : Holds(i, j, r) => Holds(i, j, r)'
  PROVE  \A a \in A : a.whole =>
           \/ a.at < hour' - Retention
           \/ \E i \in LogFiles' : /\ a.at <= written'[i]
                                   /\ \E j \in Nat : Holds(i, j, a.rec)'
<1> SUFFICES ASSUME NEW a \in A, a.whole, ~ (a.at < hour' - Retention)
             PROVE  \E i \in LogFiles' : /\ a.at <= written'[i]
                                         /\ \E j \in Nat : Holds(i, j, a.rec)'
  OBVIOUS
<1>1. a \in acked /\ a.at \in Nat /\ a.rec \in Nat /\ a.at <= hour
  BY Listed
<1>2. ~ (a.at < hour - Retention)
  BY <1>1, Listed
<1>3. PICK i \in LogFiles : /\ a.at <= written[i]
                            /\ \E j \in Nat : Holds(i, j, a.rec)
  BY <1>1, <1>2 DEF LoneInv, Stored, Placed
<1>4. a.at <= written'[i]
  BY <1>1, <1>3
<1>5. PICK j \in Nat : Holds(i, j, a.rec)
  BY <1>3
<1>6. Holds(i, j, a.rec)'
  BY <1>1, <1>5
<1> QED BY <1>3, <1>4, <1>6

\* A step that leaves the files alone and reads none of them.
LEMMA CalmStep ==
  ASSUME Lone, LoneInv, NEW p \in Processes, NEW q,
         proc' = [proc EXCEPT ![p] = q],
         UNCHANGED <<data, current, archive, torn, written, hour, acked>>,
         \A k \in Kind : \/ q.log[k].file = None
                         \/ q.log[k].file = proc[p].log[k].file,
         q.enabled => /\ q.pc # "pruning"
                      /\ Cut(q) # {} => /\ proc[p].enabled
                                        /\ Cut(q) \subseteq Cut(proc[p])
  PROVE  Stored'
<1>1. \A r \in Processes : r = p /\ proc'[r] = q
  BY DEF Lone, LoneInv, Inv, TypeInv
<1>2. FileTypes' /\ Framed'
  BY DEF LoneInv, Stored, FileTypes, Framed, Holds
<1>3. Placed'
  BY DEF LoneInv, Stored, Placed, LogFiles, FilesOf, Holds
<1>4. Handle'
  BY <1>1 DEF LoneInv, Stored, Handle
<1>5. Aligned'
  <2> SUFFICES ASSUME q.enabled, NEW k \in Cut(q),
                      current[k] # None, current[k] \notin torn
               PROVE  Even(current[k])
    BY <1>1 DEF Aligned, Even, Cut
  <2> QED BY DEF LoneInv, Stored, Aligned
<1> QED BY <1>2, <1>3, <1>4, <1>5 DEF Stored

LEMMA StandsAside ==
  ASSUME Lone, LoneInv, NEW p \in Processes, NEW q \in {Down, StandIn},
         proc' = [proc EXCEPT ![p] = q],
         UNCHANGED <<data, current, archive, torn, written, hour, acked>>
  PROVE  Stored'
<1>1. ~ q.enabled /\ \A k \in Kind : q.log[k].file = None
  BY Standing DEF LoneInv, Closed
<1> QED BY <1>1, CalmStep

LEMMA LoneStart ==
  ASSUME Lone, LoneInv, NEW p \in Processes, Start(p)
  PROVE  Stored'
<1> DEFINE q == Fresh("locking", TRUE)
<1>1. q.pc = "locking" /\ \A k \in Kind : q.log[k].file = None
  BY DEF Fresh, Closed
<1>2. Cut(q) = {}
  BY <1>1, KindsFacts DEF Cut, Phase
<1>3. proc' = [proc EXCEPT ![p] = q]
  BY DEF Start
<1>4. UNCHANGED <<data, current, archive, torn, written, hour, acked>>
  BY DEF Start
<1> HIDE DEF q
<1> QED BY <1>1, <1>2, <1>3, <1>4, CalmStep

LEMMA LoneAcquireLock ==
  ASSUME Lone, LoneInv, NEW p \in Processes, AcquireLock(p)
  PROVE  Stored'
<1>0. UNCHANGED <<data, current, archive, torn, written, hour, acked>>
  BY DEF AcquireLock
<1>1. CASE proc' = [proc EXCEPT ![p] = StandIn]
  BY <1>0, <1>1, StandsAside
<1>2. CASE proc' = [proc EXCEPT ![p].pc = "opening"]
  <2> DEFINE q == [proc[p] EXCEPT !.pc = "opening"]
  <2>1. q.pc = "opening" /\ q.log = proc[p].log
    BY Before DEF LoneInv, Proc
  <2>2. Cut(q) = {}
    BY <2>1, KindsFacts DEF Cut, Phase
  <2>3. proc' = [proc EXCEPT ![p] = q]
    BY <1>2
  <2> HIDE DEF q
  <2> QED BY <1>0, <2>1, <2>2, <2>3, CalmStep
<1> QED BY <1>1, <1>2 DEF AcquireLock

LEMMA LoneClose ==
  ASSUME Lone, LoneInv, NEW p \in Processes, Close(p)
  PROVE  Stored'
<1>1. UNCHANGED <<data, current, archive, torn, written, hour, acked>>
  BY DEF Close
<1>2. proc' = [proc EXCEPT ![p] = Down]
  BY DEF Close
<1> QED BY <1>1, <1>2, StandsAside

-----------------------------------------------------------------------------
(* Opening: a new file has no block, and whoever opens an old one finds it   *)
(* as it was.                                                              *)

LEMMA OpenedFiles ==
  ASSUME LoneInv, NEW k \in Kind, OpenOrInit(k),
         UNCHANGED <<archive, torn, hour, acked>>
  PROVE  /\ FileTypes' /\ Framed' /\ Placed'
         /\ \A j \in Kind : j # k => current'[j] = current[j]
         /\ current[k] # None => current'[k] = current[k]
         /\ \A j \in Kind : current[j] # None => data'[current[j]] = data[current[j]]
         /\ current[k] = None => Even(current[k])'
<1>0. /\ data \in Seq(Seq(Unit)) /\ Len(data) \in Nat
      /\ written \in Seq(Nat) /\ Len(written) = Len(data)
      /\ current \in [Kind -> Nat] /\ hour \in Nat
  BY Untouched DEF LoneInv, Stored, FileTypes
<1>1. CASE current[k] # None
  <2>1. UNCHANGED <<data, current, written>>
    BY <1>1 DEF OpenOrInit
  <2>2. FileTypes' /\ Framed'
    BY <2>1 DEF LoneInv, Stored, FileTypes, Framed, Holds
  <2>3. Placed'
    BY <2>1 DEF LoneInv, Stored, Placed, Holds, LogFiles, FilesOf
  <2> QED BY <1>1, <2>1, <2>2, <2>3
<1>2. CASE current[k] = None
  <2>1. /\ data' = Append(data, << >>) /\ written' = Append(written, hour)
        /\ current' = [current EXCEPT ![k] = Len(data) + 1]
    BY <1>2 DEF OpenOrInit
  <2>2. /\ Len(data') = Len(data) + 1 /\ data'[Len(data) + 1] = << >>
        /\ \A i \in 1 .. Len(data) : data'[i] = data[i]
    <3> << >> \in Seq(Unit)
      OBVIOUS
    <3> QED BY <1>0, <2>1
  <2>3. /\ written' \in Seq(Nat) /\ Len(written') = Len(data) + 1
        /\ \A i \in 1 .. Len(data) : written'[i] = written[i]
    BY <1>0, <2>1
  <2>4. \A j \in Kind : current'[j] = IF j = k THEN Len(data) + 1 ELSE current[j]
    BY <1>0, <2>1
  <2>5. FileTypes'
    <3>1. \A j \in Kind : \A e \in archive[j] : e.inode \in 1 .. Len(data')
      BY <1>0, <2>2 DEF LoneInv, Stored, FileTypes
    <3> QED BY <2>2, <2>3, <3>1 DEF LoneInv, Stored, FileTypes
  <2>6. Framed'
    <3> SUFFICES ASSUME NEW i \in 1 .. Len(data') \ torn,
                        NEW j \in 1 .. Len(data'[i]) \div 2
                 PROVE  Holds(i, j, data[i][2 * j - 1].rec)'
      BY DEF Framed
    <3>1. i # Len(data) + 1
      <4>1. Len(<< >>) \div 2 = 0
        OBVIOUS
      <4> QED BY <2>2, <4>1
    <3>2. i \in 1 .. Len(data) /\ data'[i] = data[i]
      BY <1>0, <2>2, <3>1
    <3> QED BY <3>2 DEF LoneInv, Stored, Framed, Holds
  <2>7. LogFiles \subseteq LogFiles'
    <3>1. \A j \in Kind : FilesOf(j) \subseteq FilesOf(j)'
      BY <1>2, <2>4 DEF FilesOf
    <3> QED BY <3>1 DEF LogFiles
  <2>8. Placed'
    <3>1. \A i \in LogFiles : data'[i] = data[i] /\ written'[i] = written[i]
      BY <2>2, <2>3, Listed
    <3>2. \A i \in LogFiles : \A j, r \in Nat : Holds(i, j, r) => Holds(i, j, r)'
      BY <3>1 DEF Holds
    <3>3. \A i \in LogFiles : written'[i] \in {written[i], hour}
      BY <3>1
    <3>4. hour' \in Nat /\ hour <= hour' /\ acked' \subseteq acked
      BY <1>0
    <3> QED BY <2>7, <3>2, <3>3, <3>4, StillPlaced DEF Placed
  <2>9. Even(current[k])'
    <3>1. Len(<< >>) = 2 * (Len(<< >>) \div 2)
      OBVIOUS
    <3> QED BY <2>2, <2>4, <3>1 DEF Even
  <2>10. \A j \in Kind : current[j] # None => data'[current[j]] = data[current[j]]
    BY <2>2, Listed
  <2> QED BY <1>2, <2>4, <2>5, <2>6, <2>8, <2>9, <2>10
<1> QED BY <1>1, <1>2

LEMMA LoneOpenLog ==
  ASSUME Lone, LoneInv, NEW p \in Processes, OpenLog(p)
  PROVE  Stored'
<1>0. UNCHANGED <<archive, torn, hour, acked>>
  BY DEF OpenLog
<1>1. CASE /\ proc' = [proc EXCEPT ![p] = StandIn]
           /\ UNCHANGED <<data, current, written>>
  BY <1>0, <1>1, StandsAside
<1>2. CASE ~ (/\ proc' = [proc EXCEPT ![p] = StandIn]
              /\ UNCHANGED <<data, current, written>>)
  <2> DEFINE k == Kinds[proc[p].k]
             log == [file |-> current'[k], bytes |-> Len(data'[current'[k]]),
                     anchor |-> hour]
             last == proc[p].k = Len(Kinds)
             q == [proc[p] EXCEPT !.log[k] = log,
                                  !.k = IF last THEN 1 ELSE @ + 1,
                                  !.pc = IF last THEN "pruning" ELSE "locking"]
             q1 == [proc[p] EXCEPT !.log[k] = log]
             q2 == [q1 EXCEPT !.k = IF last THEN 1 ELSE @ + 1]
             q3 == [q2 EXCEPT !.pc = IF last THEN "pruning" ELSE "locking"]
  <2>1. k \in Kind /\ OpenOrInit(k)
    BY <1>2, Before, KindsFacts DEF OpenLog, LoneInv, Proc
  <2>2. proc' = [proc EXCEPT ![p] = q3]
    <3>1. proc' = [proc EXCEPT ![p] = q]
      BY <1>2 DEF OpenLog
    <3>2. q = q3
      OBVIOUS
    <3> QED BY <3>1, <3>2
  <2>3. q1 = [proc[p] EXCEPT !.log = [@ EXCEPT ![k] = log]]
    OBVIOUS
  <2> HIDE DEF log, last, k
  <2>4. /\ \A j \in Kind : q1.log[j] = IF j = k THEN log ELSE proc[p].log[j]
    BY <2>1, <2>3, Before DEF LoneInv, Proc
  <2>5. /\ q3.log = q1.log
        /\ q3.pc = (IF last THEN "pruning" ELSE "locking")
        /\ q3.k = (IF last THEN 1 ELSE proc[p].k + 1)
    BY Before DEF LoneInv, Proc
  <2> HIDE DEF q1, q2, q3
  <2>6. \A r \in Processes : r = p /\ proc'[r] = q3
    BY <2>2 DEF Lone, LoneInv, Inv, TypeInv
  <2>7. Cut(q3) = {}
    <3>1. q3.pc \in {"pruning", "locking"}
      BY <2>5
    <3> QED BY <3>1, KindsFacts DEF Cut, Phase
  <2>8. Aligned'
    BY <2>5, <2>6, <2>7 DEF Aligned, Cut
  <2>9. \A j \in Kind : j # k => current'[j] = current[j]
    BY <1>0, <2>1, OpenedFiles
  <2>10. Handle'
    BY <2>4, <2>5, <2>6, <2>9 DEF LoneInv, Stored, Handle, log
  <2>11. FileTypes' /\ Framed' /\ Placed'
    BY <1>0, <2>1, OpenedFiles
  <2> QED BY <2>8, <2>10, <2>11 DEF Stored
<1> QED BY <1>1, <1>2

LEMMA LoneReopen ==
  ASSUME Lone, LoneInv, NEW p \in Processes, NEW k \in Kind, Reopen(p, k)
  PROVE  Stored'
<1>0. /\ proc[p].pc = k /\ UNCHANGED <<archive, torn, hour, acked>>
      /\ proc[p].enabled
  BY KindsFacts DEF Reopen, Refused, LoneInv, Inv, Idle, Phase
<1>1. Cut(proc[p]) = Kind
  BY <1>0 DEF Cut
<1>2. CASE proc' = [proc EXCEPT ![p].pc = "open"] /\ UNCHANGED <<data, current, written>>
  <2> DEFINE q == [proc[p] EXCEPT !.pc = "open"]
  <2>1. q.log = proc[p].log /\ q.pc = "open"
    BY Before DEF LoneInv, Proc
  <2>2. Cut(q) = Kind
    BY <2>1 DEF Cut
  <2>3. proc' = [proc EXCEPT ![p] = q]
    BY <1>2
  <2> HIDE DEF q
  <2> QED BY <1>0, <1>1, <1>2, <2>1, <2>2, <2>3, CalmStep
<1>3. CASE OpenOrInit(k)
           /\ LET log == [file |-> current'[k],
                          bytes |-> Len(data'[current'[k]]), anchor |-> hour]
              IN proc' = [proc EXCEPT ![p].log[k] = log, ![p].pc = "open"]
  <2> DEFINE log == [file |-> current'[k], bytes |-> Len(data'[current'[k]]),
                     anchor |-> hour]
             q1 == [proc[p] EXCEPT !.log[k] = log]
             q2 == [q1 EXCEPT !.pc = "open"]
  <2>1. proc' = [proc EXCEPT ![p] = q2]
    BY <1>3
  <2>2. q1 = [proc[p] EXCEPT !.log = [@ EXCEPT ![k] = log]]
    OBVIOUS
  <2> HIDE DEF log
  <2>3. /\ \A j \in Kind : q1.log[j] = IF j = k THEN log ELSE proc[p].log[j]
    BY <2>2, Before DEF LoneInv, Proc
  <2>4. q2.log = q1.log /\ q2.pc = "open"
    BY Before DEF LoneInv, Proc
  <2> HIDE DEF q1, q2
  <2>5. \A r \in Processes : r = p /\ proc'[r] = q2
    BY <2>1 DEF Lone, LoneInv, Inv, TypeInv
  <2>6. /\ FileTypes' /\ Framed' /\ Placed'
        /\ \A j \in Kind : j # k => current'[j] = current[j]
        /\ current[k] # None => current'[k] = current[k]
        /\ \A j \in Kind : current[j] # None => data'[current[j]] = data[current[j]]
        /\ current[k] = None => Even(current[k])'
    BY <1>0, <1>3, OpenedFiles
  <2>7. Handle'
    BY <2>3, <2>4, <2>5, <2>6 DEF LoneInv, Stored, Handle, log
  <2>8. Cut(q2) = Kind
    BY <2>4 DEF Cut
  <2>9. Aligned'
    <3> SUFFICES ASSUME NEW j \in Kind, current'[j] # None, current'[j] \notin torn
                 PROVE  Even(current[j])'
      BY <1>0, <2>4, <2>5, <2>8 DEF Aligned, Cut
    <3>1. CASE j = k /\ current[k] = None
      BY <2>6, <3>1
    <3>2. CASE ~ (j = k /\ current[k] = None)
      <4>1. current'[j] = current[j] /\ data'[current[j]] = data[current[j]]
        BY <2>6, <3>2
      <4>2. Even(current[j])
        BY <1>0, <1>1, <4>1 DEF LoneInv, Stored, Aligned
      <4> QED BY <4>1, <4>2 DEF Even
    <3> QED BY <3>1, <3>2
  <2> QED BY <2>6, <2>7, <2>9 DEF Stored
<1> QED BY <1>2, <1>3 DEF Reopen

-----------------------------------------------------------------------------
(* Reading, pruning, renaming, and the clock.                              *)

LEMMA CutFiles ==
  ASSUME LoneInv, NEW inodes, CutTails(inodes),
         UNCHANGED <<current, archive, torn, hour, acked>>
  PROVE  /\ FileTypes' /\ Framed' /\ Placed'
         /\ \A i \in 1 .. Len(data) : i \in inodes \/ Even(i) => Even(i)'
<1>0. /\ data \in Seq(Seq(Unit)) /\ Len(data) \in Nat /\ hour \in Nat
      /\ written \in Seq(Nat) /\ Len(written) = Len(data)
  BY Untouched DEF LoneInv, Stored, FileTypes
<1>1. Len(data') = Len(data)
  BY <1>0, TailsCut
<1>2. /\ written' \in Seq(Nat) /\ Len(written') = Len(data)
      /\ \A i \in 1 .. Len(data) : written'[i] \in {written[i], hour}
  <2>1. DOMAIN written = 1 .. Len(data) /\ written \in [1 .. Len(data) -> Nat]
    BY <1>0
  <2>2. written' \in [1 .. Len(data) -> Nat]
    BY <1>0, <2>1 DEF CutTails
  <2>3. \A i \in 1 .. Len(data) : written'[i] \in {written[i], hour}
    BY <1>0, <2>1 DEF CutTails
  <2> QED BY <1>0, <2>2, <2>3, IsASequence
<1>3. FileTypes'
  BY <1>1, <1>2 DEF LoneInv, Stored, FileTypes
<1>4. ASSUME NEW i \in 1 .. Len(data), NEW j \in 1 .. Len(data[i]) \div 2
      PROVE  /\ j \in 1 .. Len(data'[i]) \div 2 /\ j \in Nat
             /\ data'[i][2 * j - 1] = data[i][2 * j - 1]
             /\ data'[i][2 * j] = data[i][2 * j]
  <2>1. /\ Len(data'[i]) \div 2 = Len(data[i]) \div 2
        /\ \A n \in 1 .. 2 * (Len(data[i]) \div 2) : data'[i][n] = data[i][n]
    BY <1>0, TailsAreNoBlocks
  <2> DEFINE m == Len(data[i]) \div 2
  <2>2. m \in Nat
    <3>1. Len(data[i]) \in Nat
      BY <1>0
    <3>2. \A n \in Nat : n \div 2 \in Nat
      OBVIOUS
    <3> QED BY <3>1, <3>2
  <2>3. j \in 1 .. m
    OBVIOUS
  <2> HIDE DEF m
  <2>4. j \in Nat /\ 2 * j - 1 \in 1 .. 2 * m /\ 2 * j \in 1 .. 2 * m
    BY <2>2, <2>3
  <2> QED BY <2>1, <2>3, <2>4 DEF m
<1>5. Framed'
  <2> SUFFICES ASSUME NEW i \in 1 .. Len(data') \ torn,
                      NEW j \in 1 .. Len(data'[i]) \div 2
               PROVE  Holds(i, j, data[i][2 * j - 1].rec)'
    BY DEF Framed, CutTails
  <2>1. i \in 1 .. Len(data) \ torn
    BY <1>1
  <2>2. j \in 1 .. Len(data[i]) \div 2
    BY <1>0, <2>1, TailsAreNoBlocks
  <2> QED BY <1>4, <2>1, <2>2 DEF LoneInv, Stored, Framed, Holds
<1>6. Placed'
  <2>1. LogFiles' = LogFiles
    BY DEF LogFiles, FilesOf
  <2>2. \A i \in LogFiles : \A j, r \in Nat : Holds(i, j, r) => Holds(i, j, r)'
    BY <1>4, Listed DEF Holds
  <2>3. \A i \in LogFiles : written'[i] \in {written[i], hour}
    BY <1>2, Listed
  <2> QED BY <1>0, <2>1, <2>2, <2>3, StillPlaced DEF Placed
<1>7. \A i \in 1 .. Len(data) : i \in inodes \/ Even(i) => Even(i)'
  BY <1>0, TailsAreNoBlocks DEF Even
<1> QED BY <1>3, <1>5, <1>6, <1>7

LEMMA LoneHydrate ==
  ASSUME Lone, LoneInv, NEW p \in Processes, Hydrate(p)
  PROVE  Stored'
<1> DEFINE k == Kinds[proc[p].k]
           last == proc[p].k = Len(Kinds)
           q1 == [proc[p] EXCEPT !.k = IF last THEN 1 ELSE @ + 1]
           q == [q1 EXCEPT !.pc = IF last THEN "open" ELSE @]
<1>0. /\ proc[p].pc = "hydrating" /\ proc[p].enabled
      /\ UNCHANGED <<current, archive, torn, hour, acked>>
      /\ CutTails({current[k]} \ {None})
  BY DEF Hydrate, LoneInv, Inv, Idle
<1>1. proc' = [proc EXCEPT ![p] = q]
  BY DEF Hydrate
<1>2. proc[p].k \in 1 .. Len(Kinds) /\ k \in Kind
  BY Before, KindsFacts DEF LoneInv, Proc
<1>3. /\ q.log = proc[p].log
      /\ q.pc = (IF last THEN "open" ELSE "hydrating")
      /\ q.k = (IF last THEN 1 ELSE proc[p].k + 1)
  BY <1>0, Before DEF LoneInv, Proc
<1> HIDE DEF q, q1
<1>4. \A r \in Processes : r = p /\ proc'[r] = q
  BY <1>1 DEF Lone, LoneInv, Inv, TypeInv
<1>5. \A j \in Cut(q) : j \in Kind /\ (j \in Cut(proc[p]) \/ j = k)
  <2>1. CASE last
    <3>1. Cut(q) = Kind
      BY <1>3, <2>1 DEF Cut
    <3>2. Cut(proc[p]) = {Kinds[i] : i \in 1 .. proc[p].k - 1}
      BY <1>0, KindsFacts DEF Cut, Phase
    <3> QED BY <1>2, <2>1, <3>1, <3>2, KindsFacts
  <2>2. CASE ~ last
    <3>1. Cut(q) = {Kinds[i] : i \in 1 .. proc[p].k}
      BY <1>2, <1>3, <2>2, KindsFacts DEF Cut, Phase
    <3>2. Cut(proc[p]) = {Kinds[i] : i \in 1 .. proc[p].k - 1}
      BY <1>0, KindsFacts DEF Cut, Phase
    <3> QED BY <1>2, <3>1, <3>2, KindsFacts
  <2> QED BY <2>1, <2>2
<1>6. Aligned'
  <2> SUFFICES ASSUME NEW j \in Cut(q), current[j] # None, current[j] \notin torn
               PROVE  Even(current[j])'
    BY <1>0, <1>3, <1>4 DEF Aligned, Cut
  <2>1. current[j] \in 1 .. Len(data)
    BY <1>5, Listed
  <2>2. current[j] \in {current[k]} \ {None} \/ Even(current[j])
    BY <1>0, <1>5 DEF LoneInv, Stored, Aligned
  <2> HIDE DEF k
  <2>3. Even(current[j])' <=> Len(data'[current[j]]) = 2 * (Len(data'[current[j]]) \div 2)
    BY <1>0 DEF Even
  <2>4. \A i \in 1 .. Len(data) :
          i \in {current[k]} \ {None} \/ Even(i) => Even(i)'
    BY <1>0, CutFiles
  <2> QED BY <2>1, <2>2, <2>3, <2>4 DEF Even
<1>7. Handle'
  BY <1>0, <1>3, <1>4 DEF LoneInv, Stored, Handle
<1>8. FileTypes' /\ Framed' /\ Placed'
  <2> HIDE DEF k
  <2> QED BY <1>0, CutFiles
<1> QED BY <1>6, <1>7, <1>8 DEF Stored

LEMMA LoneQuery ==
  ASSUME Lone, LoneInv, NEW p \in Processes, NEW k \in Kind, Query(p, k)
  PROVE  Stored'
<1>0. UNCHANGED <<current, archive, torn, hour, acked, proc>>
  BY DEF Query
<1>1. PICK inodes : CutTails(inodes)
  BY DEF Query
<1>2. /\ FileTypes' /\ Framed' /\ Placed'
      /\ \A i \in 1 .. Len(data) : Even(i) => Even(i)'
  BY <1>0, <1>1, CutFiles
<1>3. Handle'
  BY <1>0 DEF LoneInv, Stored, Handle
<1>4. Aligned'
  <2> SUFFICES ASSUME NEW r \in Processes, proc[r].enabled, NEW j \in Cut(proc[r]),
                      current[j] # None, current[j] \notin torn
               PROVE  Even(current[j])'
    BY <1>0 DEF LoneInv, Stored, Aligned, Cut, Even
  <2>0. j \in Kind
    <3>1. proc[r].k \in 1 .. Len(Kinds)
      BY Before, KindsFacts DEF LoneInv, Proc
    <3>2. \A i \in 1 .. proc[r].k - 1 : Kinds[i] \in Kind
      BY <3>1, KindsFacts
    <3> QED BY <3>2 DEF Cut
  <2>1. current[j] \in 1 .. Len(data) /\ Even(current[j])
    BY <2>0, Listed DEF LoneInv, Stored, Aligned
  <2> QED BY <1>0, <1>2, <2>1 DEF Even
<1> QED BY <1>2, <1>3, <1>4 DEF Stored

LEMMA LonePrune ==
  ASSUME Lone, LoneInv, NEW p \in Processes, Prune(p)
  PROVE  Stored'
<1> DEFINE q == [proc[p] EXCEPT !.pc = "hydrating"]
<1>0. /\ proc[p].pc = "pruning" /\ proc[p].enabled
      /\ UNCHANGED <<data, current, torn, hour, acked, written>>
  BY DEF Prune, LoneInv, Inv, Idle
<1>1. proc' = [proc EXCEPT ![p] = q]
  BY DEF Prune
<1>2. q.log = proc[p].log /\ q.pc = "hydrating" /\ q.k = proc[p].k
  BY Before DEF LoneInv, Proc
<1> HIDE DEF q
<1>3. \A r \in Processes : r = p /\ proc'[r] = q
  BY <1>1 DEF Lone, LoneInv, Inv, TypeInv
<1>4. \A k \in Kind : archive'[k] =
        {e \in archive[k] : written[e.inode] >= hour - Retention}
  BY DEF Prune
<1>5. FileTypes'
  <2>1. archive' \in [Kind -> SUBSET Entry]
    BY DEF Prune, LoneInv, Stored, FileTypes
  <2>2. \A k \in Kind : archive'[k] \subseteq archive[k] /\ IsFiniteSet(archive[k])
    BY <1>4 DEF LoneInv, Stored, FileTypes
  <2>3. \A k \in Kind : IsFiniteSet(archive'[k])
    BY <2>2, FS_Subset
  <2> QED BY <1>0, <2>1, <2>2, <2>3 DEF LoneInv, Stored, FileTypes
<1>6. Framed'
  BY <1>0 DEF LoneInv, Stored, Framed, Holds
<1>7. Placed'
  <2> SUFFICES ASSUME NEW a \in acked, a.whole, ~ (a.at < hour - Retention)
               PROVE  \E i \in LogFiles' : /\ a.at <= written[i]
                                           /\ \E j \in Nat : Holds(i, j, a.rec)'
    BY <1>0 DEF Placed
  <2>1. PICK i \in LogFiles : /\ a.at <= written[i]
                              /\ \E j \in Nat : Holds(i, j, a.rec)
    BY DEF LoneInv, Stored, Placed
  <2>2. written[i] >= hour - Retention
    BY <2>1, Listed
  <2>3. i \in LogFiles'
    BY <1>0, <1>4, <2>2 DEF LogFiles, FilesOf
  <2> QED BY <1>0, <2>1, <2>3 DEF Holds
<1>8. Cut(q) = {}
  <2>1. q.k = 1
    BY <1>0, <1>2 DEF LoneInv, Stored, Aligned
  <2> QED BY <1>2, <2>1, KindsFacts DEF Cut, Phase
<1>9. Handle' /\ Aligned'
  BY <1>0, <1>2, <1>3, <1>8 DEF LoneInv, Stored, Handle, Aligned, Cut
<1> QED BY <1>5, <1>6, <1>7, <1>9 DEF Stored

LEMMA LoneTick ==
  ASSUME Lone, LoneInv, Tick
  PROVE  Stored'
<1>1. /\ UNCHANGED <<data, current, archive, proc, torn, acked, written>>
      /\ hour' = hour + 1
  BY DEF Tick
<1>2. FileTypes'
  <2>1. \A a \in acked : a.at <= hour'
    BY <1>1, Listed
  <2> QED BY <1>1, <2>1 DEF LoneInv, Stored, FileTypes
<1>3. Handle' /\ Framed' /\ Aligned'
  BY <1>1 DEF LoneInv, Stored, Handle, Framed, Aligned, Holds, Even
<1>4. Placed'
  <2>1. LogFiles' = LogFiles
    BY <1>1 DEF LogFiles, FilesOf
  <2>2. \A i \in LogFiles : \A j, r \in Nat : Holds(i, j, r) => Holds(i, j, r)'
    BY <1>1 DEF Holds
  <2>3. \A i \in LogFiles : written'[i] \in {written[i], hour}
    BY <1>1
  <2>4. hour' \in Nat /\ hour <= hour' /\ acked' \subseteq acked
    BY <1>1, Listed
  <2> QED BY <2>1, <2>2, <2>3, <2>4, StillPlaced DEF Placed
<1> QED BY <1>2, <1>3, <1>4 DEF Stored

-----------------------------------------------------------------------------
(* Rotation: the file goes from current.log to a name of the archive that    *)
(* nothing had.                                                            *)

LEMMA LoneRotate ==
  ASSUME Lone, LoneInv, NEW p \in Processes, NEW k \in Kind, Rotate(p, k)
  PROVE  Stored'
<1> DEFINE log == proc[p].log[k]
<1>0. /\ proc[p].pc = "open" /\ proc[p].enabled
      /\ UNCHANGED <<data, torn, hour, written>>
  BY DEF Rotate
<1>1. Cut(proc[p]) = Kind
  BY <1>0 DEF Cut
<1>2. CASE /\ proc' = [proc EXCEPT ![p].log[k].file = None]
           /\ UNCHANGED <<archive, current, acked>>
  <2> DEFINE q == [proc[p] EXCEPT !.log[k].file = None]
  <2>1. q.pc = "open" /\ proc' = [proc EXCEPT ![p] = q]
    BY <1>0, <1>2, Before DEF LoneInv, Proc
  <2>2. \A j \in Kind : q.log[j].file = None \/ q.log[j].file = proc[p].log[j].file
    BY Before DEF LoneInv, Proc, Log
  <2>3. Cut(q) = Kind
    BY <2>1 DEF Cut
  <2>4. UNCHANGED <<data, current, archive, torn, written, hour, acked>>
    BY <1>0, <1>2
  <2> HIDE DEF q, log
  <2>5. q.pc # "pruning" /\ Cut(q) \subseteq Cut(proc[p])
    BY <1>1, <2>1, <2>3
  <2> QED BY <1>0, <2>1, <2>2, <2>4, <2>5, CalmStep
<1>3. CASE /\ current[k] # None
           /\ LET name == UniqueName(k, log.anchor)
              IN archive' = [archive EXCEPT ![k] =
                   {e \in @ : e.name # name}
                     \cup {[name |-> name, inode |-> current[k]]}]
           /\ current' = [current EXCEPT ![k] = None]
           /\ proc' = [proc EXCEPT ![p].log[k] = Renamed(log), ![p].pc = k]
           /\ UNCHANGED acked
  <2> DEFINE name == UniqueName(k, log.anchor)
             q1 == [proc[p] EXCEPT !.log[k] = Renamed(log)]
             q2 == [q1 EXCEPT !.pc = k]
             new == [name |-> name, inode |-> current[k]]
  <2>0. log.anchor \in Nat
    BY Before DEF LoneInv, Log
  <2>1. name \in Nat \X Nat /\ \A e \in archive[k] : e.name # name
    <3> HIDE DEF log
    <3> QED BY <2>0, NameIsFree DEF LoneInv, Stored
  <2>2. current[k] \in 1 .. Len(data)
    BY <1>3, Listed
  <2>3. new \in Entry
    <3> HIDE DEF name
    <3> QED BY <2>1, <2>2, Listed DEF Entry
  <2>4. \A j \in Kind :
          archive'[j] = IF j = k THEN archive[k] \cup {new} ELSE archive[j]
    <3> HIDE DEF new
    <3>1. archive' = [archive EXCEPT ![k] = {e \in @ : e.name # name} \cup {new}]
      BY <1>3 DEF new
    <3> HIDE DEF name
    <3> QED BY <2>1, <3>1 DEF LoneInv, Stored, FileTypes
  <2>5. archive' \in [Kind -> SUBSET Entry]
    <3>1. archive' = [archive EXCEPT ![k] = {e \in @ : e.name # name} \cup {new}]
      BY <1>3
    <3> HIDE DEF name, new
    <3> QED BY <2>3, <3>1 DEF LoneInv, Stored, FileTypes
  <2>6. \A j \in Kind : current'[j] = IF j = k THEN None ELSE current[j]
    BY <1>3, Untouched DEF LoneInv
  <2>7. \A j \in Kind : q1.log[j] = IF j = k THEN Renamed(log) ELSE proc[p].log[j]
    BY Before DEF LoneInv, Proc
  <2>8. q2.log = q1.log /\ q2.pc = k
    BY Before DEF LoneInv, Proc
  <2>9. Renamed(log).file = None
    BY Before DEF LoneInv, Renamed, Log
  <2>10. proc' = [proc EXCEPT ![p] = q2]
    BY <1>3
  <2> HIDE DEF q1, q2, new, name, log
  <2>11. \A r \in Processes : r = p /\ proc'[r] = q2
    BY <2>10 DEF Lone, LoneInv, Inv, TypeInv
  <2>12. FileTypes'
    <3>1. \A j \in Kind : IsFiniteSet(archive'[j])
      <4>1. \A j \in Kind : IsFiniteSet(archive[j])
        BY DEF LoneInv, Stored, FileTypes
      <4>2. IsFiniteSet(archive[k] \cup {new})
        BY <4>1, FS_AddElement
      <4> QED BY <2>4, <4>1, <4>2
    <3>2. new.inode \in 1 .. Len(data)
      BY <2>2 DEF new
    <3>3. \A j \in Kind : \A e \in archive'[j] : e.inode \in 1 .. Len(data)
      BY <2>4, <3>2 DEF LoneInv, Stored, FileTypes
    <3> QED BY <1>0, <1>3, <2>5, <3>1, <3>3 DEF LoneInv, Stored, FileTypes
  <2>13. Framed'
    BY <1>0 DEF LoneInv, Stored, Framed, Holds
  <2>14. LogFiles \subseteq LogFiles'
    <3>1. new.inode = current[k]
      BY DEF new
    <3>2. \A j \in Kind : FilesOf(j) \subseteq FilesOf(j)'
      BY <2>4, <2>6, <3>1 DEF FilesOf
    <3> QED BY <3>2 DEF LogFiles
  <2>15. Placed'
    <3>1. \A i \in LogFiles : written'[i] \in {written[i], hour}
      BY <1>0
    <3>2. \A i \in LogFiles : \A j, r \in Nat : Holds(i, j, r) => Holds(i, j, r)'
      BY <1>0 DEF Holds
    <3>3. hour' \in Nat /\ hour <= hour' /\ acked' \subseteq acked
      BY <1>0, <1>3, Listed
    <3> QED BY <2>14, <3>1, <3>2, <3>3, StillPlaced DEF Placed
  <2>16. Handle'
    BY <2>6, <2>7, <2>8, <2>9, <2>11 DEF LoneInv, Stored, Handle
  <2>17. Cut(q2) = Kind
    BY <2>8 DEF Cut
  <2>18. Aligned'
    <3>1. q2.pc # "pruning"
      BY <2>8, KindsFacts DEF Phase
    <3> SUFFICES ASSUME NEW j \in Kind, current'[j] # None, current'[j] \notin torn
                 PROVE  Even(current[j])'
      BY <1>0, <2>11, <2>17, <3>1 DEF Aligned, Cut
    <3>2. current'[j] = current[j]
      BY <2>6
    <3> QED BY <1>0, <1>1, <3>2 DEF LoneInv, Stored, Aligned, Even
  <2> QED BY <2>12, <2>13, <2>15, <2>16, <2>18 DEF Stored
<1> QED BY <1>2, <1>3 DEF Rotate, Refused

-----------------------------------------------------------------------------
(* Appending.                                                              *)

LEMMA Halves ==
  ASSUME NEW m \in Nat, NEW n \in 0 .. 2
  PROVE  /\ m \div 2 \in Nat /\ (m + n) \div 2 \in Nat
         /\ 2 * (m \div 2) \in 0 .. m /\ m \div 2 <= (m + n) \div 2
         /\ m = 2 * (m \div 2) =>
              (m + n) \div 2 = IF n = 2 THEN (m \div 2) + 1 ELSE m \div 2
<1>1. \A x \in Nat : x \div 2 \in Nat /\ (x = 2 * (x \div 2) \/ x = 2 * (x \div 2) + 1)
  OBVIOUS
<1> DEFINE h == m \div 2
           g == (m + n) \div 2
<1>2. h \in Nat /\ (m = 2 * h \/ m = 2 * h + 1)
  BY <1>1
<1>3. g \in Nat /\ (m + n = 2 * g \/ m + n = 2 * g + 1)
  <2>1. m + n \in Nat
    OBVIOUS
  <2> QED BY <1>1, <2>1
<1> HIDE DEF h, g
<1>4. 2 * h \in 0 .. m /\ h <= g /\ (m = 2 * h => g = IF n = 2 THEN h + 1 ELSE h)
  BY <1>2, <1>3
<1> QED BY <1>2, <1>3, <1>4 DEF h, g

\* What an append leaves of a record is at the end of current.log, on a
\* block's boundary unless a write to the file failed half way before.
LEMMA Grown ==
  ASSUME LoneInv, NEW f \in LogFiles, NEW r \in Nat, NEW n \in 0 .. 2,
         f \notin torn => Even(f),
         data' = [data EXCEPT ![f] = @ \o SubSeq(Record(r), 1, n)],
         written' = [written EXCEPT ![f] = hour],
         torn \subseteq torn',
         UNCHANGED <<current, archive, hour>>
  PROVE  /\ LogFiles' = LogFiles /\ Len(data') = Len(data)
         /\ written' \in Seq(Nat) /\ Len(written') = Len(data)
         /\ written'[f] = hour
         /\ Framed'
         /\ \A i \in 1 .. Len(data) : i # f => data'[i] = data[i]
         /\ f \notin torn /\ n # 1 => Even(f)'
         /\ f \notin torn /\ n = 2 => \E j \in Nat : Holds(f, j, r)'
         /\ \A i \in LogFiles : written'[i] \in {written[i], hour}
         /\ \A i \in LogFiles : \A j, b \in Nat : Holds(i, j, b) => Holds(i, j, b)'
<1> DEFINE piece == SubSeq(Record(r), 1, n)
<1>0. /\ data \in Seq(Seq(Unit)) /\ Len(data) \in Nat /\ hour \in Nat
      /\ written \in Seq(Nat) /\ Len(written) = Len(data)
      /\ f \in 1 .. Len(data)
  BY Untouched, Listed DEF LoneInv, Stored, FileTypes
<1>1. /\ piece \in Seq(Unit) /\ Len(piece) = n
      /\ \A x \in 1 .. n : piece[x] = Record(r)[x]
  BY ARecord, SubSeqProperties DEF RecordSize
<1>2. /\ LogFiles' = LogFiles
      /\ written' \in Seq(Nat) /\ Len(written') = Len(data)
      /\ written'[f] = hour
      /\ \A i \in LogFiles : written'[i] \in {written[i], hour}
  <2>1. \A i \in 1 .. Len(data) : written'[i] = IF i = f THEN hour ELSE written[i]
    BY <1>0
  <2>2. written' \in Seq(Nat) /\ Len(written') = Len(data)
    BY <1>0
  <2> QED BY <1>0, <2>1, <2>2, Listed DEF LogFiles, FilesOf
<1>3. /\ Len(data') = Len(data)
      /\ \A i \in 1 .. Len(data) :
           data'[i] = IF i = f THEN data[f] \o piece ELSE data[i]
  BY <1>0
<1> DEFINE m == Len(data[f])
<1>4. m \in Nat /\ data[f] \in Seq(Unit)
  BY <1>0
<1> HIDE DEF piece
<1>5. /\ Len(data'[f]) = m + n
      /\ \A x \in 1 .. m : data'[f][x] = data[f][x]
      /\ \A x \in 1 .. n : data'[f][m + x] = Record(r)[x]
  <2>1. data'[f] = data[f] \o piece
    BY <1>0, <1>3
  <2>2. /\ Len(data[f] \o piece) = m + n
        /\ \A x \in 1 .. m : (data[f] \o piece)[x] = data[f][x]
        /\ \A x \in 1 .. n : (data[f] \o piece)[m + x] = piece[x]
    <3> HIDE DEF m
    <3>1. /\ Len(data[f] \o piece) = m + n
          /\ \A x \in 1 .. m + n :
               (data[f] \o piece)[x] = IF x <= m THEN data[f][x] ELSE piece[x - m]
      BY <1>1, <1>4, ConcatProperties DEF m
    <3>2. \A x \in 1 .. m : x \in 1 .. m + n /\ x <= m
      BY <1>4
    <3>3. \A x \in 1 .. n : m + x \in 1 .. m + n /\ ~ (m + x <= m) /\ (m + x) - m = x
      BY <1>4
    <3> QED BY <3>1, <3>2, <3>3
  <2> QED BY <1>1, <2>1, <2>2
<1> DEFINE h == m \div 2
           g == (m + n) \div 2
<1> HIDE DEF m
<1>6. /\ h \in Nat /\ g \in Nat /\ 2 * h \in 0 .. m /\ h <= g
      /\ m = 2 * h => g = IF n = 2 THEN h + 1 ELSE h
  BY <1>4, Halves
<1>17. Len(data'[f]) \div 2 = g
  BY <1>5
<1> HIDE DEF h, g
<1>7. \A j \in 1 .. h :
        /\ j \in 1 .. Len(data'[f]) \div 2
        /\ data'[f][2 * j - 1] = data[f][2 * j - 1]
        /\ data'[f][2 * j] = data[f][2 * j]
  <2> TAKE j \in 1 .. h
  <2>1. 2 * j - 1 \in 1 .. m /\ 2 * j \in 1 .. m /\ j \in 1 .. g
    BY <1>4, <1>6
  <2> QED BY <1>5, <1>17, <2>1
<1>8. \A i \in 1 .. Len(data) : \A j, b \in Nat : Holds(i, j, b) => Holds(i, j, b)'
  <2> SUFFICES ASSUME NEW i \in 1 .. Len(data), NEW j \in Nat, NEW b \in Nat,
                      Holds(i, j, b)
               PROVE  Holds(i, j, b)'
    OBVIOUS
  <2>1. CASE i = f
    <3>1. j \in 1 .. h
      BY <2>1 DEF Holds, h, m
    <3> QED BY <1>7, <2>1, <3>1 DEF Holds
  <2>2. CASE i # f
    BY <1>3, <2>2 DEF Holds
  <2> QED BY <2>1, <2>2
<1>9. f \notin torn => m = 2 * h
  BY DEF Even, m, h
<1>10. ASSUME f \notin torn, n = 2
       PROVE  \A j \in Nat : j = h + 1 => Holds(f, j, r)'
  <2>1. /\ 2 * (h + 1) - 1 = m + 1 /\ 2 * (h + 1) = m + 2
        /\ h + 1 \in 1 .. g /\ h + 1 \in Nat /\ 1 \in 1 .. n /\ 2 \in 1 .. n
    BY <1>4, <1>6, <1>9, <1>10
  <2>2. data'[f][m + 1] = Record(r)[1] /\ data'[f][m + 2] = Record(r)[2]
    BY <1>5, <2>1
  <2>3. /\ data'[f][2 * (h + 1) - 1] = Record(r)[1]
        /\ data'[f][2 * (h + 1)] = Record(r)[2]
        /\ h + 1 \in 1 .. Len(data'[f]) \div 2
    BY <1>17, <2>1, <2>2
  <2> SUFFICES ASSUME NEW j \in Nat, j = h + 1 PROVE Holds(f, j, r)'
    OBVIOUS
  <2> HIDE DEF Record
  <2> QED BY <2>3 DEF Holds
<1>11. ASSUME f \notin torn, n # 1 PROVE Even(f)'
  <2>1. n = 0 \/ n = 2
    BY <1>11
  <2>2. m + n = 2 * g
    BY <1>6, <1>9, <1>11, <2>1
  <2> QED BY <1>5, <1>17, <2>2 DEF Even
<1>13. Framed'
  <2> SUFFICES ASSUME NEW i \in 1 .. Len(data') \ torn', NEW j \in 1 .. Len(data'[i]) \div 2
               PROVE  Holds(i, j, data[i][2 * j - 1].rec)'
    BY DEF Framed
  <2>0. i \in 1 .. Len(data) \ torn
    BY <1>3
  <2>1. CASE i # f
    BY <1>3, <2>0, <2>1 DEF LoneInv, Stored, Framed, Holds
  <2>2. CASE i = f
    <3>0. m = 2 * h /\ j \in 1 .. g
      BY <1>17, <1>9, <2>0, <2>2
    <3>1. CASE j \in 1 .. h
      <4>1. Holds(f, j, data[f][2 * j - 1].rec)
        BY <2>0, <2>2, <3>1 DEF LoneInv, Stored, Framed, h, m
      <4>2. data'[f][2 * j - 1] = data[f][2 * j - 1]
        BY <1>7, <3>1
      <4> QED BY <1>7, <2>2, <3>1, <4>1, <4>2 DEF Holds
    <3>2. CASE j \notin 1 .. h
      <4>1. n = 2 /\ j = h + 1
        BY <1>6, <3>0, <3>2
      <4>2. Holds(f, j, r)'
        BY <1>6, <1>10, <2>0, <2>2, <4>1
      <4>3. data'[f][2 * j - 1] = Record(r)[1]
        BY <4>2 DEF Holds
      <4>4. Record(r)[1].rec = r
        BY DEF Record
      <4> QED BY <2>2, <4>2, <4>3, <4>4
    <3> QED BY <3>1, <3>2
  <2> QED BY <2>1, <2>2
<1>12. \A i \in LogFiles : \A j, b \in Nat : Holds(i, j, b) => Holds(i, j, b)'
  BY <1>8, Listed
<1>14. f \notin torn /\ n = 2 => \E j \in Nat : Holds(f, j, r)'
  BY <1>6, <1>10
<1>15. f \notin torn /\ n # 1 => Even(f)'
  BY <1>11 DEF Even
<1>16. \A i \in 1 .. Len(data) : i # f => data'[i] = data[i]
  BY <1>3
<1> QED BY <1>2, <1>3, <1>12, <1>13, <1>14, <1>15, <1>16

LEMMA LoneWrite ==
  ASSUME Lone, LoneInv, NEW p \in Processes, NEW k \in Kind, Write(p, k)
  PROVE  Stored'
<1> DEFINE log == proc[p].log[k]
           f == log.file
           r == records + 1
<1>0. /\ proc[p].pc = "open" /\ proc[p].enabled /\ ~ Triggered(log)
      /\ UNCHANGED <<current, archive, hour>>
      /\ r \in Nat
  <2>1. proc[p].pc = "open" /\ proc[p].enabled /\ ~ Triggered(log)
    BY DEF Write
  <2>2. UNCHANGED <<current, archive, hour>>
    BY DEF Write
  <2>3. r \in Nat
    BY Untouched DEF LoneInv
  <2> QED BY <2>1, <2>2, <2>3
<1>1. f # None
  <2>1. k \in Done(proc[p])
    BY <1>0 DEF Done
  <2> QED BY <1>0, <2>1 DEF LoneInv, Inv, Fileless, Fit
<1>2. current[k] = f /\ f \in LogFiles
  <2>1. current[k] = f
    BY <1>1 DEF LoneInv, Stored, Handle
  <2> QED BY <1>1, <2>1, Listed
<1>3. f \notin torn => Even(f)
  <2>1. k \in Cut(proc[p])
    BY <1>0 DEF Cut
  <2> QED BY <1>0, <1>1, <1>2, <2>1 DEF LoneInv, Stored, Aligned
<1>4. \A q \in Processes : q = p
  BY DEF Lone
<1>5. Record(r) = SubSeq(Record(r), 1, 2)
  BY <1>0 DEF Record
<1>6. ASSUME NEW n \in 0 .. 2,
             data' = [data EXCEPT ![f] = @ \o SubSeq(Record(r), 1, n)],
             written' = [written EXCEPT ![f] = hour],
             torn' = IF n = 1 THEN torn \cup {f} ELSE torn,
             \/ acked' = acked
             \/ n = 2 /\ acked' = acked \cup
                  {[rec |-> r, at |-> hour, whole |-> f \notin torn]},
             \A q \in Processes : /\ proc'[q].pc = proc[q].pc
                                  /\ proc'[q].enabled = proc[q].enabled
                                  /\ \A j \in Kind : proc'[q].log[j].file = proc[q].log[j].file
      PROVE  Stored'
  <2> HIDE DEF log, f, r
  <2>1. /\ LogFiles' = LogFiles /\ Len(data') = Len(data)
        /\ written' \in Seq(Nat) /\ Len(written') = Len(data)
        /\ written'[f] = hour
        /\ Framed'
        /\ \A i \in 1 .. Len(data) : i # f => data'[i] = data[i]
        /\ f \notin torn /\ n # 1 => Len(data'[f]) = 2 * (Len(data'[f]) \div 2)
        /\ \A i \in LogFiles : written'[i] \in {written[i], hour}
        /\ \A i \in LogFiles : \A j, b \in Nat : Holds(i, j, b) => Holds(i, j, b)'
    <3> \A i : Even(i)' <=> Len(data'[i]) = 2 * (Len(data'[i]) \div 2)
      BY DEF Even
    <3> DEFINE g == f
    <3>1. PICK x \in LogFiles : x = f
      BY <1>2
    <3> QED BY <1>0, <1>3, <1>6, <3>1, Grown
  <2>2. FileTypes'
    <3>1. [rec |-> r, at |-> hour, whole |-> f \notin torn]
            \in [rec : Nat, at : Nat, whole : BOOLEAN]
      BY <1>0, Listed
    <3>2. acked' \subseteq [rec : Nat, at : Nat, whole : BOOLEAN]
      BY <1>6, <3>1 DEF LoneInv, Stored, FileTypes
    <3>3. \A a \in acked' : a.at <= hour
      BY <1>6, Listed
    <3> QED BY <1>0, <2>1, <3>2, <3>3 DEF LoneInv, Stored, FileTypes
  <2>3. Handle'
    BY <1>0, <1>6 DEF LoneInv, Stored, Handle
  <2>4. Aligned'
    <3> SUFFICES ASSUME NEW j \in Kind, current[j] # None, current[j] \notin torn'
                 PROVE  Len(data'[current[j]]) = 2 * (Len(data'[current[j]]) \div 2)
      BY <1>0, <1>4, <1>6 DEF Aligned, Cut, Even
    <3>1. current[j] \in 1 .. Len(data)
      BY Listed
    <3>2. CASE current[j] = f
      BY <1>6, <2>1, <3>2
    <3>3. CASE current[j] # f
      <4>1. current[j] \notin torn /\ j \in Cut(proc[p])
        BY <1>0, <1>6 DEF Cut
      <4>2. Even(current[j])
        BY <1>0, <4>1 DEF LoneInv, Stored, Aligned
      <4> QED BY <2>1, <3>1, <3>3, <4>2 DEF Even
    <3> QED BY <3>2, <3>3
  <2>5. Placed'
    <3>1. \A a \in acked : a.whole =>
            \/ a.at < hour' - Retention
            \/ \E i \in LogFiles' : /\ a.at <= written'[i]
                                    /\ \E j \in Nat : Holds(i, j, a.rec)'
      <4>1. hour' \in Nat /\ hour <= hour' /\ LogFiles \subseteq LogFiles' /\ acked \subseteq acked
        BY <1>0, <2>1, Listed
      <4> QED BY <2>1, <4>1, StillPlaced
    <3>2. ASSUME n = 2, f \notin torn
          PROVE  \E i \in LogFiles' : /\ hour <= written'[i]
                                      /\ \A b \in Nat : b = r => \E j \in Nat : Holds(i, j, b)'
      <4>1. PICK x \in LogFiles, b \in Nat : x = f /\ b = r
        BY <1>0, <1>2
      <4>2. \E j \in Nat : Holds(x, j, b)'
        BY <1>0, <1>3, <1>6, <3>2, <4>1, Grown
      <4> QED BY <2>1, <4>1, <4>2, Listed
    <3> SUFFICES ASSUME NEW a \in acked', a.whole
                 PROVE  \/ a.at < hour' - Retention
                        \/ \E i \in LogFiles' : /\ a.at <= written'[i]
                                                /\ \E j \in Nat : Holds(i, j, a.rec)'
      BY DEF Placed
    <3>3. CASE a \in acked
      BY <3>1, <3>3
    <3>4. CASE a \notin acked
      <4>1. n = 2 /\ a = [rec |-> r, at |-> hour, whole |-> f \notin torn]
        BY <1>6, <3>4
      <4>2. a.rec = r /\ a.at = hour /\ f \notin torn
        BY <4>1
      <4> QED BY <1>0, <3>2, <4>1, <4>2
    <3> QED BY <3>3, <3>4
  <2> QED BY <2>1, <2>2, <2>3, <2>4, <2>5 DEF Stored
<1>7. CASE /\ data' = [data EXCEPT ![f] = @ \o Record(r)]
           /\ written' = [written EXCEPT ![f] = hour]
           /\ acked' = acked \cup
                {[rec |-> r, at |-> hour, whole |-> f \notin torn]}
           /\ proc' = [proc EXCEPT ![p].log[k].bytes = @ + RecordSize]
           /\ UNCHANGED torn
  <2>1. \A q \in Processes : /\ proc'[q].pc = proc[q].pc
                             /\ proc'[q].enabled = proc[q].enabled
                             /\ \A j \in Kind : proc'[q].log[j].file = proc[q].log[j].file
    <3> DEFINE q1 == [proc[p] EXCEPT !.log[k].bytes = @ + RecordSize]
    <3>1. proc' = [proc EXCEPT ![p] = q1]
      BY <1>7
    <3>2. /\ q1.pc = proc[p].pc /\ q1.enabled = proc[p].enabled
          /\ \A j \in Kind : q1.log[j].file = proc[p].log[j].file
      BY Before DEF LoneInv, Proc, Log
    <3> HIDE DEF q1
    <3> QED BY <1>4, <3>1, <3>2 DEF LoneInv, Inv, TypeInv
  <2>2. data' = [data EXCEPT ![f] = @ \o SubSeq(Record(r), 1, 2)]
    BY <1>5, <1>7
  <2>3. torn' = IF 2 = 1 THEN torn \cup {f} ELSE torn
    BY <1>7
  <2>4. 2 \in 0 .. 2
    OBVIOUS
  <2> HIDE DEF f, r, log
  <2> QED BY <1>6, <1>7, <2>1, <2>2, <2>3, <2>4
<1>8. CASE /\ \E n \in 0 .. RecordSize :
                /\ data' = [data EXCEPT ![f] = @ \o SubSeq(Record(r), 1, n)]
                /\ torn' = IF n \in 1 .. RecordSize - 1 THEN torn \cup {f} ELSE torn
           /\ written' = [written EXCEPT ![f] = hour]
           /\ UNCHANGED <<proc, acked>>
  <2> HIDE DEF f, r, log
  <2>1. PICK n \in 0 .. RecordSize :
          /\ data' = [data EXCEPT ![f] = @ \o SubSeq(Record(r), 1, n)]
          /\ torn' = IF n \in 1 .. RecordSize - 1 THEN torn \cup {f} ELSE torn
    BY <1>8
  <2>2. n \in 0 .. 2 /\ (n \in 1 .. RecordSize - 1 <=> n = 1)
    BY DEF RecordSize
  <2> QED BY <1>6, <1>8, <2>1, <2>2
<1> QED BY <1>1, <1>7, <1>8 DEF Write

LEMMA LoneCrash ==
  ASSUME Lone, LoneInv, NEW p \in Processes, Crash(p)
  PROVE  Stored'
<1>0. /\ UNCHANGED <<current, archive, hour, acked, torn>>
      /\ proc' = [proc EXCEPT ![p] = Down]
  BY DEF Crash
<1>1. CASE UNCHANGED <<data, records, written>>
  BY <1>0, <1>1, StandsAside
<1>2. ASSUME NEW k \in Kind,
             proc[p].pc = "open", proc[p].enabled, proc[p].log[k].file # None,
             data' = [data EXCEPT ![proc[p].log[k].file] =
                        Append(@, Record(records + 1)[1])],
             written' = [written EXCEPT ![proc[p].log[k].file] = hour]
      PROVE  Stored'
  <2> DEFINE f == proc[p].log[k].file
             r == records + 1
  <2>1. r \in Nat /\ current[k] = f /\ f \in LogFiles /\ f \in 1 .. Len(data)
    BY <1>2, Untouched, Listed DEF LoneInv, Stored, Handle
  <2>2. f \notin torn => Even(f)
    <3>1. k \in Cut(proc[p])
      BY <1>2 DEF Cut
    <3> QED BY <1>2, <2>1, <3>1 DEF LoneInv, Stored, Aligned
  <2>3. data' = [data EXCEPT ![f] = @ \o SubSeq(Record(r), 1, 1)]
    <3>1. SubSeq(Record(r), 1, 1) = <<Record(r)[1]>>
      <4> DEFINE s == SubSeq(Record(r), 1, 1)
                 u == Record(r)[1]
      <4>1. Record(r) \in Seq(Unit) /\ Len(Record(r)) = 2 /\ u \in Unit
        BY <2>1, ARecord
      <4>2. s \in Seq(Unit) /\ Len(s) = 1 /\ s[1] = u
        <5> HIDE DEF Record
        <5> QED BY <4>1, SubSeqProperties
      <4> HIDE DEF s, u
      <4>3. <<u>> \in Seq(Unit) /\ Len(<<u>>) = 1 /\ <<u>>[1] = u
        BY <4>1
      <4>4. s = <<u>>
        BY <4>2, <4>3, SeqEqual
      <4> QED BY <4>4 DEF s, u
    <3>2. data[f] \in Seq(Unit) /\ Record(r)[1] \in Unit
      BY <2>1, Untouched, ARecord DEF LoneInv
    <3>3. Append(data[f], Record(r)[1]) = data[f] \o <<Record(r)[1]>>
      <4> HIDE DEF f, r, Record
      <4> QED BY <3>2, AppendIsConcat
    <3> HIDE DEF Record
    <3> QED BY <1>2, <3>1, <3>3
  <2>9. written' = [written EXCEPT ![f] = hour]
    BY <1>2
  <2> HIDE DEF f, r
  <2>4. /\ LogFiles' = LogFiles /\ Len(data') = Len(data)
        /\ written' \in Seq(Nat) /\ Len(written') = Len(data)
        /\ Framed'
        /\ \A i \in LogFiles : written'[i] \in {written[i], hour}
        /\ \A i \in LogFiles : \A j, b \in Nat : Holds(i, j, b) => Holds(i, j, b)'
    <3>1. PICK x \in LogFiles, y \in Nat : x = f /\ y = r
      BY <2>1
    <3>2. 1 \in 0 .. 2 /\ torn \subseteq torn'
      BY <1>0
    <3> QED BY <1>0, <2>2, <2>3, <2>9, <3>1, <3>2, Grown
  <2>5. FileTypes'
    BY <1>0, <2>4 DEF LoneInv, Stored, FileTypes
  <2>6. Placed'
    <3>1. hour' \in Nat /\ hour <= hour' /\ LogFiles \subseteq LogFiles' /\ acked' \subseteq acked
      BY <1>0, <2>4, Listed
    <3> QED BY <2>4, <3>1, StillPlaced DEF Placed
  <2>7. \A q \in Processes : proc'[q] = Down
    BY <1>0 DEF Lone, LoneInv, Inv, TypeInv
  <2>8. Handle' /\ Aligned'
    <3>1. ~ Down.enabled /\ \A j \in Kind : Down.log[j].file = None
      BY Standing DEF LoneInv, Closed
    <3> QED BY <2>7, <3>1 DEF Handle, Aligned
  <2> QED BY <2>4, <2>5, <2>6, <2>8 DEF Stored
<1> QED BY <1>1, <1>2 DEF Crash

-----------------------------------------------------------------------------

LEMMA LoneInit == Init => LoneInv
<1> SUFFICES ASSUME Init PROVE LoneInv
  OBVIOUS
<1>1. /\ data = << >> /\ written = << >> /\ Len(data) = 0 /\ Len(written) = 0
      /\ acked = {} /\ \A k \in Kind : archive[k] = {} /\ current[k] = None
      /\ archive = [k \in Kind |-> {}]
      /\ \A p \in Processes : proc[p] = Down
  BY DEF Init
<1>2. FileTypes
  <2>1. IsFiniteSet({})
    BY FS_EmptySet
  <2>2. written \in Seq(Nat)
    BY <1>1
  <2> QED BY <1>1, <2>1, <2>2 DEF FileTypes
<1>3. ~ Down.enabled /\ \A k \in Kind : Down.log[k].file = None
  BY DEF Down, Fresh, Closed
<1>4. Handle /\ Aligned
  BY <1>1, <1>3 DEF Handle, Aligned
<1>5. Framed
  BY <1>1 DEF Framed
<1>6. Placed
  BY <1>1 DEF Placed
<1> QED BY <1>2, <1>4, <1>5, <1>6, InitInv DEF LoneInv, Stored

LEMMA LoneStep ==
  ASSUME Lone, LoneInv, [Next]_svars
  PROVE  LoneInv'
<1>1. Inv'
  BY StepInv DEF LoneInv
<1>2. ASSUME NEW p \in Processes,
             Start(p) \/ AcquireLock(p) \/ OpenLog(p) \/ Prune(p) \/ Hydrate(p)
      PROVE  Stored'
  BY <1>2, LoneStart, LoneAcquireLock, LoneOpenLog, LonePrune, LoneHydrate
<1>3. ASSUME NEW p \in Processes, NEW k \in Kind,
             Query(p, k) \/ Rotate(p, k) \/ Reopen(p, k) \/ Write(p, k)
      PROVE  Stored'
  BY <1>3, LoneQuery, LoneRotate, LoneReopen, LoneWrite
<1>4. ASSUME NEW p \in Processes, Close(p) \/ Crash(p)
      PROVE  Stored'
  BY <1>4, LoneClose, LoneCrash
<1>5. ASSUME UNCHANGED svars PROVE Stored'
  <2>1. FileTypes' /\ Handle'
    BY <1>5 DEF svars, LoneInv, Stored, FileTypes, Handle
  <2>2. Aligned' /\ Framed'
    BY <1>5 DEF svars, LoneInv, Stored, Aligned, Framed, Cut, Even, Holds
  <2>3. Placed'
    BY <1>5 DEF svars, LoneInv, Stored, Placed, LogFiles, FilesOf, Holds
  <2> QED BY <2>1, <2>2, <2>3 DEF Stored
<1>6. Stored'
  BY <1>2, <1>3, <1>4, <1>5, LoneTick DEF Next
<1> QED BY <1>1, <1>6 DEF LoneInv

LEMMA LoneInvariant ==
  ASSUME Lone
  PROVE  Spec => []LoneInv
<1>1. LoneInv /\ [Next]_svars => LoneInv'
  BY LoneStep
<1> QED BY <1>1, LoneInit, PTL DEF Spec

\* Of one process at a time, what append acknowledged is in a file a query
\* reads until it is older than the retention: through rotations, prunings,
\* failed system calls, crashes and restarts, for any sizes and durations.
THEOREM AcknowledgedIsKept ==
  ASSUME Lone
  PROVE  Spec => []AcknowledgedStay
<1>1. LoneInv => AcknowledgedStay
  <2> SUFFICES ASSUME LoneInv, NEW a \in acked, a.whole, ~ (a.at < hour - Retention)
               PROVE  Readable(a.rec)
    BY DEF AcknowledgedStay
  <2>1. PICK i \in LogFiles, j \in Nat : Holds(i, j, a.rec)
    BY DEF LoneInv, Stored, Placed
  <2>2. Record(a.rec)[1].header = TRUE
    BY DEF Record
  <2>3. <<data[i][2 * j - 1], data[i][2 * j]>> \in Blocks(i)
    <3>1. /\ j \in 1 .. Len(data[i]) \div RecordSize
          /\ data[i][RecordSize * j - 1].header
      BY <2>1, <2>2 DEF Holds, RecordSize
    <3> QED BY <3>1 DEF Blocks, RecordSize
  <2> QED BY <2>1, <2>3 DEF Holds, Readable
<1> QED BY <1>1, LoneInvariant, PTL

\* Of one process at a time, what a kill leaves of a record is cut off before
\* anything is written behind it: every block that reads as a record is one.
THEOREM KillsLeaveNoFalseRecord ==
  ASSUME Lone
  PROVE  Spec => []CrashInventsNothing
<1>1. LoneInv => CrashInventsNothing
  <2> SUFFICES ASSUME LoneInv, NEW i \in LogFiles \ torn, NEW b \in Blocks(i)
               PROVE  b[2] = [rec |-> b[1].rec, header |-> FALSE]
    BY DEF CrashInventsNothing
  <2>1. PICK j \in 1 .. Len(data[i]) \div 2 :
          b = <<data[i][2 * j - 1], data[i][2 * j]>>
    BY DEF Blocks, RecordSize
  <2>2. Holds(i, j, data[i][2 * j - 1].rec)
    BY Listed DEF LoneInv, Stored, Framed
  <2>3. \A r : Record(r)[2] = [rec |-> r, header |-> FALSE]
    BY DEF Record
  <2> HIDE DEF Record
  <2> QED BY <2>1, <2>2, <2>3 DEF Holds
<1> QED BY <1>1, LoneInvariant, PTL

-----------------------------------------------------------------------------
(* The lock files, whatever the number of processes.                       *)

\* While nothing crashed, a lock file is there because of a running process.
Held == ~ crashed => \A k \in Kind : lock[k] => \E p \in Processes : proc[p].pc # "down"

HeldInv == Inv /\ lock \in [Kind -> BOOLEAN] /\ Held

\* A step of a process that goes on running and takes at most one lock.
LEMMA RunsOn ==
  ASSUME HeldInv, NEW p \in Processes, proc'[p].pc # "down",
         crashed' = crashed,
         \/ lock' = lock
         \/ \E k \in Kind : lock' = [lock EXCEPT ![k] = TRUE]
  PROVE  lock' \in [Kind -> BOOLEAN] /\ Held'
BY DEF HeldInv, Held

LEMMA HeldStep ==
  ASSUME HeldInv, [Next]_svars
  PROVE  HeldInv'
<1>0. Inv' /\ Inv
  BY StepInv DEF HeldInv
<1>1. \A p \in Processes : proc[p] \in Proc /\ proc'[p] \in Proc
  BY <1>0 DEF Inv, TypeInv
<1>2. ASSUME NEW p \in Processes, proc'[p].pc # "down", crashed' = crashed,
             \/ lock' = lock
             \/ \E k \in Kind : lock' = [lock EXCEPT ![k] = TRUE]
      PROVE  HeldInv'
  BY <1>0, <1>2, RunsOn DEF HeldInv
<1>3. ASSUME NEW p \in Processes, Start(p) \/ AcquireLock(p)
      PROVE  HeldInv'
  <2>1. proc'[p].pc \in {"locking", "opening", "open"}
    BY <1>1, <1>3, Standing DEF Start, AcquireLock, Fresh, Proc, Inv, TypeInv, HeldInv
  <2>2. crashed' = crashed /\ (lock' = lock \/ \E k \in Kind : lock' = [lock EXCEPT ![k] = TRUE])
    BY <1>1, <1>3, KindsFacts DEF Start, AcquireLock, Proc
  <2> QED BY <1>2, <2>1, <2>2
<1>4. ASSUME NEW p \in Processes, OpenLog(p)
      PROVE  HeldInv'
  <2>1. proc'[p].pc \in {"locking", "pruning", "open"}
    BY <1>0, <1>1, <1>4, Standing DEF OpenLog, Proc, Inv, TypeInv
  <2> QED BY <1>2, <1>4, <2>1 DEF OpenLog
<1>5. ASSUME NEW p \in Processes, Prune(p) \/ Hydrate(p)
      PROVE  HeldInv'
  <2>1. proc'[p].pc \in {"hydrating", "open"}
    BY <1>0, <1>1, <1>5 DEF Prune, Hydrate, Proc, Inv, TypeInv
  <2> QED BY <1>2, <1>5, <2>1 DEF Prune, Hydrate
<1>6. ASSUME NEW p \in Processes, NEW k \in Kind,
             Query(p, k) \/ Rotate(p, k) \/ Reopen(p, k) \/ Write(p, k)
      PROVE  HeldInv'
  <2>0. k # "down" /\ \A j \in Kind : j # "down"
    BY KindsFacts DEF Phase
  <2>1. CASE Query(p, k)
    BY <1>2, <2>0, <2>1 DEF Query
  <2>2. CASE Rotate(p, k)
    <3>1. proc'[p].pc \in {"open", k}
      BY <1>0, <1>1, <2>2 DEF Rotate, Proc, Inv, TypeInv
    <3> QED BY <1>2, <2>0, <2>2, <3>1 DEF Rotate
  <2>3. CASE Reopen(p, k)
    <3>1. proc'[p].pc = "open"
      BY <1>0, <1>1, <2>3 DEF Reopen, Proc, Inv, TypeInv
    <3> QED BY <1>2, <2>3, <3>1 DEF Reopen
  <2>4. CASE Write(p, k)
    <3>1. proc'[p].pc \in {"open", "panicked"}
      <4>1. CASE proc' = [proc EXCEPT ![p].pc = "panicked"]
        BY <1>0, <1>1, <4>1 DEF Proc, Inv, TypeInv
      <4>2. CASE proc' = [proc EXCEPT ![p].log[k].bytes = @ + RecordSize]
        BY <1>0, <1>1, <2>4, <4>2 DEF Write, Proc, Inv, TypeInv
      <4>3. CASE proc' = proc
        BY <2>4, <4>3 DEF Write
      <4> QED BY <2>4, <4>1, <4>2, <4>3 DEF Write
    <3> QED BY <1>2, <2>4, <3>1 DEF Write
  <2> QED BY <1>6, <2>1, <2>2, <2>3, <2>4
<1>7. ASSUME NEW p \in Processes, Close(p)
      PROVE  HeldInv'
  <2>1. lock' = [k \in Kind |-> FALSE]
    BY <1>7 DEF Close, ReleasedBy
  <2> QED BY <1>0, <2>1 DEF HeldInv, Held
<1>8. ASSUME NEW p \in Processes, Crash(p)
      PROVE  HeldInv'
  BY <1>0, <1>8 DEF Crash, HeldInv, Held
<1>9. CASE Tick \/ UNCHANGED svars
  BY <1>0, <1>9 DEF Tick, svars, HeldInv, Held
<1> QED BY <1>3, <1>4, <1>5, <1>6, <1>7, <1>8, <1>9 DEF Next

\* Of any number of processes, when all have closed their stores and none
\* crashed there is no lock file, wherever an open may have failed.
THEOREM LocksGoWithTheirOwners == Spec => []LocksAreReleased
<1>1. Init => HeldInv
  BY InitInv DEF Init, HeldInv, Held
<1>2. HeldInv /\ [Next]_svars => HeldInv'
  BY HeldStep
<1>3. HeldInv => LocksAreReleased
  BY DEF HeldInv, Held, LocksAreReleased
<1> QED BY <1>1, <1>2, <1>3, PTL DEF Spec

=============================================================================
