----------------------------- MODULE CliProofs -----------------------------
(***************************************************************************)
(* What holds of the two subcommands that keep state.  `bris update`, for   *)
(* every set of payloads and any number of runs, failed steps and killed    *)
(* processes, whose writes all stay: the data directory never holds a       *)
(* mixture, and the first failure leaves the operator a whole tree.  `bris  *)
(* serve`, for any number of clients, fixes and sinks of any kind: the      *)
(* clients in a sink's list have missed nothing since they joined.  That    *)
(* one rests on what the removal of the failed clients leaves, a loop, and  *)
(* on where a client can be: outside, held by one accept thread, once in    *)
(* that sink's list, or gone.                                               *)
(***************************************************************************)
EXTENDS Cli, ListingProofs

Steps == {"idle", "clear_staging", "clear_backup", "copy", "aside", "swap", "drop"}

\* A run applies a payload it has verified.
InRun == pc # "idle" => payload \in Payloads /\ Verified(payload)

\* What is staged is a part of that payload, and all of it once it is copied.
Staged ==
  /\ pc = "clear_backup" => staging = NoTree
  /\ pc = "copy" /\ staging # NoTree
       => IsTree(staging) /\ DOMAIN staging \subseteq DOMAIN payload.tree
  /\ pc \in {"aside", "swap"} => staging = payload.tree

Held(tree) == tree # NoTree /\ Whole(tree)

\* What was moved aside was whole.
SetAside == pc = "swap" /\ hadExisting => Held(backup)

Inv == /\ pc \in Steps
       /\ InRun /\ Staged /\ SetAside /\ DataIsWhole

\* Where a whole tree is while nothing, or one thing, has gone wrong.
Kept ==
  /\ faults \in Nat
  /\ pc = "drop" => Held(data)
  /\ Original # NoTree =>
       /\ faults = 0 =>
            IF pc = "swap" THEN hadExisting ELSE Held(data)
       /\ faults <= 1 /\ pc = "idle" => Held(data) \/ Held(backup)

-----------------------------------------------------------------------------
LEMMA InvInit == UInit => Inv
BY DEF UInit, Inv, Steps, InRun, Staged, SetAside, DataIsWhole, Whole

\* Once nothing is left to copy, the staged tree is the payload's.
LEMMA CopiedIsWhole ==
  ASSUME payload \in Payloads, staging # NoTree, IsTree(staging),
         DOMAIN staging \subseteq DOMAIN payload.tree, ToCopy = {}
  PROVE  staging = payload.tree
<1>1. IsTree(payload.tree)
  BY UpdateAssumption
<1>2. \A f \in DOMAIN payload.tree :
        f \in DOMAIN staging /\ staging[f] = payload.tree[f]
  BY DEF ToCopy
<1>3. DOMAIN staging = DOMAIN payload.tree
  BY <1>2
<1> DEFINE D == DOMAIN payload.tree
<1>4. [f \in D |-> staging[f]] = [f \in D |-> payload.tree[f]]
  BY <1>2
<1> QED
  BY <1>1, <1>3, <1>4 DEF IsTree

LEMMA InvStep == Inv /\ [UNext]_uvars => Inv'
<1> SUFFICES ASSUME Inv, [UNext]_uvars PROVE Inv'
  OBVIOUS
<1> USE DEF Inv
<1>1. CASE Begin
  BY <1>1 DEF Begin, dirs, Steps, InRun, Staged, SetAside, DataIsWhole, Whole, Held
<1>2. CASE ClearStaging
  BY <1>2 DEF ClearStaging, Goto, Steps, InRun, Staged, SetAside, DataIsWhole,
              Whole, Held, Verified, VerifyPayload
<1>3. CASE ClearBackup
  BY <1>3 DEF ClearBackup, Goto, Steps, InRun, Staged, SetAside, DataIsWhole,
              Whole, Held, Verified, VerifyPayload
<1>4. CASE Copy
  <2> USE <1>4 DEF Copy
  <2>1. pc = "copy" /\ pc' \in {"copy", "aside"} /\ UNCHANGED <<data, payload>>
    BY DEF Goto
  <2>2. pc' \in Steps /\ InRun' /\ SetAside' /\ DataIsWhole'
    BY <2>1 DEF Steps, InRun, SetAside, DataIsWhole, Whole, Verified, VerifyPayload
  <2>3. Staged'
    <3>1. CASE staging = NoTree
      BY <2>1, <3>1 DEF Goto, Staged, Empty, IsTree
    <3>2. CASE staging # NoTree /\ pc' = "copy"
      <4>1. PICK f \in ToCopy : staging' = With(staging, f, payload.tree[f])
        BY <3>2, <2>1 DEF Goto
      <4>2. f \in DOMAIN payload.tree /\ DOMAIN staging \subseteq DOMAIN payload.tree
        BY <3>2, <2>1 DEF ToCopy, Staged
      <4> QED
        BY <4>1, <4>2, <2>1, <3>2 DEF Staged, With, IsTree
    <3>3. CASE staging # NoTree /\ pc' = "aside"
      <4>1. ToCopy = {} /\ staging' = staging
        BY <3>3, <2>1 DEF Goto
      <4>2. staging = payload.tree
        BY <4>1, <3>3, <2>1, CopiedIsWhole DEF Staged, InRun
      <4> QED
        BY <4>1, <4>2, <2>1, <3>3 DEF Staged
    <3> QED
      BY <2>1, <3>1, <3>2, <3>3
  <2> QED
    BY <2>2, <2>3
<1>5. CASE MoveAside
  BY <1>5 DEF MoveAside, Goto, Steps, InRun, Staged, SetAside, DataIsWhole,
              Whole, Held, Verified, VerifyPayload
<1>6. CASE Swap
  <2>1. Whole(staging)
    BY <1>6 DEF Swap, Staged, InRun, Whole
  <2> QED
    BY <1>6, <2>1 DEF Swap, Goto, Steps, InRun, Staged, SetAside, DataIsWhole,
                      Whole, Verified, VerifyPayload
<1>7. CASE DropBackup
  BY <1>7 DEF DropBackup, Goto, Steps, InRun, Staged, SetAside, DataIsWhole,
              Whole, Verified, VerifyPayload
<1>8. CASE Fail
  <2>1. pc' = "idle" /\ (data' = data \/ (data' = backup /\ Held(backup)))
    BY <1>8 DEF Fail, Restored, CutShort, dirs, SetAside
  <2> QED
    BY <2>1 DEF Steps, InRun, Staged, SetAside, DataIsWhole, Whole, Held
<1>9. CASE Die
  <2>1. pc' = "idle" /\ data' = data
    BY <1>9 DEF Die, CutShort, dirs
  <2> QED
    BY <2>1 DEF Steps, InRun, Staged, SetAside, DataIsWhole, Whole
<1>10. CASE UNCHANGED uvars
  BY <1>10 DEF uvars, dirs, Steps, InRun, Staged, SetAside, DataIsWhole, Whole,
               Held, Verified, VerifyPayload, IsTree
<1> QED
  BY <1>1, <1>2, <1>3, <1>4, <1>5, <1>6, <1>7, <1>8, <1>9, <1>10 DEF UNext

\* Whatever fails and wherever a process is killed, the data directory holds the
\* original tree or a verified payload's, to the last file, or is not there; a
\* machine that loses what was not synced is not considered (subcommands.rs:
\* apply_update).
THEOREM NeverAMixture == USpec => []DataIsWhole
<1>1. Inv => DataIsWhole
  BY DEF Inv
<1> QED
  BY InvInit, InvStep, <1>1, PTL DEF USpec

-----------------------------------------------------------------------------
LEMMA KeptInit == UInit => Kept
BY DEF UInit, Kept, Held, Whole

LEMMA KeptStep == Inv /\ Kept /\ [UNext]_uvars => Kept'
<1> SUFFICES ASSUME Inv, Kept, [UNext]_uvars PROVE Kept'
  OBVIOUS
<1> USE DEF Kept
<1>1. CASE Begin
  BY <1>1 DEF Begin, dirs, Held, Whole
<1>2. CASE ClearStaging
  BY <1>2 DEF ClearStaging, Goto, Held, Whole
<1>3. CASE ClearBackup
  BY <1>3 DEF ClearBackup, Goto, Held, Whole
<1>4. CASE Copy
  <2>1. pc = "copy" /\ pc' \in {"copy", "aside"} /\ UNCHANGED <<data, faults>>
    BY <1>4 DEF Copy, Goto
  <2> QED
    BY <2>1 DEF Held, Whole
<1>5. CASE MoveAside
  BY <1>5 DEF MoveAside, Goto, Held
<1>6. CASE Swap
  <2>1. data' = payload.tree /\ Held(payload.tree)
    BY <1>6, UpdateAssumption DEF Swap, Inv, Staged, InRun, Held, Whole
  <2> QED
    BY <1>6, <2>1 DEF Swap, Goto, Held, Whole
<1>7. CASE DropBackup
  BY <1>7 DEF DropBackup, Goto, Held, Whole
<1>8. CASE Fail
  <2>1. CASE faults' = faults + 1 /\ Restored /\ pc = "swap"
    BY <1>8, <2>1 DEF Fail, Restored, CutShort, dirs, Inv, SetAside, Held, Whole
  <2>2. CASE faults' = faults + 1 /\ Restored /\ pc # "swap"
    <3>1. data' = data /\ backup' = backup /\ pc' = "idle"
      BY <1>8, <2>2 DEF Fail, Restored, CutShort, dirs
    <3> QED
      BY <1>8, <2>2, <3>1 DEF Fail, Held, Whole
  <2>3. CASE faults' = faults + 2
    BY <1>8, <2>3 DEF Fail
  <2> QED
    BY <1>8, <2>1, <2>2, <2>3 DEF Fail
<1>9. CASE Die
  <2>1. data' = data /\ backup' = backup /\ pc' = "idle" /\ faults' = faults + 1
    BY <1>9 DEF Die, CutShort, dirs
  <2> QED
    BY <2>1, <1>9 DEF Die, Inv, SetAside, Held, Whole
<1>10. CASE UNCHANGED uvars
  BY <1>10 DEF uvars, dirs, Held, Whole
<1> QED
  BY <1>1, <1>2, <1>3, <1>4, <1>5, <1>6, <1>7, <1>8, <1>9, <1>10 DEF UNext

\* After at most one failed step or killed process, wherever it struck, a whole
\* tree is in place or in the backup beside it; as above, a power loss is not
\* considered (subcommands.rs: apply_update).
THEOREM TheFirstFailureIsSurvived == USpec => []OneFailureIsSurvived
<1>1. Kept => OneFailureIsSurvived
  BY DEF Kept, OneFailureIsSurvived, Held
<1>2. UInit => Inv /\ Kept
  BY InvInit, KeptInit
<1>3. (Inv /\ Kept) /\ [UNext]_uvars => (Inv /\ Kept)'
  BY InvStep, KeptStep
<1> QED
  BY <1>1, <1>2, <1>3, PTL DEF USpec

-----------------------------------------------------------------------------
\* Where the tree the run began with is, at each of its steps.
Found ==
  /\ pc \in {"clear_staging", "clear_backup", "copy", "aside"} => data = before
  /\ pc = "swap" => before = IF hadExisting THEN backup ELSE data
  /\ pc = "drop" => data = payload.tree

LEMMA FoundStep == Inv /\ Found /\ [UNext]_uvars => Found'
<1> SUFFICES ASSUME Inv, Found, [UNext]_uvars PROVE Found'
  OBVIOUS
<1> USE DEF Found
<1>1. CASE Begin
  BY <1>1 DEF Begin, dirs
<1>2. CASE ClearStaging \/ ClearBackup
  BY <1>2 DEF ClearStaging, ClearBackup, Goto
<1>3. CASE Copy
  BY <1>3 DEF Copy, Goto
<1>4. CASE MoveAside
  BY <1>4 DEF MoveAside, Goto
<1>5. CASE Swap
  BY <1>5 DEF Swap, Goto, Inv, Staged
<1>6. CASE DropBackup
  BY <1>6 DEF DropBackup, Goto
<1>7. CASE Fail \/ Die
  BY <1>7 DEF Fail, Die
<1>8. CASE UNCHANGED uvars
  BY <1>8 DEF uvars, dirs
<1> QED
  BY <1>1, <1>2, <1>3, <1>4, <1>5, <1>6, <1>7, <1>8 DEF UNext

\* A run of which one step failed leaves the data directory as it found it, or
\* with the whole new tree, whichever step it was (subcommands.rs:
\* apply_update).
THEOREM AnErrorLeavesTheData == USpec => ErrorsLeaveTheData
<1> DEFINE FInv == Inv /\ Kept /\ Found
           Left == last' = "error" /\ last # "error" /\ faults' = faults + 1
                     => data' \in {before, payload.tree}
<1>1. UInit => FInv
  BY InvInit, KeptInit DEF UInit, Found
<1>2. FInv /\ [UNext]_uvars => FInv'
  BY InvStep, KeptStep, FoundStep
<1>3. FInv /\ [UNext]_uvars => [Left]_uvars
  <2> SUFFICES ASSUME FInv, UNext, last' = "error", last # "error",
                      faults' = faults + 1
               PROVE  data' \in {before, payload.tree}
    OBVIOUS
  <2>1. Fail
    BY DEF UNext, Begin, ClearStaging, ClearBackup, Copy, MoveAside, Swap,
           DropBackup, Goto, Die
  <2>2. faults \in Nat
    BY DEF Kept
  <2>3. Restored /\ pc \in Steps \ {"idle"}
    BY <2>1, <2>2 DEF Fail, Inv
  <2>4. CASE pc = "swap" /\ hadExisting
    BY <2>3, <2>4 DEF Restored, Found
  <2>5. CASE ~ (pc = "swap" /\ hadExisting)
    <3>1. data' = data
      BY <2>3, <2>5 DEF Restored, CutShort, dirs
    <3> QED BY <2>3, <2>5, <3>1 DEF Found, Steps
  <2> QED BY <2>4, <2>5
<1> HIDE DEF FInv
<1> QED
  BY <1>1, <1>2, <1>3, PTL DEF USpec, ErrorsLeaveTheData

-----------------------------------------------------------------------------
(* Serve.                                                                  *)

Injective(s) == \A i, j \in DOMAIN s : s[i] = s[j] => i = j

\* What the removal loop makes of the list t in its k-th round.
SurvivorsRound(s, failed, t, k) ==
  IF Len(s) + 1 - k \in failed THEN SwapRemove(t, Len(s) + 1 - k) ELSE t

\* What every round preserves holds of the list in the end.
LEMMA SurvivorsKeeps ==
  ASSUME NEW s, Len(s) \in Nat, NEW failed, NEW Reached,
         <<0, s>> \in Reached,
         \A k \in 0 .. Len(s) - 1 : \A t :
           <<k, t>> \in Reached
             => <<k + 1, SurvivorsRound(s, failed, t, k + 1)>> \in Reached
  PROVE  <<Len(s), Survivors(s, failed)>> \in Reached
<1> DEFINE n == Len(s)
           Loops(f) == f = [k \in 0 .. n |-> IF k = 0 THEN s
                                             ELSE IF Len(s) + 1 - k \in failed
                                               THEN SwapRemove(f[k - 1], Len(s) + 1 - k) ELSE f[k - 1]]
           step == [p \in Reached |-> SurvivorsRound(s, failed, p[2], p[1] + 1)]
<1>1. \A k \in 0 .. n - 1 : \A a :
        <<k, a>> \in Reached => /\ step[<<k, a>>] = SurvivorsRound(s, failed, a, k + 1)
                                /\ <<k + 1, step[<<k, a>>]>> \in Reached
  OBVIOUS
<1>2. PICK f : /\ \A k \in 0 .. n : f[k] = IF k = 0 THEN s
                                             ELSE step[<<k - 1, f[k - 1]>>]
               /\ \A k \in 0 .. n : <<k, f[k]>> \in Reached
  <2>1. n \in Nat
    OBVIOUS
  <2> HIDE DEF step, n
  <2>2. StaysIn(Reached, step, n)
    BY <1>1 DEF StaysIn
  <2>3. RunsIn(Reached, step, n, s)
    BY <2>1, <2>2, LoopExists
  <2>4. QED
    BY <2>3 DEF RunsIn
<1>3. \E g : Loops(g)
  <2>1. \A k \in 0 .. n : k # 0 => step[<<k - 1, f[k - 1]>>] = SurvivorsRound(s, failed, f[k - 1], k)
    <3> SUFFICES ASSUME NEW k \in 0 .. n, k # 0
                 PROVE  step[<<k - 1, f[k - 1]>>] = SurvivorsRound(s, failed, f[k - 1], k)
      OBVIOUS
    <3>1. k - 1 \in 0 .. n - 1 /\ k - 1 \in 0 .. n /\ (k - 1) + 1 = k
      OBVIOUS
    <3>2. <<k - 1, f[k - 1]>> \in Reached
      BY <1>2, <3>1
    <3> HIDE DEF step
    <3>3. step[<<k - 1, f[k - 1]>>] = SurvivorsRound(s, failed, f[k - 1], (k - 1) + 1)
      BY <1>1, <3>1, <3>2
    <3>4. QED
      BY <3>1, <3>3
  <2> HIDE DEF step
  <2> DEFINE h == [k \in 0 .. n |-> f[k]]
  <2>2. \A k \in 0 .. n : k # 0 => k - 1 \in 0 .. n
    OBVIOUS
  <2>3. Loops(h)
    BY <1>2, <2>1, <2>2 DEF SurvivorsRound
  <2>4. QED
    BY <2>3
<1> DEFINE g == CHOOSE h : Loops(h)
<1>4. Loops(g)
  BY <1>3
<1>5. Survivors(s, failed) = g[n]
  BY DEF Survivors
<1>6. \A k \in 0 .. n : g[k] = IF k = 0 THEN s ELSE SurvivorsRound(s, failed, g[k - 1], k)
  <2> HIDE DEF g
  <2> QED BY <1>4 DEF SurvivorsRound
<1> HIDE DEF g
<1> DEFINE S == {k \in 0 .. n : <<k, g[k]>> \in Reached}
<1>7. 0 \in S
  <2>1. 0 \in 0 .. n
    OBVIOUS
  <2>2. QED
    BY <1>6, <2>1
<1>8. ASSUME NEW k \in 0 .. n - 1, k \in S
      PROVE  k + 1 \in S
  <2>1. k + 1 \in 0 .. n /\ k + 1 # 0 /\ (k + 1) - 1 = k
    OBVIOUS
  <2>2. g[k + 1] = SurvivorsRound(s, failed, g[k], k + 1)
    BY <1>6, <2>1
  <2>3. QED
    BY <1>8, <2>1, <2>2
<1>9. n \in S
  <2> HIDE DEF S
  <2> QED BY <1>7, <1>8, AfterEveryRound
<1>10. QED
  BY <1>5, <1>9

\* Vec::swap_remove takes out one element of a list without repetitions, and
\* leaves the ones before it where they are.
LEMMA SwapRemoveTakesOne ==
  ASSUME NEW T, NEW t \in Seq(T), Injective(t), NEW i \in 1 .. Len(t)
  PROVE  /\ SwapRemove(t, i) \in Seq(T) /\ Injective(SwapRemove(t, i))
         /\ Len(SwapRemove(t, i)) = Len(t) - 1
         /\ \A j \in 1 .. i - 1 : SwapRemove(t, i)[j] = t[j]
         /\ ToSet(SwapRemove(t, i)) = ToSet(t) \ {t[i]}
<1> DEFINE r == SwapRemove(t, i)
           n == Len(t)
           end == t[n]
<1>1. /\ n \in Nat /\ n >= 1 /\ DOMAIN t = 1 .. n
      /\ \A j \in 1 .. n : t[j] \in T
  BY LenProperties, ElementOfSeq
<1>2. /\ Front(t) \in Seq(T) /\ Len(Front(t)) = n - 1
      /\ \A j \in 1 .. n - 1 : Front(t)[j] = t[j]
  BY <1>1, SubSeqProperties DEF Front
<1>3. DOMAIN Front(t) = 1 .. n - 1
  BY <1>2, LenProperties
<1>4. Last(t) = end
  BY DEF Last
<1>5. /\ r \in Seq(T) /\ Len(r) = n - 1 /\ DOMAIN r = 1 .. n - 1
      /\ \A j \in 1 .. n - 1 : r[j] = IF j = i THEN end ELSE t[j]
  <2>1. CASE i = n
    <3>1. r = Front(t)
      BY <2>1 DEF SwapRemove
    <3>2. QED
      BY <1>1, <1>2, <1>3, <2>1, <3>1
  <2>2. CASE i # n
    <3>1. r = [Front(t) EXCEPT ![i] = end]
      BY <1>4, <2>2 DEF SwapRemove
    <3>0. n \in 1 .. n /\ i \in 1 .. n
      BY <1>1
    <3> HIDE DEF r, n
    <3>2. i \in 1 .. n - 1 /\ end \in T
      BY <1>1, <2>2, <3>0
    <3> HIDE DEF end
    <3>3. Front(t) \in [1 .. n - 1 -> T]
      BY <1>2, <1>3, ElementOfSeq
    <3>4. r \in [1 .. n - 1 -> T]
      BY <3>1, <3>2, <3>3
    <3>5. \A j \in 1 .. n - 1 : r[j] = IF j = i THEN end ELSE t[j]
      BY <1>2, <3>1, <3>2, <3>3
    <3>6. n - 1 \in Nat
      BY <1>1 DEF n
    <3>7. r \in Seq(T)
      BY <3>4, <3>6, IsASeq
    <3>8. Len(r) = n - 1 /\ DOMAIN r = 1 .. n - 1
      BY <3>4, <3>6, <3>7, LenProperties
    <3>9. QED
      BY <3>5, <3>7, <3>8
  <2>3. QED
    BY <2>1, <2>2
<1> HIDE DEF r
<1>6. \A j, k \in 1 .. n : t[j] = t[k] => j = k
  BY <1>1 DEF Injective
<1>7. Injective(r)
  BY <1>1, <1>5, <1>6 DEF Injective
<1>8. ToSet(r) \subseteq ToSet(t) \ {t[i]}
  <2> SUFFICES ASSUME NEW j \in 1 .. n - 1
               PROVE  r[j] \in ToSet(t) \ {t[i]}
    BY <1>5 DEF ToSet
  <2>1. \E k \in 1 .. n : r[j] = t[k] /\ k # i
    BY <1>1, <1>5
  <2>2. QED
    BY <1>1, <1>6, <2>1 DEF ToSet
<1>9. ToSet(t) \ {t[i]} \subseteq ToSet(r)
  <2> SUFFICES ASSUME NEW j \in 1 .. n, t[j] # t[i]
               PROVE  \E k \in 1 .. n - 1 : r[k] = t[j]
    <3>1. ToSet(t) = {t[j] : j \in 1 .. n}
      BY <1>1 DEF ToSet
    <3>2. ToSet(r) = {r[k] : k \in 1 .. n - 1}
      BY <1>5 DEF ToSet
    <3> HIDE DEF n, end
    <3>3. QED
      BY <3>1, <3>2
  <2>1. CASE j = n
    <3>1. i \in 1 .. n - 1 /\ r[i] = t[j]
      BY <1>1, <1>5, <2>1
    <3>2. QED
      BY <3>1
  <2>2. CASE j # n
    <3>0. j \in 1 .. n - 1 /\ j # i
      <4>1. j # i
        OBVIOUS
      <4> HIDE DEF n
      <4>2. j \in 1 .. n - 1
        BY <1>1, <2>2
      <4>3. QED
        BY <4>1, <4>2
    <3>1. j \in 1 .. n - 1 /\ r[j] = t[j]
      BY <1>5, <3>0
    <3>2. QED
      BY <3>1
  <2>3. QED
    BY <2>1, <2>2
<1>10. \A j \in 1 .. i - 1 : r[j] = t[j]
  BY <1>1, <1>5
<1>11. QED
  BY <1>5, <1>7, <1>8, <1>9, <1>10 DEF r

\* Removed last to first, the failed clients are gone and no other is.
LEMMA SurvivorsAreTheRest ==
  ASSUME NEW T, NEW s \in Seq(T), Injective(s), NEW failed \in SUBSET DOMAIN s
  PROVE  /\ Survivors(s, failed) \in Seq(T) /\ Injective(Survivors(s, failed))
         /\ ToSet(Survivors(s, failed)) = ToSet(s) \ {s[i] : i \in failed}
<1> DEFINE n == Len(s)
           From(k) == {i \in failed : i > n - k}
           Rest(k, t) == /\ Injective(t) /\ Len(t) >= n - k
                         /\ \A j \in 1 .. n - k : t[j] = s[j]
                         /\ ToSet(t) = ToSet(s) \ {s[i] : i \in From(k)}
           Reached == {p \in (0 .. n) \X Seq(T) : Rest(p[1], p[2])}
<1>1. n \in Nat /\ DOMAIN s = 1 .. n
  BY LenProperties
<1>2. failed \in SUBSET (1 .. n)
  BY <1>1
<1>3. <<0, s>> \in Reached
  <2>1. From(0) = {}
    <3> HIDE DEF n
    <3> QED BY <1>1, <1>2
  <2>2. Rest(0, s)
    <3> HIDE DEF From
    <3>1. n >= n - 0
      BY <1>1
    <3>2. ToSet(s) = ToSet(s) \ {s[i] : i \in From(0)}
      BY <2>1
    <3>3. QED
      BY <3>1, <3>2
  <2> HIDE DEF Rest, n
  <2>3. QED
    BY <1>1, <2>2
<1>4. ASSUME NEW k \in 0 .. n - 1, NEW t, <<k, t>> \in Reached
      PROVE  <<k + 1, SurvivorsRound(s, failed, t, k + 1)>> \in Reached
  <2> DEFINE r == SurvivorsRound(s, failed, t, k + 1)
             i == n - k
  <2>1. t \in Seq(T) /\ Rest(k, t)
    BY <1>4
  <2>2. /\ k + 1 \in 0 .. n /\ n + 1 - (k + 1) = i /\ n - (k + 1) = i - 1
        /\ i \in 1 .. n
    <3> HIDE DEF n
    <3> QED BY <1>1
  <2>3. r = IF i \in failed THEN SwapRemove(t, i) ELSE t
    BY <2>2 DEF SurvivorsRound
  <2>4. Len(t) \in Nat /\ Len(t) >= i
    BY <2>1, LenProperties
  <2>5. /\ Injective(t) /\ \A j \in 1 .. i : t[j] = s[j]
        /\ ToSet(t) = ToSet(s) \ {s[j] : j \in From(k)}
    BY <2>1
  <2> HIDE DEF n, r
  <2>6. From(k + 1) = IF i \in failed THEN From(k) \cup {i} ELSE From(k)
    BY <1>1, <1>2, <2>2
  <2> HIDE DEF From
  <2>7. CASE i \in failed
    <3>1. i \in 1 .. Len(t) /\ t[i] = s[i]
      BY <2>2, <2>4, <2>5
    <3> HIDE DEF i
    <3>2. /\ r \in Seq(T) /\ Injective(r) /\ Len(r) = Len(t) - 1
          /\ \A j \in 1 .. i - 1 : r[j] = t[j]
          /\ ToSet(r) = ToSet(t) \ {t[i]}
      BY <2>1, <2>3, <2>5, <2>7, <3>1, SwapRemoveTakesOne
    <3>3. {s[j] : j \in From(k + 1)} = {s[j] : j \in From(k)} \cup {s[i]}
      BY <2>6, <2>7
    <3>4. ToSet(r) = ToSet(s) \ {s[j] : j \in From(k + 1)}
      BY <2>5, <3>1, <3>2, <3>3
    <3>5. Len(r) >= i - 1
      BY <2>2, <2>4, <3>2
    <3>6. \A j \in 1 .. i - 1 : r[j] = s[j]
      BY <2>2, <2>5, <3>2
    <3>7. Rest(k + 1, r)
      BY <2>2, <3>2, <3>4, <3>5, <3>6
    <3> HIDE DEF Rest
    <3>8. <<k + 1, r>> \in Reached
      BY <2>2, <3>2, <3>7
    <3>9. QED
      BY <3>8 DEF r
  <2>8. CASE i \notin failed
    <3>1. r = t /\ From(k + 1) = From(k)
      BY <2>3, <2>6, <2>8
    <3>2. Len(t) >= i - 1 /\ \A j \in 1 .. i - 1 : t[j] = s[j]
      BY <2>2, <2>4, <2>5
    <3> HIDE DEF i
    <3>3. Rest(k + 1, t)
      BY <2>2, <2>5, <3>1, <3>2
    <3> HIDE DEF Rest
    <3>4. <<k + 1, r>> \in Reached
      BY <2>1, <2>2, <3>1, <3>3
    <3>5. QED
      BY <3>4 DEF r
  <2>9. QED
    BY <2>7, <2>8
<1> HIDE DEF Reached
<1>5. <<n, Survivors(s, failed)>> \in Reached
  BY <1>1, <1>3, <1>4, SurvivorsKeeps DEF n
<1>6. Survivors(s, failed) \in Seq(T) /\ Rest(n, Survivors(s, failed))
  <2> HIDE DEF Rest
  <2> QED BY <1>5 DEF Reached
<1>7. From(n) = failed
  <2> HIDE DEF n
  <2> QED BY <1>1, <1>2
<1> HIDE DEF From
<1>8. QED
  BY <1>6, <1>7

Healths == {"away", "knocking", "reading", "stalled", "gone"}

\* A client is somewhere: outside, held by an accept thread, in the list of its
\* sink, or gone.
Known(i) == ToSet(clients[i]) \cup held[i]

\* What a client in the list was sent: the fixes from its joining on.
Sent(i, c) == heard[c] = [k \in 1 .. (offered[i] - since[c]) |-> since[c] + k]

\* The sinks from `at` on are not bound yet.
Binding ==
  main = "bind" =>
    /\ at \in Nat \ {0}
    /\ \A i \in Tcp : i >= at => acceptor[i] = "off"

SinkInv(i) ==
  /\ clients[i] \in Seq(Clients) /\ Injective(clients[i])
  /\ held[i] \subseteq Clients /\ (\A c, d \in held[i] : c = d)
  /\ acceptor[i] # "push" => held[i] = {}
  /\ held[i] \cap ToSet(clients[i]) = {}
  /\ \A c \in held[i] : heard[c] = <<>>
  /\ \A c \in Known(i) : health[c] \notin {"away", "knocking"}
  /\ \A c \in ToSet(clients[i]) : since[c] <= offered[i] /\ Sent(i, c)

\* Types, and what is so of those that no sink has seen.
Outside ==
  /\ offered \in [DOMAIN Sinks -> Nat]
  /\ since \in [Clients -> Nat] /\ health \in [Clients -> Healths]
  /\ DOMAIN heard = Clients
  /\ DOMAIN acceptor = Tcp /\ DOMAIN held = Tcp /\ DOMAIN clients = Tcp
  /\ main \in {"write", "stuck"} => at \in DOMAIN Sinks
  /\ \A c \in Clients : health[c] \in {"away", "knocking"} => heard[c] = <<>>

Apart == \A i, j \in Tcp : i # j => Known(i) \cap Known(j) = {}

NoneThrownOut ==
  ~ dropped => \A c \in Clients :
    health[c] \in {"reading", "stalled"} => \E i \in Tcp : c \in Known(i)

ServeInv == Binding /\ Outside /\ Apart /\ NoneThrownOut /\ \A i \in Tcp : SinkInv(i)

LEMMA TheSinks ==
  /\ Len(Sinks) \in Nat /\ DOMAIN Sinks = 1 .. Len(Sinks)
  /\ Tcp \subseteq DOMAIN Sinks /\ Tcp' = Tcp /\ Healths' = Healths
BY SinksAssumption, LenProperties DEF Tcp, Healths

LEMMA ServeStarts == SInit => ServeInv
<1> SUFFICES ASSUME SInit PROVE ServeInv
  OBVIOUS
<1>1. \A i \in Tcp : /\ clients[i] = <<>> /\ held[i] = {} /\ acceptor[i] = "off"
                     /\ ToSet(clients[i]) = {} /\ Injective(clients[i])
                     /\ Known(i) = {}
  BY DEF SInit, ToSet, Injective, Known
<1>2. \A i \in Tcp : SinkInv(i)
  <2> SUFFICES ASSUME NEW i \in Tcp PROVE SinkInv(i)
    OBVIOUS
  <2>1. <<>> \in Seq(Clients) /\ clients[i] = <<>>
    BY <1>1
  <2>2. clients[i] \in Seq(Clients)
    BY <2>1
  <2>3. QED
    BY <1>1, <2>2 DEF SinkInv
<1>3. Outside /\ \A c \in Clients : health[c] = "away"
  BY DEF SInit, Outside, Healths
<1>4. Binding
  BY <1>1 DEF SInit, Binding
<1>5. QED
  BY <1>1, <1>2, <1>3, <1>4 DEF ServeInv, Apart, NoneThrownOut

\* What concerns a sink is its own count and list, and the clients in them.
LEMMA SinkUntouched ==
  ASSUME NEW i \in Tcp, SinkInv(i), clients'[i] = clients[i], held'[i] = held[i],
         acceptor'[i] # "push" => acceptor[i] # "push",
         offered'[i] = offered[i],
         \A c \in Known(i) : /\ since'[c] = since[c] /\ heard'[c] = heard[c]
                             /\ health'[c] \notin {"away", "knocking"}
  PROVE  SinkInv(i)' /\ Known(i)' = Known(i)
<1>1. ToSet(clients[i])' = ToSet(clients[i])
  OBVIOUS
<1>2. Known(i)' = Known(i)
  BY <1>1 DEF Known
<1>3. Injective(clients[i])'
  BY DEF SinkInv, Injective
<1>4. \A c \in ToSet(clients[i]) : since'[c] = since[c] /\ heard'[c] = heard[c]
  BY DEF Known
<1>5. \A c \in ToSet(clients[i]) : (since[c] <= offered[i] /\ Sent(i, c))'
  BY <1>4 DEF SinkInv, Sent
<1>6. \A c \in held[i] : heard'[c] = <<>>
  BY DEF SinkInv, Known
<1>7. QED
  BY <1>1, <1>2, <1>3, <1>5, <1>6 DEF SinkInv

\* A step that leaves lists, clients and counts alone keeps the invariant.
LEMMA ListsUntouched ==
  ASSUME ServeInv, UNCHANGED <<offered, since, health, heard, clients, held>>,
         Binding', main' \in {"write", "stuck"} => at' \in DOMAIN Sinks,
         DOMAIN acceptor' = Tcp,
         \A i \in Tcp : acceptor[i] = "push" => acceptor'[i] = "push",
         ~ dropped' => ~ dropped
  PROVE  ServeInv'
<1>1. \A i \in Tcp : SinkInv(i)' /\ Known(i)' = Known(i)
  <2> SUFFICES ASSUME NEW i \in Tcp PROVE SinkInv(i)' /\ Known(i)' = Known(i)
    OBVIOUS
  <2>1. SinkInv(i)
    BY DEF ServeInv
  <2>2. QED
    BY <2>1, SinkUntouched DEF SinkInv
<1>2. Outside'
  BY TheSinks DEF ServeInv, Outside
<1>3. Apart' /\ NoneThrownOut'
  BY <1>1, TheSinks DEF ServeInv, Apart, NoneThrownOut
<1>4. QED
  BY <1>1, <1>2, <1>3, TheSinks DEF ServeInv

\* The main thread but for its writes, the camera and the engine do.
LEMMA OtherThreads ==
  ASSUME ServeInv,
         \/ Bind \/ StartCapture \/ Poll \/ Receive \/ Stall \/ StopDispatch \/ Join
         \/ Capture \/ Interrupt \/ Publish
  PROVE  ServeInv'
<1>1. Len(Sinks) \in Nat /\ DOMAIN Sinks = 1 .. Len(Sinks) /\ Tcp \subseteq DOMAIN Sinks
  BY TheSinks
<1>2. UNCHANGED <<offered, since, health, heard, clients, held>>
  BY DEF Bind, StartCapture, Poll, Receive, Stall, StopDispatch, Join, Capture, Warmup,
         CheckFlag, Dequeue, Interrupt, Publish, cvars, tvars
<1>3. main' \in {"write", "stuck"} => at' \in DOMAIN Sinks
  <2>1. CASE Receive
    <3>1. Sinks # <<>> => 1 \in DOMAIN Sinks
      BY <1>1, SinksAssumption, EmptySeq
    <3>2. QED
      BY <2>1, <3>1 DEF Receive
  <2>2. CASE ~ Receive
    BY <2>2 DEF ServeInv, Outside, Bind, StartCapture, Poll, Stall, StopDispatch, Join,
                Capture, Warmup, CheckFlag, Dequeue, Interrupt, Publish
  <2>3. QED
    BY <2>1, <2>2
<1>4. DOMAIN acceptor = Tcp
  BY DEF ServeInv, Outside
<1>5. CASE Bind
  <2>1. at \in Nat \ {0} /\ \A i \in Tcp : i >= at => acceptor[i] = "off"
    BY <1>5 DEF Bind, ServeInv, Binding
  <2>2. /\ dropped' = dropped
        /\ \/ main' = "failed" /\ acceptor' = acceptor
           \/ /\ main' = main /\ at' = at + 1
              /\ acceptor' = [i \in Tcp |-> IF i = at THEN "check" ELSE acceptor[i]]
    BY <1>5 DEF Bind
  <2>3. /\ DOMAIN acceptor' = Tcp
        /\ \A i \in Tcp : i # at => acceptor'[i] = acceptor[i]
    BY <1>4, <2>2
  <2>4. \A i \in Tcp : acceptor[i] = "push" => acceptor'[i] = "push"
    BY <1>1, <2>1, <2>3
  <2>5. Binding'
    <3>1. at' = at + 1 => \A i \in Tcp : i >= at' => i >= at /\ i # at
      BY <1>1, <2>1
    <3>2. QED
      BY <2>1, <2>2, <2>3, <3>1, TheSinks DEF Binding
  <2>6. QED
    BY <1>2, <1>3, <2>2, <2>3, <2>4, <2>5, ListsUntouched
<1>6. CASE ~ Bind
  <2>1. UNCHANGED acceptor /\ (~ dropped' => ~ dropped)
    BY <1>6 DEF StartCapture, Poll, Receive, Stall, StopDispatch, Join, Capture, Warmup,
                CheckFlag, Dequeue, Interrupt, Publish, tvars
  <2>2. main' = "bind" => main = "bind" /\ at' = at
    BY <1>6 DEF StartCapture, Poll, Receive, Stall, StopDispatch, Join, Capture, Warmup,
                CheckFlag, Dequeue, Interrupt, Publish
  <2>3. Binding'
    BY <2>1, <2>2, TheSinks DEF ServeInv, Binding
  <2>4. QED
    BY <1>2, <1>3, <1>4, <2>1, <2>3, ListsUntouched
<1>7. QED
  BY <1>5, <1>6

LEMMA OneMoreFix ==
  ASSUME NEW o \in Nat, NEW b \in Nat, b <= o
  PROVE  Append([k \in 1 .. (o - b) |-> b + k], o + 1)
           = [k \in 1 .. (o + 1 - b) |-> b + k]
<1> DEFINE h == [k \in 1 .. (o - b) |-> b + k]
           g == [k \in 1 .. (o + 1 - b) |-> b + k]
           n == o - b
<1>1. n \in Nat /\ o + 1 - b = n + 1 /\ o + 1 = b + (n + 1)
  OBVIOUS
<1> HIDE DEF n
<1>2. h \in [1 .. n -> Nat] /\ g \in [1 .. n + 1 -> Nat]
  BY <1>1 DEF n
<1>3. h \in Seq(Nat) /\ g \in Seq(Nat) /\ Len(h) = n /\ Len(g) = n + 1
  <2> HIDE DEF h, g
  <2>1. h \in Seq(Nat) /\ g \in Seq(Nat)
    BY <1>1, <1>2, IsASeq
  <2>2. QED
    BY <1>1, <1>2, <2>1, LenProperties
<1>4. \A k \in 1 .. n : h[k] = b + k
  BY DEF n
<1>5. \A k \in 1 .. n + 1 : g[k] = b + k
  BY <1>1
<1> HIDE DEF h, g
<1>6. /\ Append(h, o + 1) \in Seq(Nat) /\ Len(Append(h, o + 1)) = n + 1
      /\ \A k \in 1 .. n : Append(h, o + 1)[k] = h[k]
      /\ Append(h, o + 1)[n + 1] = o + 1
  BY <1>1, <1>3, AppendProperties
<1>7. \A k \in 1 .. n + 1 : Append(h, o + 1)[k] = g[k]
  <2> SUFFICES ASSUME NEW k \in 1 .. n + 1 PROVE Append(h, o + 1)[k] = g[k]
    OBVIOUS
  <2>1. CASE k = n + 1
    BY <1>1, <1>5, <1>6, <2>1
  <2>2. CASE k # n + 1
    <3>1. k \in 1 .. n
      BY <1>1, <2>2
    <3>2. QED
      BY <1>4, <1>5, <1>6, <3>1
  <2>3. QED
    BY <2>1, <2>2
<1>8. Append(h, o + 1) = g
  BY <1>1, <1>3, <1>6, <1>7, SeqEqual
<1>9. QED
  BY <1>8 DEF h, g

\* A step that concerns one sink only: the others and their clients are as
\* they were.
LEMMA OneSinkTouched ==
  ASSUME ServeInv, Binding', Outside', NoneThrownOut', NEW i \in Tcp, SinkInv(i)',
         \A j \in Tcp : j # i => /\ clients'[j] = clients[j] /\ held'[j] = held[j]
                                 /\ acceptor'[j] = acceptor[j]
                                 /\ offered'[j] = offered[j],
         \A j \in Tcp : j # i => \A c \in Known(j) :
           /\ since'[c] = since[c] /\ heard'[c] = heard[c]
           /\ health'[c] \notin {"away", "knocking"},
         \A j \in Tcp : j # i => Known(i)' \cap Known(j) = {}
  PROVE  ServeInv'
<1>1. \A j \in Tcp : j # i => SinkInv(j)' /\ Known(j)' = Known(j)
  <2> SUFFICES ASSUME NEW j \in Tcp, j # i PROVE SinkInv(j)' /\ Known(j)' = Known(j)
    OBVIOUS
  <2>1. SinkInv(j)
    BY DEF ServeInv
  <2>2. QED
    BY <2>1, SinkUntouched
<1>2. Apart'
  BY <1>1, TheSinks DEF ServeInv, Apart
<1>3. QED
  BY <1>1, <1>2, TheSinks DEF ServeInv

\* A fix to a sink that is no TCP listener touches no client.
LEMMA OtherSinkWritten ==
  ASSUME ServeInv, main \in {"write", "stuck"}, OneWrite, Sinks[at] # "tcp"
  PROVE  ServeInv'
<1>1. /\ main # "bind" /\ at \in DOMAIN Sinks /\ at' = at + 1
      /\ main' = IF at = Len(Sinks) THEN "poll" ELSE "write"
      /\ offered' = [offered EXCEPT ![at] = @ + 1]
      /\ UNCHANGED <<acceptor, held, clients, health, heard, since, dropped>>
  BY DEF ServeInv, Outside, OneWrite, AfterWrite
<1>2. main' \in {"write", "stuck"} => at' \in DOMAIN Sinks
  BY <1>1, TheSinks
<1>3. offered' \in [DOMAIN Sinks -> Nat]
  BY <1>1 DEF ServeInv, Outside
<1>4. ASSUME NEW i \in Tcp
      PROVE  SinkInv(i)' /\ Known(i)' = Known(i)
  <2>1. i \in DOMAIN Sinks /\ i # at
    BY DEF Tcp
  <2>2. offered'[i] = offered[i]
    BY <1>1, <2>1 DEF ServeInv, Outside
  <2>3. SinkInv(i)
    BY DEF ServeInv
  <2>4. \A c \in Known(i) : health'[c] \notin {"away", "knocking"}
    BY <1>1, <2>3 DEF SinkInv
  <2>5. QED
    BY <1>1, <2>2, <2>3, <2>4, SinkUntouched
<1>5. Binding' /\ Apart' /\ NoneThrownOut'
  BY <1>1, <1>4, TheSinks DEF ServeInv, Binding, Apart, NoneThrownOut
<1>6. Outside'
  BY <1>1, <1>2, <1>3, TheSinks DEF ServeInv, Outside
<1>7. QED
  BY <1>4, <1>5, <1>6, TheSinks DEF ServeInv

\* A fix to every client in the list: those it fails for leave the list, the
\* others have it after all the earlier ones.
LEMMA TcpSinkWritten ==
  ASSUME ServeInv, main \in {"write", "stuck"}, OneWrite, Sinks[at] = "tcp"
  PROVE  ServeInv'
<1> DEFINE o == offered[at]
<1>1. /\ main # "bind" /\ at \in DOMAIN Sinks /\ at' = at + 1
      /\ main' = IF at = Len(Sinks) THEN "poll" ELSE "write"
      /\ offered' = [offered EXCEPT ![at] = @ + 1]
      /\ Broadcast(at, o + 1)
      /\ UNCHANGED <<acceptor, held, since, dropped>>
  BY DEF ServeInv, Outside, OneWrite, AfterWrite
<1>2. main' \in {"write", "stuck"} => at' \in DOMAIN Sinks
  BY <1>1, TheSinks
<1>3. PICK i \in Tcp : i = at
  BY <1>1 DEF Tcp
<1>4. /\ offered' \in [DOMAIN Sinks -> Nat]
      /\ o \in Nat /\ offered'[i] = o + 1 /\ offered[i] = o
      /\ \A j \in Tcp : j # i => offered'[j] = offered[j]
  BY <1>1, <1>3, TheSinks DEF ServeInv, Outside
<1> HIDE DEF o
<1>0. Broadcast(i, o + 1)
  BY <1>1, <1>3
<1>5. PICK failed \in SUBSET {n \in DOMAIN clients[i] :
                               health[clients[i][n]] # "reading"} :
        LET lost == {clients[i][n] : n \in failed}
        IN /\ clients' = [clients EXCEPT ![i] = Survivors(@, failed)]
           /\ heard' = [c \in Clients |->
                          IF c \in ToSet(clients[i]) \ lost
                          THEN Append(heard[c], o + 1) ELSE heard[c]]
           /\ health' = [c \in Clients |->
                           IF c \in lost THEN "gone" ELSE health[c]]
  BY <1>0 DEF Broadcast
<1> DEFINE lost == {clients[i][n] : n \in failed}
           list == clients[i]
<1>6. /\ list \in Seq(Clients) /\ Injective(list) /\ failed \in SUBSET DOMAIN list
      /\ SinkInv(i)
  BY DEF ServeInv, SinkInv
<1>7. /\ clients'[i] = Survivors(list, failed)
      /\ \A j \in Tcp : j # i => clients'[j] = clients[j]
      /\ DOMAIN clients' = Tcp
  BY <1>5 DEF ServeInv, Outside
<1>8. /\ clients'[i] \in Seq(Clients) /\ Injective(clients'[i])
      /\ ToSet(clients'[i]) = ToSet(list) \ lost
  BY <1>6, <1>7, SurvivorsAreTheRest
<1>9. lost \subseteq ToSet(list) /\ ToSet(list) \subseteq Clients
  BY <1>6, ElementOfSeq, LenProperties DEF ToSet
<1> HIDE DEF lost, list
<1>10. /\ \A c \in Clients : /\ c \in lost => health'[c] = "gone"
                             /\ c \notin lost => health'[c] = health[c]
       /\ \A c \in Clients : IF c \in ToSet(list) \ lost
                             THEN heard'[c] = Append(heard[c], o + 1)
                             ELSE heard'[c] = heard[c]
       /\ DOMAIN heard' = Clients
       /\ health' \in [Clients -> Healths]
  BY <1>5 DEF lost, list, ServeInv, Outside, Healths
<1>11. Known(i) = ToSet(list) \cup held[i] /\ Known(i)' = Known(i) \ lost
  BY <1>1, <1>6, <1>8, <1>9 DEF Known, SinkInv, list
<1>12. \A j \in Tcp : Known(j) \subseteq Clients
  BY ElementOfSeq, LenProperties DEF ServeInv, SinkInv, Known, ToSet
<1>13. ASSUME NEW c \in ToSet(clients'[i])
       PROVE  (since[c] <= offered[i] /\ Sent(i, c))'
  <2>1. c \in ToSet(list) \ lost /\ c \in Clients
    BY <1>8, <1>9
  <2>2. since[c] \in Nat /\ since[c] <= o /\ since'[c] = since[c]
    BY <1>1, <1>4, <1>6, <2>1 DEF ServeInv, Outside, SinkInv, list
  <2>3. heard[c] = [k \in 1 .. (o - since[c]) |-> since[c] + k]
    BY <1>4, <1>6, <2>1 DEF SinkInv, Sent, list
  <2>4. heard'[c] = Append(heard[c], o + 1)
    BY <1>10, <2>1
  <2>5. heard'[c] = [k \in 1 .. (o + 1 - since[c]) |-> since[c] + k]
    <3>1. Append([k \in 1 .. (o - since[c]) |-> since[c] + k], o + 1)
            = [k \in 1 .. (o + 1 - since[c]) |-> since[c] + k]
      BY <1>4, <2>2, OneMoreFix
    <3>2. QED
      BY <2>3, <2>4, <3>1
  <2>6. QED
    BY <1>4, <2>2, <2>5 DEF Sent
<1>14. ASSUME NEW c \in Clients, c \notin ToSet(list)
       PROVE  health'[c] = health[c] /\ heard'[c] = heard[c]
  BY <1>9, <1>10, <1>14
<1>15. \A c \in Known(i)' : health'[c] \notin {"away", "knocking"}
  BY <1>6, <1>10, <1>11, <1>12 DEF SinkInv
<1>16. SinkInv(i)'
  <2>1. \A c \in held[i] : c \in Clients /\ c \notin ToSet(list)
    BY <1>6 DEF SinkInv, list
  <2>2. \A c \in held'[i] : heard'[c] = <<>>
    BY <1>1, <1>6, <1>14, <2>1 DEF SinkInv
  <2>3. held'[i] \cap ToSet(clients'[i]) = {}
    BY <1>1, <1>8, <2>1
  <2>4. Injective(clients[i])'
    BY <1>8 DEF Injective
  <2>5. QED
    BY <1>1, <1>6, <1>8, <1>13, <1>15, <2>2, <2>3, <2>4 DEF SinkInv
<1>17. ASSUME NEW j \in Tcp, j # i, NEW c \in Known(j)
       PROVE  /\ since'[c] = since[c] /\ heard'[c] = heard[c]
              /\ health'[c] \notin {"away", "knocking"}
  <2>1. c \in Clients /\ c \notin Known(i) /\ health[c] \notin {"away", "knocking"}
    BY <1>12, <1>17 DEF ServeInv, Apart, SinkInv
  <2>2. QED
    BY <1>1, <1>11, <1>14, <2>1
<1>18. Outside'
  <2>1. \A c \in Clients : health'[c] \in {"away", "knocking"} => heard'[c] = <<>>
    <3> SUFFICES ASSUME NEW c \in Clients, health'[c] \in {"away", "knocking"}
                 PROVE  heard'[c] = <<>>
      OBVIOUS
    <3>1. c \notin lost /\ health[c] \in {"away", "knocking"}
      BY <1>10
    <3>2. c \notin ToSet(list)
      BY <1>6, <1>11, <3>1 DEF SinkInv
    <3>3. QED
      BY <1>14, <3>1, <3>2 DEF ServeInv, Outside
  <2>2. QED
    BY <1>1, <1>2, <1>4, <1>7, <1>10, <2>1, TheSinks DEF ServeInv, Outside
<1>19. NoneThrownOut'
  <2> SUFFICES ASSUME ~ dropped, NEW c \in Clients, health'[c] \in {"reading", "stalled"}
               PROVE  \E j \in Tcp : c \in Known(j)'
    BY <1>1, TheSinks DEF NoneThrownOut
  <2>1. c \notin lost /\ health[c] \in {"reading", "stalled"}
    BY <1>10
  <2>2. PICK j \in Tcp : c \in Known(j)
    BY <2>1 DEF ServeInv, NoneThrownOut
  <2>3. CASE j = i
    BY <1>11, <2>1, <2>2, <2>3
  <2>4. CASE j # i
    BY <1>1, <1>7, <2>2, <2>4 DEF Known
  <2>5. QED
    BY <2>3, <2>4
<1>20. Binding'
  BY <1>1 DEF Binding
<1>21. \A j \in Tcp : j # i => Known(i)' \cap Known(j) = {}
  BY <1>11 DEF ServeInv, Apart
<1>22. QED
  BY <1>1, <1>4, <1>7, <1>16, <1>17, <1>18, <1>19, <1>20, <1>21, OneSinkTouched

\* An accept thread that is running belongs to a sink that is bound.
LEMMA BoundSinkMoves ==
  ASSUME ServeInv, NEW i \in Tcp, acceptor[i] # "off", UNCHANGED <<main, at>>,
         \A j \in Tcp : j # i => acceptor'[j] = acceptor[j]
  PROVE  Binding'
BY TheSinks DEF ServeInv, Binding

\* What one sink knows of lies outside what the others know of.
LEMMA OthersKnown ==
  ASSUME ServeInv, NEW i \in Tcp, NEW j \in Tcp, j # i, NEW c \in Known(j)
  PROVE  c \in Clients /\ c \notin Known(i) /\ health[c] \notin {"away", "knocking"}
<1>1. SinkInv(j)
  BY DEF ServeInv
<1>2. Known(j) \subseteq Clients
  BY <1>1, ElementOfSeq, LenProperties DEF SinkInv, Known, ToSet
<1>3. QED
  BY <1>1, <1>2 DEF ServeInv, Apart, SinkInv

\* The accept threads and the peers.
LEMMA AcceptorChecks ==
  ASSUME ServeInv, NEW i \in Tcp, CheckDropped(i)
  PROVE  ServeInv'
<1>1. /\ acceptor[i] = "check"
      /\ UNCHANGED <<main, at, dropped, offered, held, health, heard, since>>
  BY DEF CheckDropped
<1>2. CASE dropped
  <2>1. /\ acceptor' = [acceptor EXCEPT ![i] = "stopped"]
        /\ clients' = [clients EXCEPT ![i] = <<>>]
    BY <1>2 DEF CheckDropped
  <2>2. /\ DOMAIN acceptor' = Tcp /\ DOMAIN clients' = Tcp
        /\ acceptor'[i] = "stopped" /\ clients'[i] = <<>>
        /\ \A j \in Tcp : j # i => acceptor'[j] = acceptor[j] /\ clients'[j] = clients[j]
    BY <2>1 DEF ServeInv, Outside
  <2>3. SinkInv(i) /\ held[i] = {}
    BY <1>1 DEF ServeInv, SinkInv
  <2>4. /\ ToSet(clients[i])' = {} /\ Injective(clients[i])' /\ Known(i)' = {}
        /\ clients'[i] \in Seq(Clients)
    <3>1. <<>> \in Seq(Clients)
      OBVIOUS
    <3>2. QED
      BY <1>1, <2>2, <2>3, <3>1 DEF ToSet, Injective, Known
  <2>5. SinkInv(i)'
    BY <1>1, <2>2, <2>3, <2>4 DEF SinkInv
  <2>6. Outside' /\ NoneThrownOut'
    BY <1>1, <1>2, <2>2, TheSinks DEF ServeInv, Outside, NoneThrownOut
  <2>7. Binding'
    BY <1>1, <2>2, BoundSinkMoves
  <2>8. QED
    BY <1>1, <2>2, <2>4, <2>5, <2>6, <2>7, OneSinkTouched, OthersKnown
<1>3. CASE ~ dropped
  <2>1. acceptor' = [acceptor EXCEPT ![i] = "accept"] /\ clients' = clients
    BY <1>3 DEF CheckDropped
  <2>2. DOMAIN acceptor' = Tcp /\ \A j \in Tcp : j # i => acceptor'[j] = acceptor[j]
    BY <2>1 DEF ServeInv, Outside
  <2>3. \A j \in Tcp : acceptor[j] = "push" => acceptor'[j] = "push"
    BY <1>1, <2>2
  <2>4. Binding' /\ (main' \in {"write", "stuck"} => at' \in DOMAIN Sinks)
    BY <1>1, <2>2, BoundSinkMoves DEF ServeInv, Outside
  <2>5. QED
    BY <1>1, <2>1, <2>2, <2>3, <2>4, ListsUntouched
<1>4. QED
  BY <1>2, <1>3

LEMMA AcceptorAnswers ==
  ASSUME ServeInv, NEW i \in Tcp, NEW c \in Clients, acceptor[i] = "accept",
         Answered(i, c),
         UNCHANGED <<main, at, dropped, offered, clients, heard, since>>
  PROVE  ServeInv'
<1>1. SinkInv(i) /\ held[i] = {} /\ health[c] = "knocking" /\ heard[c] = <<>>
  BY DEF ServeInv, Outside, SinkInv, Answered
<1>2. /\ DOMAIN acceptor' = Tcp /\ DOMAIN held' = Tcp
      /\ \A j \in Tcp : j # i => acceptor'[j] = acceptor[j] /\ held'[j] = held[j]
      /\ health' \in [Clients -> Healths]
      /\ \A d \in Clients : d # c => health'[d] = health[d]
      /\ \/ acceptor'[i] = "push" /\ held'[i] = {c} /\ health'[c] = "reading"
         \/ acceptor'[i] = "check" /\ held'[i] = {} /\ health'[c] = "gone"
  BY <1>1 DEF ServeInv, Outside, Answered, Healths
<1>3. \A j \in Tcp : c \notin Known(j) /\ Known(j) \subseteq Clients
  <2> SUFFICES ASSUME NEW j \in Tcp PROVE c \notin Known(j) /\ Known(j) \subseteq Clients
    OBVIOUS
  <2>1. SinkInv(j)
    BY DEF ServeInv
  <2>2. QED
    BY <1>1, <2>1, ElementOfSeq, LenProperties DEF SinkInv, Known, ToSet
<1>4. /\ Known(i) = ToSet(clients[i]) /\ Known(i)' = ToSet(clients[i]) \cup held'[i]
      /\ ToSet(clients[i])' = ToSet(clients[i]) /\ Injective(clients[i])'
  BY <1>1 DEF Known, Injective, SinkInv
<1>5. \A d \in Known(i)' : health'[d] \notin {"away", "knocking"}
  BY <1>1, <1>2, <1>3, <1>4 DEF SinkInv
<1>6. SinkInv(i)'
  <2>1. \A d : Sent(i, d)' <=> Sent(i, d)
    BY DEF Sent
  <2>2. held'[i] \cap ToSet(clients[i]) = {} /\ held'[i] \subseteq Clients
    BY <1>2, <1>3, <1>4
  <2>3. \A d \in held'[i] : heard'[d] = <<>>
    BY <1>1, <1>2
  <2>4. QED
    BY <1>1, <1>2, <1>4, <1>5, <2>1, <2>2, <2>3 DEF SinkInv
<1>7. Outside'
  <2>1. \A d \in Clients : health'[d] \in {"away", "knocking"} => heard'[d] = <<>>
    BY <1>1, <1>2 DEF ServeInv, Outside
  <2>2. QED
    BY <1>2, <2>1, TheSinks DEF ServeInv, Outside
<1>8. NoneThrownOut'
  <2> SUFFICES ASSUME ~ dropped, NEW d \in Clients, health'[d] \in {"reading", "stalled"}
               PROVE  \E j \in Tcp : d \in Known(j)'
    BY TheSinks DEF NoneThrownOut
  <2>1. CASE d = c
    BY <1>2, <1>4, <2>1
  <2>2. CASE d # c
    <3>1. PICK j \in Tcp : d \in Known(j)
      BY <1>2, <2>2 DEF ServeInv, NoneThrownOut
    <3>2. j # i => Known(j)' = Known(j)
      BY <1>2 DEF Known
    <3>3. QED
      BY <1>4, <3>1, <3>2
  <2>3. QED
    BY <2>1, <2>2
<1>9. Binding'
  BY <1>2, BoundSinkMoves
<1>10. ASSUME NEW j \in Tcp, j # i
       PROVE  /\ Known(i)' \cap Known(j) = {}
              /\ \A d \in Known(j) : health'[d] \notin {"away", "knocking"}
  <2>1. Known(i) \cap Known(j) = {}
    BY <1>10 DEF ServeInv, Apart
  <2>2. QED
    BY <1>2, <1>3, <1>4, <1>10, <2>1, OthersKnown
<1>11. QED
  BY <1>2, <1>6, <1>7, <1>8, <1>9, <1>10, OneSinkTouched

LEMMA AcceptorAccepts ==
  ASSUME ServeInv, NEW i \in Tcp, Accept(i)
  PROVE  ServeInv'
<1>1. /\ acceptor[i] = "accept"
      /\ UNCHANGED <<main, at, dropped, offered, clients, heard, since>>
  BY DEF Accept
<1>2. CASE acceptor' = [acceptor EXCEPT ![i] = "check"] /\ UNCHANGED <<held, health>>
  <2>1. DOMAIN acceptor' = Tcp /\ \A j \in Tcp : j # i => acceptor'[j] = acceptor[j]
    BY <1>2 DEF ServeInv, Outside
  <2>2. \A j \in Tcp : acceptor[j] = "push" => acceptor'[j] = "push"
    BY <1>1, <2>1
  <2>3. Binding' /\ (main' \in {"write", "stuck"} => at' \in DOMAIN Sinks)
    BY <1>1, <2>1, BoundSinkMoves DEF ServeInv, Outside
  <2>4. QED
    BY <1>1, <1>2, <2>1, <2>2, <2>3, ListsUntouched
<1>3. CASE \E c \in Clients : Answered(i, c)
  BY <1>1, <1>3, AcceptorAnswers
<1>4. QED
  BY <1>2, <1>3 DEF Accept

LEMMA AcceptorPushes ==
  ASSUME ServeInv, NEW i \in Tcp, Push(i)
  PROVE  ServeInv'
<1>1. PICK c \in held[i] : /\ clients' = [clients EXCEPT ![i] = Append(@, c)]
                           /\ since' = [since EXCEPT ![c] = offered[i]]
  BY DEF Push
<1>2. /\ acceptor[i] = "push" /\ acceptor' = [acceptor EXCEPT ![i] = "check"]
      /\ held' = [held EXCEPT ![i] = {}]
      /\ UNCHANGED <<main, at, dropped, offered, health, heard>>
  BY DEF Push
<1>3. /\ SinkInv(i) /\ held[i] = {c} /\ c \in Clients /\ c \notin ToSet(clients[i])
      /\ c \in Known(i) /\ heard[c] = <<>>
  BY DEF ServeInv, SinkInv, Known
<1>4. offered[i] \in Nat
  BY TheSinks DEF ServeInv, Outside
<1>5. /\ DOMAIN acceptor' = Tcp /\ DOMAIN held' = Tcp /\ DOMAIN clients' = Tcp
      /\ acceptor'[i] = "check" /\ held'[i] = {} /\ clients'[i] = Append(clients[i], c)
      /\ \A j \in Tcp : j # i => /\ acceptor'[j] = acceptor[j] /\ held'[j] = held[j]
                                 /\ clients'[j] = clients[j]
  BY <1>1, <1>2 DEF ServeInv, Outside
<1> DEFINE n == Len(clients[i])
<1>6. /\ n \in Nat /\ DOMAIN clients[i] = 1 .. n
      /\ clients'[i] \in Seq(Clients) /\ DOMAIN clients'[i] = 1 .. n + 1
      /\ \A k \in 1 .. n : clients'[i][k] = clients[i][k]
      /\ clients'[i][n + 1] = c
  <2>1. clients[i] \in Seq(Clients)
    BY <1>3 DEF SinkInv
  <2>2. /\ Append(clients[i], c) \in Seq(Clients)
        /\ Len(Append(clients[i], c)) = n + 1
    BY <1>3, <2>1, AppendProperties
  <2>3. QED
    BY <1>3, <1>5, <2>1, <2>2, AppendProperties, LenProperties
<1> HIDE DEF n
<1>7. ToSet(clients[i])' = ToSet(clients[i]) \cup {c}
  <2>1. \A k \in 1 .. n + 1 : k = n + 1 \/ k \in 1 .. n
    BY <1>6
  <2>2. 1 .. n \subseteq 1 .. n + 1 /\ n + 1 \in 1 .. n + 1
    BY <1>6
  <2>3. QED
    BY <1>6, <2>1, <2>2 DEF ToSet
<1>8. Injective(clients[i])'
  <2> SUFFICES ASSUME NEW k \in 1 .. n + 1, NEW l \in 1 .. n + 1,
                      clients'[i][k] = clients'[i][l]
               PROVE  k = l
    BY <1>6 DEF Injective
  <2>1. \A j \in 1 .. n : clients[i][j] # c
    BY <1>3, <1>6 DEF ToSet
  <2>2. \A j \in 1 .. n + 1 : j = n + 1 \/ j \in 1 .. n
    BY <1>6
  <2>3. k \in 1 .. n /\ l \in 1 .. n => k = l
    BY <1>3, <1>6 DEF SinkInv, Injective
  <2>4. QED
    BY <1>6, <2>1, <2>2, <2>3
<1>9. Known(i)' = Known(i)
  BY <1>3, <1>5, <1>7 DEF Known
<1>10. since' \in [Clients -> Nat] /\ since'[c] = offered[i]
       /\ \A d \in Clients : d # c => since'[d] = since[d]
  BY <1>1, <1>3, <1>4 DEF ServeInv, Outside
<1>11. ASSUME NEW d \in ToSet(clients[i])'
       PROVE  (since[d] <= offered[i] /\ Sent(i, d))'
  <2>1. CASE d = c
    <3>1. heard'[d] = <<>> /\ since'[d] = offered[i]
      BY <1>2, <1>3, <1>10, <2>1
    <3>2. [k \in 1 .. (offered[i] - offered[i]) |-> offered[i] + k] = <<>>
      BY <1>4
    <3>3. QED
      BY <1>2, <1>4, <3>1, <3>2 DEF Sent
  <2>2. CASE d # c
    <3>1. d \in ToSet(clients[i]) /\ d \in Clients
      <4>1. ToSet(clients[i]) \subseteq Clients
        BY <1>3, ElementOfSeq, LenProperties DEF SinkInv, ToSet
      <4>2. QED
        BY <1>7, <2>2, <4>1
    <3>2. since'[d] = since[d] /\ since[d] <= offered[i] /\ Sent(i, d)
      BY <1>3, <1>10, <2>2, <3>1 DEF SinkInv
    <3>3. QED
      BY <1>2, <3>2 DEF Sent
  <2>3. QED
    BY <2>1, <2>2
<1>12. SinkInv(i)'
  <2>1. \A d \in Known(i)' : health'[d] \notin {"away", "knocking"}
    BY <1>2, <1>3, <1>9 DEF SinkInv
  <2>2. QED
    BY <1>5, <1>6, <1>8, <1>11, <2>1 DEF SinkInv
<1>13. Outside'
  BY <1>2, <1>5, <1>10, TheSinks DEF ServeInv, Outside
<1>14. \A j \in Tcp : Known(j)' = Known(j)
  BY <1>5, <1>9 DEF Known
<1>15. NoneThrownOut'
  BY <1>2, <1>14, TheSinks DEF ServeInv, NoneThrownOut
<1>16. Binding'
  BY <1>2, <1>5, BoundSinkMoves
<1>17. ASSUME NEW j \in Tcp, j # i, NEW d \in Known(j)
       PROVE  /\ since'[d] = since[d] /\ heard'[d] = heard[d]
              /\ health'[d] \notin {"away", "knocking"}
  BY <1>2, <1>3, <1>10, <1>17, OthersKnown
<1>18. \A j \in Tcp : j # i => Known(i)' \cap Known(j) = {}
  BY <1>9 DEF ServeInv, Apart
<1>19. QED
  BY <1>2, <1>5, <1>12, <1>13, <1>15, <1>16, <1>17, <1>18, OneSinkTouched

LEMMA PeersMove == ServeInv /\ Peer => ServeInv'
<1> SUFFICES ASSUME ServeInv, Peer PROVE ServeInv'
  OBVIOUS
<1>1. PICK c \in Clients, h \in {"knocking", "reading", "stalled", "gone"} :
        /\ <<health[c], h>> \in {<<"away", "knocking">>, <<"reading", "stalled">>,
                                 <<"stalled", "reading">>, <<"stalled", "gone">>,
                                 <<"knocking", "gone">>}
        /\ health' = [health EXCEPT ![c] = h]
  BY DEF Peer
<1>2. UNCHANGED <<main, at, dropped, offered, acceptor, held, clients, heard, since>>
  BY DEF Peer
<1>3. /\ health' \in [Clients -> Healths] /\ health'[c] = h
      /\ \A d \in Clients : d # c => health'[d] = health[d]
  BY <1>1 DEF ServeInv, Outside, Healths
<1>4. /\ h = "knocking" => health[c] = "away"
      /\ h \in {"reading", "stalled"} => health[c] \in {"reading", "stalled"}
  BY <1>1
<1>5. ASSUME NEW j \in Tcp
      PROVE  SinkInv(j)' /\ Known(j)' = Known(j)
  <2>1. SinkInv(j)
    BY DEF ServeInv
  <2>2. Known(j) \subseteq Clients
    BY <2>1, ElementOfSeq, LenProperties DEF SinkInv, Known, ToSet
  <2>3. \A d \in Known(j) : health'[d] \notin {"away", "knocking"}
    BY <1>3, <1>4, <2>1, <2>2 DEF SinkInv
  <2>4. QED
    BY <1>2, <2>1, <2>3, SinkUntouched
<1>6. Outside'
  <2>1. \A d \in Clients : health'[d] \in {"away", "knocking"} => heard'[d] = <<>>
    BY <1>2, <1>3, <1>4 DEF ServeInv, Outside
  <2>2. QED
    BY <1>2, <1>3, <2>1, TheSinks DEF ServeInv, Outside
<1>7. NoneThrownOut'
  BY <1>2, <1>3, <1>4, <1>5, TheSinks DEF ServeInv, NoneThrownOut
<1>8. Binding' /\ Apart'
  BY <1>2, <1>5, TheSinks DEF ServeInv, Binding, Apart
<1>9. QED
  BY <1>5, <1>6, <1>7, <1>8, TheSinks DEF ServeInv

LEMMA NothingMoves == ServeInv /\ UNCHANGED vars => ServeInv'
<1> SUFFICES ASSUME ServeInv, UNCHANGED vars PROVE ServeInv'
  OBVIOUS
<1>1. UNCHANGED <<main, at, dropped, offered, acceptor, held, clients, health, heard,
                  since>>
  BY DEF vars, tvars
<1>2. Binding' /\ (main' \in {"write", "stuck"} => at' \in DOMAIN Sinks) /\ DOMAIN acceptor' = Tcp
  BY <1>1, TheSinks DEF ServeInv, Binding, Outside
<1>3. QED
  BY <1>1, <1>2, ListsUntouched

LEMMA ServeInvariant == SSpec => []ServeInv
<1>1. ServeInv /\ [SNext]_vars => ServeInv'
  <2> SUFFICES ASSUME ServeInv, [SNext]_vars PROVE ServeInv'
    OBVIOUS
  <2>1. CASE Write \/ Unblock
    BY <2>1, OtherSinkWritten, TcpSinkWritten DEF Write, Unblock
  <2>2. CASE Listener
    <3>1. PICK i \in Tcp : CheckDropped(i) \/ Accept(i) \/ Push(i)
      BY <2>2 DEF Listener
    <3>2. QED
      BY <3>1, AcceptorChecks, AcceptorAccepts, AcceptorPushes
  <2>3. CASE Peer
    BY <2>3, PeersMove
  <2>4. CASE UNCHANGED vars
    BY <2>4, NothingMoves
  <2>5. CASE \/ Bind \/ StartCapture \/ Poll \/ Receive \/ Stall \/ StopDispatch \/ Join
             \/ Capture \/ Interrupt \/ Publish
    BY <2>5, OtherThreads
  <2>6. QED
    BY <2>1, <2>2, <2>3, <2>4, <2>5 DEF SNext, Main
<1>2. QED
  BY <1>1, ServeStarts, PTL DEF SSpec

\* Every client in a sink's list has been sent every fix since it joined, in order
\* and once, and none that reads is thrown out while the sinks live, whatever the
\* other clients and sinks do (nmea_transport.rs: TcpServerSink::write).
THEOREM PlottersMissNothing == SSpec => []NoPlotterMissesAFix
<1>1. ServeInv => NoPlotterMissesAFix
  <2> SUFFICES ASSUME ServeInv PROVE NoPlotterMissesAFix
    OBVIOUS
  <2>1. \A i \in Tcp : \A c \in ToSet(clients[i]) : Sent(i, c)
    BY DEF ServeInv, SinkInv
  <2>2. QED
    BY <2>1 DEF ServeInv, NoneThrownOut, NoPlotterMissesAFix, Sent, Known
<1>2. QED
  BY <1>1, ServeInvariant, PTL

=============================================================================
