--------------------------- MODULE ListingProofs ---------------------------
(***************************************************************************)
(* What the other proofs need to know of numbers, of loops written as        *)
(* recursive functions, and of lists.                                      *)
(***************************************************************************)
EXTENDS Listing, Sequences, FiniteSetTheorems, SequenceTheorems,
        WellFoundedInduction, TLAPS

-----------------------------------------------------------------------------
(* Natural numbers.                                                        *)

\* A set of natural numbers that is not empty has a least element.
LEMMA LeastOfNaturals ==
  ASSUME NEW S \in SUBSET Nat, S # {}
  PROVE  \E least \in S : \A n \in S : least <= n
<1>1. PICK least \in S : \A n \in S : ~ (<<n, least>> \in OpToRel(<, Nat))
  BY NatLessThanWellFounded, WFMin, Zenon
<1>2. ASSUME NEW n \in S, n < least
      PROVE  <<n, least>> \in OpToRel(<, Nat)
  <2>1. <<n, least>> \in Nat \X Nat
    OBVIOUS
  <2>2. QED
    BY <1>2, <2>1, Zenon DEF OpToRel
<1>3. \A n \in S : ~ (n < least)
  BY <1>1, <1>2, Zenon
<1>4. \A n \in S : n \in Nat /\ least \in Nat
  OBVIOUS
<1>5. QED
  BY <1>3, <1>4

\* What holds of 0 and passes from each number below n to the next holds of n.
\* (The loops of the models are recursive functions of the number of rounds;
\* what a round preserves holds at the end by this lemma.)
LEMMA AfterEveryRound ==
  ASSUME NEW n \in Nat, NEW S, 0 \in S,
         \A k \in 0 .. n - 1 : k \in S => k + 1 \in S
  PROVE  n \in S
<1> DEFINE bad == {k \in 0 .. n : k \notin S}
<1> SUFFICES ASSUME n \notin S PROVE FALSE
  OBVIOUS
<1>1. bad \in SUBSET Nat /\ bad # {}
  BY DEF bad
<1>2. PICK least \in bad : \A k \in bad : least <= k
  <2> HIDE DEF bad
  <2> QED BY <1>1, LeastOfNaturals
<1>3. least # 0 /\ least - 1 \in 0 .. n - 1
  OBVIOUS
<1>4. least - 1 \in S
  <2>1. ~ (least <= least - 1)
    OBVIOUS
  <2>2. least - 1 \notin bad
    <3> HIDE DEF bad
    <3> QED BY <1>2, <2>1
  <2>3. QED
    BY <1>3, <2>2
<1>5. (least - 1) + 1 \in S /\ (least - 1) + 1 = least
  BY <1>3, <1>4
<1>6. QED
  BY <1>5

\* A finite set of integers that is not empty has a greatest element.
LEMMA GreatestOfFinite ==
  ASSUME NEW F \in SUBSET Int, IsFiniteSet(F), F # {}
  PROVE  \E m \in F : \A x \in F : x <= m
<1> DEFINE Bad(G) == /\ G \in SUBSET Int /\ IsFiniteSet(G) /\ G # {}
                     /\ ~ \E m \in G : \A x \in G : x <= m
           sizes == {n \in Nat : \E G \in SUBSET F : Bad(G) /\ Cardinality(G) = n}
<1> SUFFICES ASSUME Bad(F) PROVE FALSE
  OBVIOUS
<1>1. Cardinality(F) \in sizes
  BY FS_CardinalityType
<1>2. PICK least \in sizes : \A n \in sizes : ~ (<<n, least>> \in OpToRel(<, Nat))
  <2>1. sizes \in SUBSET Nat /\ sizes # {}
    BY <1>1
  <2> HIDE DEF sizes
  <2>2. QED
    BY <2>1, NatLessThanWellFounded, WFMin, Zenon
<1>3. PICK G \in SUBSET F : Bad(G) /\ Cardinality(G) = least
  OBVIOUS
<1>4. PICK x \in G : TRUE
  BY <1>3
<1> DEFINE H == G \ {x}
<1>5. IsFiniteSet(H) /\ Cardinality(H) = least - 1 /\ Cardinality(H) \in Nat
  BY <1>3, <1>4, FS_RemoveElement, FS_CardinalityType
<1>6. H # {}
  BY <1>3, <1>4
<1>7. least \in Nat /\ least - 1 < least
  OBVIOUS
<1>8. ~ Bad(H)
  <2> SUFFICES ASSUME Bad(H) PROVE FALSE
    OBVIOUS
  <2>1. Cardinality(H) \in sizes
    <3>1. H \in SUBSET F
      OBVIOUS
    <3> HIDE DEF H, Bad
    <3>2. QED
      BY <3>1, <1>5
  <2>2. <<Cardinality(H), least>> \in OpToRel(<, Nat)
    <3>1. Cardinality(H) < least /\ <<Cardinality(H), least>> \in Nat \X Nat
      BY <1>5, <1>7
    <3>2. QED
      BY <3>1, Zenon DEF OpToRel
  <2>3. QED
    BY <1>2, <2>1, <2>2
<1>9. PICK m \in H : \A y \in H : y <= m
  BY <1>3, <1>5, <1>6, <1>8
<1>10. \E k \in G : \A y \in G : y <= k
  <2>1. x \in Int /\ m \in Int /\ m \in G /\ \A y \in G : y \in Int /\ (y = x \/ y <= m)
    BY <1>3, <1>4, <1>9
  <2>2. CASE x <= m
    BY <2>1, <2>2
  <2>3. CASE ~ (x <= m)
    <3>1. \A y \in G : y <= x
      BY <2>1, <2>3
    <3>2. QED
      BY <3>1
  <2>4. QED
    BY <2>2, <2>3
<1>11. QED
  BY <1>3, <1>10

-----------------------------------------------------------------------------
(* Loops.                                                                  *)

\* step gives the state after a round from the number of rounds done and the
\* state before it; Reached holds the pairs of these the loop may come to.
StaysIn(Reached, step, n) ==
  \A k \in 0 .. n - 1 : \A a :
    <<k, a>> \in Reached => <<k + 1, step[<<k, a>>]>> \in Reached

RunsIn(Reached, step, n, start) ==
  \E f : /\ \A k \in 0 .. n : f[k] = IF k = 0 THEN start
                                       ELSE step[<<k - 1, f[k - 1]>>]
         /\ \A k \in 0 .. n : <<k, f[k]>> \in Reached

\* A loop whose rounds can be computed has a run.
LEMMA LoopExists ==
  ASSUME NEW n \in Nat, NEW start, NEW step, NEW Reached,
         <<0, start>> \in Reached, StaysIn(Reached, step, n)
  PROVE  RunsIn(Reached, step, n, start)
<1> DEFINE Value(f, k) == IF k = 0 THEN start ELSE step[<<k - 1, f[k - 1]>>]
           Runs(m, f) == /\ f = [k \in 0 .. m |-> Value(f, k)]
                         /\ \A k \in 0 .. m : <<k, f[k]>> \in Reached
           S == {m \in 0 .. n : \E f : Runs(m, f)}
<1>1. 0 \in S
  <2> DEFINE g == [k \in 0 .. 0 |-> start]
  <2>1. g = [k \in 0 .. 0 |-> Value(g, k)]
    OBVIOUS
  <2>2. \A k \in 0 .. 0 : <<k, g[k]>> \in Reached
    OBVIOUS
  <2>3. Runs(0, g)
    BY <2>1, <2>2
  <2> HIDE DEF Runs, g
  <2>4. QED
    BY <2>3
<1>2. ASSUME NEW m \in 0 .. n - 1, m \in S
      PROVE  m + 1 \in S
  <2>1. PICK f : Runs(m, f)
    BY <1>2
  <2> DEFINE last == step[<<m, f[m]>>]
             g == [k \in 0 .. m + 1 |-> IF k = m + 1 THEN last ELSE f[k]]
  <2>2. \A k \in 0 .. m : g[k] = f[k] /\ f[k] = Value(f, k)
    <3>1. \A k \in 0 .. m : f[k] = Value(f, k)
      BY <2>1
    <3>2. QED
      BY <3>1
  <2>3. g[m + 1] = last /\ <<m + 1, last>> \in Reached
    <3>1. <<m, f[m]>> \in Reached
      BY <2>1
    <3>2. <<m + 1, last>> \in Reached
      BY <3>1 DEF StaysIn
    <3>3. QED
      BY <3>2
  <2>4. DOMAIN g = 0 .. m + 1 /\ g = [k \in 0 .. m + 1 |-> g[k]]
    OBVIOUS
  <2> HIDE DEF g, last
  <2>5. \A k \in 0 .. m + 1 : g[k] = Value(g, k)
    <3> SUFFICES ASSUME NEW k \in 0 .. m + 1 PROVE g[k] = Value(g, k)
      OBVIOUS
    <3>1. CASE k = m + 1
      <4>1. m \in 0 .. m /\ m + 1 # 0 /\ (m + 1) - 1 = m
        OBVIOUS
      <4>3. g[m] = f[m]
        BY <4>1, <2>2
      <4>2. QED
        BY <3>1, <4>1, <4>3, <2>3 DEF last
    <3>2. CASE k \in 0 .. m /\ k # 0
      <4>1. k - 1 \in 0 .. m
        BY <3>2
      <4>2. QED
        BY <3>2, <4>1, <2>2
    <3>3. CASE k = 0
      <4>1. 0 \in 0 .. m
        OBVIOUS
      <4>2. QED
        BY <3>3, <4>1, <2>2
    <3>4. QED
      BY <3>1, <3>2, <3>3
  <2>6. g = [k \in 0 .. m + 1 |-> Value(g, k)]
    BY <2>4, <2>5
  <2>7. \A k \in 0 .. m + 1 : <<k, g[k]>> \in Reached
    <3>1. \A k \in 0 .. m : <<k, g[k]>> \in Reached
      BY <2>1, <2>2
    <3>2. QED
      BY <3>1, <2>3
  <2>8. Runs(m + 1, g)
    BY <2>6, <2>7
  <2> HIDE DEF Runs
  <2>9. QED
    BY <2>8
<1>3. n \in S
  <2> HIDE DEF S
  <2> QED BY <1>1, <1>2, AfterEveryRound
<1>4. PICK f : Runs(n, f)
  BY <1>3
<1>5. \A k \in 0 .. n : f[k] = Value(f, k)
  BY <1>4
<1>6. QED
  BY <1>4, <1>5 DEF RunsIn

-----------------------------------------------------------------------------
(* Listing.                                                                *)

\* before is a strict total order on S.
Orders(before, S) ==
  /\ before \in [S -> SUBSET S]
  /\ \A x \in S : x \notin before[x]
  /\ \A x, y \in S : x # y => x \in before[y] \/ y \in before[x]
  /\ \A x, y, z \in S : x \in before[y] /\ y \in before[z] => x \in before[z]

\* Listed is each element of the set once, in order.
LEMMA ListedIsInOrder ==
  ASSUME NEW S, IsFiniteSet(S), NEW before, Orders(before, S)
  PROVE  /\ Cardinality(S) \in Nat
         /\ Listed(before) \in [1 .. Cardinality(S) -> S]
         /\ \A x \in S : \E n \in 1 .. Cardinality(S) : Listed(before)[n] = x
         /\ \A m, n \in 1 .. Cardinality(S) :
              m < n => Listed(before)[m] \in before[Listed(before)[n]]
<1> DEFINE size == Cardinality(S)
           rank == [x \in S |-> Cardinality(before[x]) + 1]
<1>0. /\ before \in [S -> SUBSET S] /\ DOMAIN before = S
      /\ \A x \in S : x \notin before[x]
      /\ \A x, y \in S : x # y => x \in before[y] \/ y \in before[x]
      /\ \A x, y, z \in S : x \in before[y] /\ y \in before[z] => x \in before[z]
  BY DEF Orders
<1>1. size \in Nat
  BY FS_CardinalityType
<1>2. \A x \in S : /\ IsFiniteSet(before[x]) /\ Cardinality(before[x]) \in Nat
                   /\ Cardinality(before[x]) < size
  <2> SUFFICES ASSUME NEW x \in S
               PROVE  /\ IsFiniteSet(before[x]) /\ Cardinality(before[x]) \in Nat
                      /\ Cardinality(before[x]) < size
    OBVIOUS
  <2>1. before[x] \in SUBSET S /\ before[x] # S
    BY <1>0
  <2>2. /\ IsFiniteSet(before[x]) /\ Cardinality(before[x]) <= size
        /\ size = Cardinality(before[x]) => S = before[x]
    BY <2>1, FS_Subset
  <2>3. Cardinality(before[x]) \in Nat
    BY <2>2, FS_CardinalityType
  <2>4. QED
    BY <1>1, <2>1, <2>2, <2>3
<1>3. ASSUME NEW x \in S, NEW y \in S, x \in before[y]
      PROVE  Cardinality(before[x]) < Cardinality(before[y])
  <2>1. before[x] \in SUBSET before[y] /\ before[x] # before[y]
    BY <1>0, <1>3
  <2>2. IsFiniteSet(before[y]) /\ Cardinality(before[y]) \in Nat
        /\ Cardinality(before[x]) \in Nat
    BY <1>2
  <2>3. /\ Cardinality(before[x]) <= Cardinality(before[y])
        /\ Cardinality(before[y]) = Cardinality(before[x]) => before[y] = before[x]
    BY <2>1, <2>2, FS_Subset
  <2>4. QED
    BY <2>1, <2>2, <2>3
<1>4. rank \in [S -> 1 .. size]
  BY <1>1, <1>2
<1>5. \A x, y \in S : rank[x] = rank[y] => x = y
  <2>1. \A x, y \in S : Cardinality(before[x]) = Cardinality(before[y]) => x = y
    <3>1. \A x, y \in S : x \in before[y] => Cardinality(before[x]) # Cardinality(before[y])
      BY <1>2, <1>3
    <3>2. QED
      BY <3>1, <1>0
  <2>2. QED
    BY <2>1, <1>2
<1>6. rank \in Injection(S, 1 .. size)
  BY <1>4, <1>5 DEF Injection, IsInjective
<1>7. IsFiniteSet(1 .. size) /\ Cardinality(1 .. size) = size
  BY <1>1, FS_Interval
<1>8. rank \in Surjection(S, 1 .. size)
  <2> HIDE DEF rank
  <2> QED BY <1>6, <1>7, FS_Injection
<1>9. \A n \in 1 .. size : \E x \in S : Cardinality(before[x]) = n - 1
  <2>1. \A n \in 1 .. size : \E x \in S : rank[x] = n
    <3> HIDE DEF rank
    <3> QED BY <1>8 DEF Surjection
  <2>2. QED
    BY <2>1, <1>1, <1>2
<1> DEFINE at(n) == CHOOSE x \in S : Cardinality(before[x]) = n - 1
           list == [n \in 1 .. size |-> at(n)]
<1>10. Listed(before) = list
  BY <1>0 DEF Listed
<1>11. \A n \in 1 .. size : at(n) \in S /\ Cardinality(before[at(n)]) = n - 1
  BY <1>9
<1> HIDE DEF at
<1>12. list \in [1 .. size -> S] /\ \A n \in 1 .. size : Cardinality(before[list[n]]) = n - 1
  BY <1>11
<1> HIDE DEF list
<1>13. ASSUME NEW x \in S PROVE \E n \in 1 .. size : list[n] = x
  <2> DEFINE n == rank[x]
  <2>1. n \in 1 .. size /\ Cardinality(before[x]) = n - 1
    BY <1>1, <1>2
  <2>2. list[n] \in S /\ Cardinality(before[list[n]]) = Cardinality(before[x])
    BY <2>1, <1>12
  <2>3. rank[list[n]] = rank[x]
    BY <2>2
  <2>4. list[n] = x
    <3> HIDE DEF rank
    <3> QED BY <2>2, <2>3, <1>5
  <2>5. QED
    BY <2>1, <2>4
<1>14. ASSUME NEW m \in 1 .. size, NEW n \in 1 .. size, m < n
       PROVE  list[m] \in before[list[n]]
  <2>1. /\ list[m] \in S /\ list[n] \in S
        /\ Cardinality(before[list[m]]) < Cardinality(before[list[n]])
    BY <1>12, <1>14
  <2>2. list[m] # list[n]
    BY <2>1, <1>2
  <2>3. list[n] \notin before[list[m]]
    <3>1. ASSUME list[n] \in before[list[m]] PROVE FALSE
      <4>1. Cardinality(before[list[n]]) < Cardinality(before[list[m]])
        BY <3>1, <2>1, <1>3
      <4>2. Cardinality(before[list[n]]) \in Nat /\ Cardinality(before[list[m]]) \in Nat
        BY <2>1, <1>2
      <4>3. QED
        BY <4>1, <4>2, <2>1
    <3>2. QED
      BY <3>1
  <2>4. QED
    BY <2>1, <2>2, <2>3, <1>0
<1>15. QED
  <2> HIDE DEF size
  <2> QED BY <1>1, <1>10, <1>12, <1>13, <1>14 DEF size

\* Ascending lists a finite set of positions from the least to the greatest.
LEMMA AscendingIsInOrder ==
  ASSUME NEW at \in SUBSET Int, IsFiniteSet(at)
  PROVE  /\ Cardinality(at) \in Nat
         /\ Ascending(at) \in [1 .. Cardinality(at) -> at]
         /\ \A i \in at : \E n \in 1 .. Cardinality(at) : Ascending(at)[n] = i
         /\ \A m, n \in 1 .. Cardinality(at) :
              m < n => Ascending(at)[m] < Ascending(at)[n]
<1> DEFINE before == [i \in at |-> {j \in at : j < i}]
<1>1. Orders(before, at)
  BY DEF Orders
<1>2. Ascending(at) = Listed(before)
  BY DEF Ascending
<1>3. \A i, j \in at : i \in before[j] => i < j
  OBVIOUS
<1> HIDE DEF before
<1>4. /\ Cardinality(at) \in Nat
      /\ Listed(before) \in [1 .. Cardinality(at) -> at]
      /\ \A x \in at : \E n \in 1 .. Cardinality(at) : Listed(before)[n] = x
      /\ \A m, n \in 1 .. Cardinality(at) :
           m < n => Listed(before)[m] \in before[Listed(before)[n]]
  BY <1>1, ListedIsInOrder
<1>5. QED
  BY <1>2, <1>3, <1>4

\* Picked keeps what is at the positions, in order: position n of the result
\* is position from[n] of the sequence, and from increases.
LEMMA PickedKeepsOrder ==
  ASSUME NEW T, NEW v \in Seq(T), NEW at \in SUBSET DOMAIN v
  PROVE  /\ Picked(v, at) \in Seq(T)
         /\ Len(Picked(v, at)) = Cardinality(at)
         /\ \E from \in [1 .. Len(Picked(v, at)) -> at] :
              /\ \A n \in 1 .. Len(Picked(v, at)) : Picked(v, at)[n] = v[from[n]]
              /\ \A m, n \in 1 .. Len(Picked(v, at)) : m < n => from[m] < from[n]
              /\ \A i \in at : \E n \in 1 .. Len(Picked(v, at)) : from[n] = i
<1> DEFINE order == Ascending(at)
           size == Cardinality(at)
<1>1. Len(v) \in Nat /\ DOMAIN v = 1 .. Len(v) /\ \A i \in DOMAIN v : v[i] \in T
  BY LenProperties, ElementOfSeq
<1>2. at \in SUBSET Int /\ IsFiniteSet(at)
  <2>1. IsFiniteSet(1 .. Len(v)) /\ at \in SUBSET (1 .. Len(v))
    BY <1>1, FS_Interval
  <2>2. QED
    BY <2>1, FS_Subset
<1>3. /\ size \in Nat
      /\ order \in [1 .. size -> at]
      /\ \A i \in at : \E n \in 1 .. size : order[n] = i
      /\ \A m, n \in 1 .. size : m < n => order[m] < order[n]
  BY <1>2, AscendingIsInOrder
<1>4. Picked(v, at) = [n \in DOMAIN order |-> v[order[n]]]
  BY DEF Picked
<1> HIDE DEF order, size
<1>5. Picked(v, at) = [n \in 1 .. size |-> v[order[n]]]
  BY <1>3, <1>4
<1>6. \A n \in 1 .. size : v[order[n]] \in T
  BY <1>1, <1>3
<1>7. [n \in 1 .. size |-> v[order[n]]] \in Seq(T)
  BY <1>3, <1>6
<1>8. Picked(v, at) \in Seq(T) /\ Len(Picked(v, at)) = size
  BY <1>3, <1>5, <1>7
<1>9. \A n \in 1 .. size : Picked(v, at)[n] = v[order[n]]
  BY <1>5
<1>10. QED
  BY <1>3, <1>8, <1>9 DEF size

\* So its elements are those at the positions.
LEMMA PickedElements ==
  ASSUME NEW T, NEW v \in Seq(T), NEW at \in SUBSET DOMAIN v
  PROVE  /\ \A n \in DOMAIN Picked(v, at) : \E i \in at : Picked(v, at)[n] = v[i]
         /\ \A i \in at : \E n \in DOMAIN Picked(v, at) : Picked(v, at)[n] = v[i]
<1> DEFINE p == Picked(v, at)
<1>1. PICK from \in [1 .. Len(p) -> at] :
        /\ \A n \in 1 .. Len(p) : p[n] = v[from[n]]
        /\ \A i \in at : \E n \in 1 .. Len(p) : from[n] = i
  BY PickedKeepsOrder
<1>2. p \in Seq(T)
  BY PickedKeepsOrder
<1>3. DOMAIN p = 1 .. Len(p)
  BY <1>2, LenProperties
<1> HIDE DEF p
<1>4. /\ \A n \in DOMAIN p : \E i \in at : p[n] = v[i]
      /\ \A i \in at : \E n \in DOMAIN p : p[n] = v[i]
  BY <1>1, <1>3
<1>5. QED
  BY <1>4 DEF p

Upto(at, i) == {j \in at : j <= i}

\* The positions of a finite set of positions are numbered without a gap.
LEMMA PositionsAreNumbered ==
  ASSUME NEW len \in Nat, NEW at \in SUBSET (1 .. len)
  PROVE  /\ IsFiniteSet(at) /\ Cardinality(at) \in Nat
         /\ \A i \in at : Cardinality(Upto(at, i)) \in 1 .. Cardinality(at)
         /\ \A i, j \in at : i < j => Cardinality(Upto(at, i)) < Cardinality(Upto(at, j))
         /\ \A n \in 1 .. Cardinality(at) : \E i \in at : Cardinality(Upto(at, i)) = n
<1>1. IsFiniteSet(1 .. len)
  BY FS_Interval
<1>2. /\ IsFiniteSet(at) /\ Cardinality(at) \in Nat
      /\ \A T \in SUBSET at : /\ IsFiniteSet(T) /\ Cardinality(T) \in Nat
                              /\ Cardinality(T) <= Cardinality(at)
                              /\ Cardinality(T) = Cardinality(at) => T = at
  BY <1>1, FS_Subset, FS_CardinalityType
<1>3. \A i \in at : Upto(at, i) \in SUBSET at /\ i \in Upto(at, i)
  BY DEF Upto
<1>4. \A i \in at : Cardinality(Upto(at, i)) \in 1 .. Cardinality(at)
  BY <1>2, <1>3, FS_EmptySet
<1>5. ASSUME NEW i \in at, NEW j \in at, i < j
      PROVE  Cardinality(Upto(at, i)) < Cardinality(Upto(at, j))
  <2>1. Upto(at, i) \in SUBSET Upto(at, j) /\ j \notin Upto(at, i) /\ j \in Upto(at, j)
    <3>1. i \in Int /\ j \in Int /\ \A k \in at : k \in Int
      OBVIOUS
    <3>2. \A k \in at : k <= i => k <= j
      BY <3>1, <1>5
    <3>3. ~ (j <= i) /\ j <= j
      BY <3>1, <1>5
    <3>4. QED
      BY <3>2, <3>3 DEF Upto
  <2>2. IsFiniteSet(Upto(at, j)) /\ Cardinality(Upto(at, j)) \in Nat
    BY <1>2, <1>3
  <2>3. /\ Cardinality(Upto(at, i)) <= Cardinality(Upto(at, j))
        /\ Cardinality(Upto(at, j)) = Cardinality(Upto(at, i)) => Upto(at, j) = Upto(at, i)
    BY <2>1, <2>2, FS_Subset
  <2>4. QED
    BY <2>1, <2>2, <2>3, <1>4
<1> DEFINE rank == [i \in at |-> Cardinality(Upto(at, i))]
<1>6. rank \in [at -> 1 .. Cardinality(at)]
  BY <1>4
<1>7. \A i, j \in at : rank[i] = rank[j] => i = j
  BY <1>4, <1>5
<1>8. rank \in Injection(at, 1 .. Cardinality(at))
  BY <1>6, <1>7 DEF Injection, IsInjective
<1>9. IsFiniteSet(1 .. Cardinality(at)) /\ Cardinality(1 .. Cardinality(at)) = Cardinality(at)
  BY <1>2, FS_Interval
<1>10. rank \in Surjection(at, 1 .. Cardinality(at))
  <2> HIDE DEF rank
  <2> QED BY <1>8, <1>9, FS_Injection
<1>11. \A n \in 1 .. Cardinality(at) : \E i \in at : Cardinality(Upto(at, i)) = n
  BY <1>10 DEF Surjection
<1>12. QED
  BY <1>2, <1>4, <1>5, <1>11

=============================================================================
