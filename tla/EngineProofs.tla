---------------------------- MODULE EngineProofs ----------------------------
(***************************************************************************)
(* What holds of Engine for every capacity, window, set of detections and   *)
(* number of frames and restarts.                                          *)
(*                                                                         *)
(* Stage E's two loops are recursive functions; what each round preserves   *)
(* holds at their end (OfferAllKeeps, EmitKeeps).  There are three          *)
(* invariants: BaseInv says what there is and that nothing is there twice,   *)
(* TimeInv how old it is, LookInv which observation it is of.              *)
(***************************************************************************)
EXTENDS Engine, StorageProofs

-----------------------------------------------------------------------------
(* The loops of Stage E.                                                  *)

\* What holds before a candidate's sights are offered and passes from each to
\* the next holds when all have been.
LEMMA OfferAllKeeps ==
  ASSUME NEW sights, Len(sights) \in Nat, NEW acc, NEW Reached,
         <<0, acc>> \in Reached,
         \A k \in 0 .. Len(sights) - 1 : \A a :
           <<k, a>> \in Reached => <<k + 1, Offer(a, sights[k + 1])>> \in Reached
  PROVE  <<Len(sights), OfferAll(acc, sights)>> \in Reached
<1> DEFINE n == Len(sights)
           Runs(f) == f = [k \in 0 .. n |-> IF k = 0 THEN acc
                                            ELSE Offer(f[k - 1], sights[k])]
           step == [p \in Reached |-> Offer(p[2], sights[p[1] + 1])]
<1>1. \A k \in 0 .. n - 1 : \A a :
        <<k, a>> \in Reached => /\ step[<<k, a>>] = Offer(a, sights[k + 1])
                                /\ <<k + 1, step[<<k, a>>]>> \in Reached
  OBVIOUS
<1>2. PICK f : /\ \A k \in 0 .. n : f[k] = IF k = 0 THEN acc
                                             ELSE step[<<k - 1, f[k - 1]>>]
               /\ \A k \in 0 .. n : <<k, f[k]>> \in Reached
  <2>1. n \in Nat
    OBVIOUS
  <2> HIDE DEF step, n
  <2>2. StaysIn(Reached, step, n)
    BY <1>1 DEF StaysIn
  <2>3. RunsIn(Reached, step, n, acc)
    BY <2>1, <2>2, LoopExists
  <2>4. QED
    BY <2>3 DEF RunsIn
<1>3. \E g : Runs(g)
  <2>1. \A k \in 0 .. n : k # 0 => step[<<k - 1, f[k - 1]>>] = Offer(f[k - 1], sights[k])
    <3> SUFFICES ASSUME NEW k \in 0 .. n, k # 0
                 PROVE  step[<<k - 1, f[k - 1]>>] = Offer(f[k - 1], sights[k])
      OBVIOUS
    <3>1. k - 1 \in 0 .. n - 1 /\ k - 1 \in 0 .. n /\ (k - 1) + 1 = k
      OBVIOUS
    <3>2. <<k - 1, f[k - 1]>> \in Reached
      BY <1>2, <3>1
    <3> HIDE DEF step
    <3>3. step[<<k - 1, f[k - 1]>>] = Offer(f[k - 1], sights[(k - 1) + 1])
      BY <1>1, <3>1, <3>2
    <3>4. QED
      BY <3>1, <3>3
  <2> HIDE DEF step
  <2> DEFINE h == [k \in 0 .. n |-> f[k]]
  <2>2. \A k \in 0 .. n : k # 0 => k - 1 \in 0 .. n
    OBVIOUS
  <2>3. Runs(h)
    BY <1>2, <2>1, <2>2
  <2>4. QED
    BY <2>3
<1> DEFINE g == CHOOSE h : Runs(h)
<1>4. Runs(g)
  BY <1>3
<1>5. OfferAll(acc, sights) = g[n]
  BY DEF OfferAll
<1>6. \A k \in 0 .. n : g[k] = IF k = 0 THEN acc ELSE Offer(g[k - 1], sights[k])
  <2> HIDE DEF g
  <2> QED BY <1>4
<1> HIDE DEF g
<1> DEFINE S == {k \in 0 .. n : <<k, g[k]>> \in Reached}
<1>7. 0 \in S
  BY <1>6
<1>8. ASSUME NEW k \in 0 .. n - 1, k \in S
      PROVE  k + 1 \in S
  <2>1. k + 1 \in 0 .. n /\ k + 1 # 0 /\ (k + 1) - 1 = k
    OBVIOUS
  <2>2. g[k + 1] = Offer(g[k], sights[k + 1])
    BY <1>6, <2>1
  <2>3. QED
    BY <1>8, <2>1, <2>2
<1>9. n \in S
  <2> HIDE DEF S
  <2> QED BY <1>7, <1>8, AfterEveryRound
<1>10. QED
  BY <1>5, <1>9

\* The same of the loop over the candidates.
LEMMA EmitKeeps ==
  ASSUME NEW s, NEW w, NEW n, Len(Candidates(s)) \in Nat, NEW Reached,
         <<0, [window |-> w, inserted |-> <<>>]>> \in Reached,
         \A k \in 0 .. Len(Candidates(s)) - 1 : \A a :
           <<k, a>> \in Reached
             => <<k + 1, Visit(s, a, Candidates(s)[k + 1], n)>> \in Reached
  PROVE  <<Len(Candidates(s)), Emit(s, w, n)>> \in Reached
<1> DEFINE c == Candidates(s)
           len == Len(c)
           start == [window |-> w, inserted |-> <<>>]
           Runs(f) == f = [k \in 0 .. len |-> IF k = 0 THEN start
                                              ELSE Visit(s, f[k - 1], c[k], n)]
           step == [p \in Reached |-> Visit(s, p[2], c[p[1] + 1], n)]
<1>1. \A k \in 0 .. len - 1 : \A a :
        <<k, a>> \in Reached => /\ step[<<k, a>>] = Visit(s, a, c[k + 1], n)
                                /\ <<k + 1, step[<<k, a>>]>> \in Reached
  OBVIOUS
<1>2. PICK f : /\ \A k \in 0 .. len : f[k] = IF k = 0 THEN start
                                               ELSE step[<<k - 1, f[k - 1]>>]
               /\ \A k \in 0 .. len : <<k, f[k]>> \in Reached
  <2> HIDE DEF step
  <2>1. len \in Nat /\ <<0, start>> \in Reached
    OBVIOUS
  <2> HIDE DEF len, c, start
  <2>2. StaysIn(Reached, step, len)
    BY <1>1 DEF StaysIn
  <2>3. RunsIn(Reached, step, len, start)
    BY <2>1, <2>2, LoopExists
  <2>4. QED
    BY <2>3 DEF RunsIn
<1>3. \E g : Runs(g)
  <2>1. \A k \in 0 .. len : k # 0 => step[<<k - 1, f[k - 1]>>] = Visit(s, f[k - 1], c[k], n)
    <3> SUFFICES ASSUME NEW k \in 0 .. len, k # 0
                 PROVE  step[<<k - 1, f[k - 1]>>] = Visit(s, f[k - 1], c[k], n)
      OBVIOUS
    <3>1. k - 1 \in 0 .. len - 1 /\ k - 1 \in 0 .. len /\ (k - 1) + 1 = k
      OBVIOUS
    <3>2. <<k - 1, f[k - 1]>> \in Reached
      BY <1>2, <3>1
    <3> HIDE DEF step
    <3>3. step[<<k - 1, f[k - 1]>>] = Visit(s, f[k - 1], c[(k - 1) + 1], n)
      BY <1>1, <3>1, <3>2
    <3>4. QED
      BY <3>1, <3>3
  <2> HIDE DEF step
  <2> DEFINE h == [k \in 0 .. len |-> f[k]]
  <2>2. \A k \in 0 .. len : k # 0 => k - 1 \in 0 .. len
    OBVIOUS
  <2>3. Runs(h)
    BY <1>2, <2>1, <2>2
  <2>4. QED
    BY <2>3
<1> DEFINE g == CHOOSE h : Runs(h)
<1>4. Runs(g)
  BY <1>3
<1>5. Emit(s, w, n) = g[len]
  BY DEF Emit
<1>6. \A k \in 0 .. len : g[k] = IF k = 0 THEN start ELSE Visit(s, g[k - 1], c[k], n)
  <2> HIDE DEF g
  <2> QED BY <1>4
<1> HIDE DEF g
<1> DEFINE S == {k \in 0 .. len : <<k, g[k]>> \in Reached}
<1>7. 0 \in S
  BY <1>6
<1>8. ASSUME NEW k \in 0 .. len - 1, k \in S
      PROVE  k + 1 \in S
  <2>1. k + 1 \in 0 .. len /\ k + 1 # 0 /\ (k + 1) - 1 = k
    OBVIOUS
  <2>2. g[k + 1] = Visit(s, g[k], c[k + 1], n)
    BY <1>6, <2>1
  <2>3. QED
    BY <1>8, <2>1, <2>2
<1>9. len \in S
  <2>1. len \in Nat
    OBVIOUS
  <2> HIDE DEF S
  <2>2. QED
    BY <1>7, <1>8, <2>1, AfterEveryRound
<1>10. QED
  BY <1>5, <1>9

-----------------------------------------------------------------------------
(* Pairs and the sights they yield.                                        *)

Sight == [body : SightBody, azimuth : Int, intercept : Int, sigma : Int,
          anchor_tt : Times, source_frame_id : FrameId \cup {NoFrame},
          horizon_frame_id : FrameId \cup {NoFrame},
          obs : Nat \X FrameId \X SightBody]

\* The queues hold records of different frames.
Queues(s) ==
  /\ s.body_q \in SUBSET BodyRecord /\ IsFiniteSet(s.body_q)
  /\ \A r, q \in s.body_q : r.frame_id = q.frame_id => r = q
  /\ s.horizon_q \in SUBSET HorizonRecord /\ IsFiniteSet(s.horizon_q)
  /\ \A r, q \in s.horizon_q : r.frame_id = q.frame_id => r = q

LEMMA GapIsNatural ==
  ASSUME NEW a \in Int, NEW b \in Int
  PROVE  Gap(a, b) \in Nat /\ Gap(a, b) = Gap(b, a)
  BY DEF Gap

LEMMA RecordShapes ==
  ASSUME NEW body \in BodyRecord, NEW h \in HorizonRecord
  PROVE  /\ body.frame_id \in Nat /\ body.frame_tt \in Times /\ body.frame_tt \in Int
         /\ body.detection \in BodyDetections /\ body.detection.sigma_key \in Nat
         /\ body.detection.lines \in Seq(Line)
         /\ h.frame_id \in Nat /\ h.frame_tt \in Times /\ h.frame_tt \in Int
         /\ h.detection \in HorizonDetections /\ h.detection.sigma_key \in Nat
         /\ StitchVariance(body, h) \in Nat
         /\ PairVariance(body, h) \in Nat
<1>1. /\ body.frame_id \in Nat /\ body.frame_tt \in Times /\ body.frame_tt \in Int
      /\ body.detection \in BodyDetections /\ body.detection.sigma_key \in Nat
      /\ body.detection.lines \in Seq(Line)
  BY StorageConstants, StageEConstants DEF BodyRecord, FrameId
<1>2. /\ h.frame_id \in Nat /\ h.frame_tt \in Times /\ h.frame_tt \in Int
      /\ h.detection \in HorizonDetections /\ h.detection.sigma_key \in Nat
  BY StorageConstants DEF HorizonRecord, FrameId
<1>3. StitchVariance(body, h) \in Nat
  <2>1. Gap(body.frame_tt, h.frame_tt) \in Nat
    BY <1>1, <1>2, GapIsNatural
  <2>2. \A n \in Nat : n * n \in Nat
    OBVIOUS
  <2>3. QED
    BY <2>1, <2>2 DEF StitchVariance
<1>4. PairVariance(body, h) \in Nat
  BY <1>1, <1>2, <1>3 DEF PairVariance
<1>5. QED
  BY <1>1, <1>2, <1>3, <1>4

\* The best horizon of a body is a queued one.
LEMMA BestHorizonIsQueued ==
  ASSUME NEW s, Queues(s), s.horizon_q # {}, NEW body \in BodyRecord
  PROVE  BestHorizon(s, body) \in s.horizon_q
<1> DEFINE q == s.horizon_q
           Cost(h) == PairVariance(body, h)
           Key(h) == h.detection.sigma_key
<1>1. \A h \in q : h \in HorizonRecord /\ Cost(h) \in Nat /\ Key(h) \in Nat /\ h.frame_id \in Nat
  BY RecordShapes DEF Queues
<1> HIDE DEF Cost, Key, q
<1>2. PICK a \in q : \A h \in q : Cost(a) <= Cost(h)
  <2> DEFINE N == {Cost(h) : h \in q}
  <2>1. N \in SUBSET Nat /\ N # {}
    BY <1>1 DEF q
  <2>2. PICK least \in N : \A n \in N : least <= n
    BY <2>1, LeastOfNaturals
  <2>3. QED
    BY <2>2
<1> DEFINE q1 == {h \in q : Cost(h) = Cost(a)}
<1>3. PICK b \in q1 : \A h \in q1 : Key(b) <= Key(h)
  <2> DEFINE N == {Key(h) : h \in q1}
  <2>1. N \in SUBSET Nat /\ N # {}
    BY <1>1
  <2>2. PICK least \in N : \A n \in N : least <= n
    BY <2>1, LeastOfNaturals
  <2>3. QED
    BY <2>2
<1> DEFINE q2 == {h \in q1 : Key(h) = Key(b)}
<1>4. PICK c \in q2 : \A h \in q2 : c.frame_id <= h.frame_id
  <2> DEFINE N == {h.frame_id : h \in q2}
  <2>1. N \in SUBSET Nat /\ N # {}
    BY <1>1
  <2>2. PICK least \in N : \A n \in N : least <= n
    BY <2>1, LeastOfNaturals
  <2>3. QED
    BY <2>2
<1>5. ASSUME NEW g \in q \ {c}
      PROVE  \/ Cost(c) < Cost(g)
             \/ Cost(c) = Cost(g) /\ Precedes(c, g)
  <2>1. c \in q /\ Cost(c) = Cost(a) /\ Key(c) = Key(b) /\ g \in q /\ g # c
    BY <1>4
  <2>2. Cost(a) <= Cost(g) /\ Cost(a) \in Nat /\ Cost(g) \in Nat
    BY <1>1, <1>2, <2>1
  <2>3. CASE Cost(g) = Cost(c)
    <3>1. Key(b) <= Key(g) /\ Key(b) \in Nat /\ Key(g) \in Nat
      BY <1>1, <1>3, <2>1, <2>3
    <3>2. CASE Key(g) = Key(c)
      <4>1. c.frame_id <= g.frame_id /\ c.frame_id \in Nat /\ g.frame_id \in Nat
        BY <1>1, <1>4, <2>1, <2>3, <3>2
      <4>2. c.frame_id # g.frame_id
        BY <2>1 DEF Queues, q
      <4>3. QED
        BY <2>3, <3>2, <4>1, <4>2 DEF Precedes, Key
    <3>3. CASE Key(g) # Key(c)
      BY <2>1, <2>3, <3>1, <3>3 DEF Precedes, Key
    <3>4. QED
      BY <3>2, <3>3
  <2>4. QED
    BY <2>1, <2>2, <2>3
<1>6. \E h \in s.horizon_q : \A g \in s.horizon_q \ {h} :
        \/ PairVariance(body, h) < PairVariance(body, g)
        \/ PairVariance(body, h) = PairVariance(body, g) /\ Precedes(h, g)
  BY <1>4, <1>5 DEF Cost, q
<1>7. QED
  BY <1>6 DEF BestHorizon

\* Every body record is visited once there is a horizon, and nothing else is.
LEMMA CandidatesAreQueued ==
  ASSUME NEW s, Queues(s)
  PROVE  /\ Len(Candidates(s)) \in Nat
         /\ DOMAIN Candidates(s) = 1 .. Len(Candidates(s))
         /\ \A i \in DOMAIN Candidates(s) : /\ Candidates(s)[i].body \in s.body_q
                                            /\ Candidates(s)[i].horizon \in s.horizon_q
         /\ s.horizon_q # {} =>
              \A r \in s.body_q : \E i \in DOMAIN Candidates(s) : Candidates(s)[i].body = r
<1> DEFINE before == [r \in s.body_q |-> {p \in s.body_q : Precedes(p, r)}]
           bodies == Listed(before)
           size == Cardinality(s.body_q)
<1>1. CASE s.horizon_q = {}
  <2>1. Candidates(s) = <<>>
    BY <1>1 DEF Candidates
  <2>2. Len(<<>>) = 0 /\ DOMAIN <<>> = 1 .. 0
    OBVIOUS
  <2>3. QED
    BY <1>1, <2>1, <2>2
<1>2. CASE s.horizon_q # {}
  <2>1. Orders(before, s.body_q)
    <3>1. \A r \in s.body_q : r.detection.sigma_key \in Nat /\ r.frame_id \in Nat
      BY StorageConstants DEF Queues, BodyRecord, FrameId
    <3>2. \A r, q \in s.body_q : r.frame_id = q.frame_id => r = q
      BY DEF Queues
    <3>3. before \in [s.body_q -> SUBSET s.body_q]
      OBVIOUS
    <3>4. \A r \in s.body_q : ~ Precedes(r, r)
      BY <3>1 DEF Precedes
    <3>5. \A r, q \in s.body_q : r # q => Precedes(r, q) \/ Precedes(q, r)
      BY <3>1, <3>2 DEF Precedes
    <3>6. \A r, q, p \in s.body_q : Precedes(r, q) /\ Precedes(q, p) => Precedes(r, p)
      BY <3>1 DEF Precedes
    <3>7. QED
      BY <3>3, <3>4, <3>5, <3>6 DEF Orders
  <2>2. /\ size \in Nat
        /\ bodies \in [1 .. size -> s.body_q]
        /\ \A r \in s.body_q : \E i \in 1 .. size : bodies[i] = r
    <3>1. IsFiniteSet(s.body_q)
      BY DEF Queues
    <3> HIDE DEF before
    <3>2. QED
      BY <2>1, <3>1, ListedIsInOrder
  <2>3. Candidates(s) = [i \in DOMAIN bodies |->
                           [body |-> bodies[i], horizon |-> BestHorizon(s, bodies[i])]]
    BY <1>2 DEF Candidates
  <2> HIDE DEF bodies, size
  <2>4. Candidates(s) = [i \in 1 .. size |->
                           [body |-> bodies[i], horizon |-> BestHorizon(s, bodies[i])]]
    BY <2>2, <2>3
  <2>5. Len(Candidates(s)) = size /\ DOMAIN Candidates(s) = 1 .. size
    BY <2>2, <2>4
  <2>6. \A i \in 1 .. size : bodies[i] \in s.body_q /\ bodies[i] \in BodyRecord
    BY <2>2 DEF Queues
  <2>7. \A i \in 1 .. size : BestHorizon(s, bodies[i]) \in s.horizon_q
    BY <1>2, <2>6, BestHorizonIsQueued
  <2>8. \A i \in 1 .. size : /\ Candidates(s)[i].body = bodies[i]
                             /\ Candidates(s)[i].horizon = BestHorizon(s, bodies[i])
    BY <2>4
  <2>9. QED
    BY <2>2, <2>5, <2>6, <2>7, <2>8
<1>3. QED
  BY <1>1, <1>2

\* x is what session n sees in record r.
FromRecord(x, r, n) ==
  /\ x \in Sight
  /\ x.source_frame_id = r.frame_id
  /\ x.anchor_tt = r.frame_tt
  /\ x.obs = <<n, r.frame_id, x.body>>
  /\ \E i \in DOMAIN r.detection.lines :
       /\ r.detection.lines[i].body = x.body
       /\ r.detection.lines[i].azimuth = x.azimuth

\* A pair yields sights of its body record, of different bodies.
LEMMA ReduceYields ==
  ASSUME NEW s, NEW c, c.body \in BodyRecord, c.horizon \in HorizonRecord, NEW n \in Nat
  PROVE  /\ Len(Reduce(s, c, n)) \in Nat
         /\ DOMAIN Reduce(s, c, n) = 1 .. Len(Reduce(s, c, n))
         /\ \A k \in DOMAIN Reduce(s, c, n) : FromRecord(Reduce(s, c, n)[k], c.body, n)
         /\ \A k, m \in DOMAIN Reduce(s, c, n) :
              k # m => Reduce(s, c, n)[k].body # Reduce(s, c, n)[m].body
<1> DEFINE lines == c.body.detection.lines
           made == [i \in DOMAIN lines |-> SightOf(c, lines[i], n)]
<1>1. /\ lines \in Seq(Line) /\ c.body.detection \in BodyDetections
      /\ c.body.frame_id \in Nat /\ c.horizon.frame_id \in Nat
      /\ c.body.frame_tt \in Times
      /\ c.horizon.detection.sigma_key \in Nat /\ StitchVariance(c.body, c.horizon) \in Nat
  BY RecordShapes
<1>2. Len(lines) \in Nat /\ DOMAIN lines = 1 .. Len(lines) /\ \A i \in DOMAIN lines : lines[i] \in Line
  <2> HIDE DEF lines
  <2> QED BY <1>1, LenProperties, ElementOfSeq
<1>3. \A i, j \in DOMAIN lines : lines[i].body = lines[j].body => i = j
  BY <1>1, StageEConstants
<1> HIDE DEF lines
<1>4. \A i \in DOMAIN lines : SightVariance(c, lines[i]) \in Int
  <2> SUFFICES ASSUME NEW i \in DOMAIN lines PROVE SightVariance(c, lines[i]) \in Int
    OBVIOUS
  <2>1. lines[i].sigma \in Int
    BY <1>2 DEF Line
  <2>2. QED
    BY <1>1, <2>1 DEF SightVariance
<1>5. \A i \in DOMAIN lines : /\ FromRecord(SightOf(c, lines[i], n), c.body, n)
                              /\ SightOf(c, lines[i], n).body = lines[i].body
  <2> SUFFICES ASSUME NEW i \in DOMAIN lines
               PROVE  /\ FromRecord(SightOf(c, lines[i], n), c.body, n)
                      /\ SightOf(c, lines[i], n).body = lines[i].body
    OBVIOUS
  <2> DEFINE x == SightOf(c, lines[i], n)
  <2>1. /\ lines[i].body \in SightBody /\ lines[i].azimuth \in Int
        /\ lines[i].intercept \in Int
    BY <1>2 DEF Line
  <2>2. x \in Sight
    BY <1>1, <1>4, <2>1 DEF SightOf, Sight, FrameId
  <2>3. /\ x.source_frame_id = c.body.frame_id /\ x.anchor_tt = c.body.frame_tt
        /\ x.obs = <<n, c.body.frame_id, x.body>> /\ x.body = lines[i].body
        /\ x.azimuth = lines[i].azimuth
    BY DEF SightOf
  <2> HIDE DEF x
  <2>4. QED
    BY <2>2, <2>3 DEF FromRecord, lines, x
<1>6. CASE Reducible(s, c)
  <2>1. Reduce(s, c, n) = made
    BY <1>6 DEF Reduce, lines
  <2>2. Len(made) = Len(lines) /\ DOMAIN made = 1 .. Len(lines)
    BY <1>2
  <2>3. \A k \in 1 .. Len(lines) : made[k] = SightOf(c, lines[k], n)
    BY <1>2
  <2> HIDE DEF made
  <2>4. QED
    BY <1>2, <1>3, <1>5, <2>1, <2>2, <2>3
<1>7. CASE ~ Reducible(s, c)
  <2>1. Reduce(s, c, n) = <<>>
    BY <1>7 DEF Reduce
  <2>2. Len(<<>>) = 0 /\ DOMAIN <<>> = 1 .. 0
    OBVIOUS
  <2>3. QED
    BY <2>1, <2>2
<1>8. QED
  BY <1>6, <1>7

-----------------------------------------------------------------------------
(* What the sight window takes.                                            *)

Held == [window : Seq(Sight), inserted : Seq(Sight)]

\* The values of a function with a finite domain are finitely many.
LEMMA ValuesAreFinite ==
  ASSUME NEW f, IsFiniteSet(DOMAIN f)
  PROVE  IsFiniteSet({f[x] : x \in DOMAIN f})
<1> DEFINE values == {f[x] : x \in DOMAIN f}
           g == [x \in DOMAIN f |-> f[x]]
<1>1. g \in Surjection(DOMAIN f, values)
  BY DEF Surjection
<1>2. QED
  BY <1>1, FS_Surjection

LEMMA WorstSightIsThere ==
  ASSUME NEW w \in Seq(Sight), w # <<>>
  PROVE  WorstSight(w) \in DOMAIN w
<1>1. /\ Len(w) \in Nat /\ Len(w) > 0 /\ DOMAIN w = 1 .. Len(w)
      /\ \A i \in DOMAIN w : w[i] \in Sight
  BY LenProperties, ElementOfSeq, EmptySeq
<1>2. \A i \in DOMAIN w : w[i].sigma \in Int /\ i \in Int
  BY <1>1 DEF Sight
<1>3. IsFiniteSet(DOMAIN w)
  BY <1>1, FS_Interval
<1> DEFINE sigmas == {w[i].sigma : i \in DOMAIN w}
<1>4. PICK most \in sigmas : \A x \in sigmas : x <= most
  <2>1. IsFiniteSet(sigmas)
    <3> DEFINE f == [i \in DOMAIN w |-> w[i].sigma]
    <3>1. DOMAIN f = DOMAIN w /\ {f[i] : i \in DOMAIN f} = sigmas
      OBVIOUS
    <3> HIDE DEF f
    <3>2. QED
      BY <1>3, <3>1, ValuesAreFinite
  <2>2. sigmas \in SUBSET Int /\ sigmas # {}
    BY <1>1, <1>2
  <2> HIDE DEF sigmas
  <2>3. QED
    BY <2>1, <2>2, GreatestOfFinite
<1> DEFINE at == {i \in DOMAIN w : w[i].sigma = most}
<1>5. PICK last \in at : \A i \in at : i <= last
  <2>1. IsFiniteSet(at)
    BY <1>3, FS_Subset
  <2>2. at \in SUBSET Int /\ at # {}
    BY <1>2
  <2> HIDE DEF at
  <2>3. QED
    BY <2>1, <2>2, GreatestOfFinite
<1>6. \E i \in DOMAIN w : \A j \in DOMAIN w :
        w[j].sigma < w[i].sigma \/ (w[j].sigma = w[i].sigma /\ j <= i)
  <2>1. \A j \in DOMAIN w : w[j].sigma <= most /\ w[j].sigma \in Int /\ most \in Int
    BY <1>2, <1>4
  <2>2. last \in DOMAIN w /\ w[last].sigma = most
    BY <1>5
  <2>3. ASSUME NEW j \in DOMAIN w
        PROVE  w[j].sigma < w[last].sigma \/ (w[j].sigma = w[last].sigma /\ j <= last)
    <3>1. CASE w[j].sigma = most
      BY <1>5, <2>2, <3>1
    <3>2. CASE w[j].sigma # most
      BY <2>1, <2>2, <3>2
    <3>3. QED
      BY <3>1, <3>2
  <2>4. QED
    BY <2>2, <2>3
<1>7. QED
  BY <1>6 DEF WorstSight

\* The positions of b are those of a and p, where x is now.
Places(b, a, p, x) ==
  /\ p \in DOMAIN b
  /\ DOMAIN b = DOMAIN a \cup {p}
  /\ b[p] = x
  /\ \A i \in DOMAIN b : i # p => b[i] = a[i]

\* A sight offered is refused, or takes a new position or that of a sight
\* with a larger sigma.
LEMMA OfferEffect ==
  ASSUME NEW a \in Held, NEW x \in Sight
  PROVE  /\ Offer(a, x) \in Held
         /\ \/ Offer(a, x) = a
            \/ /\ Offer(a, x).inserted = Append(a.inserted, x)
               /\ \E p : /\ Places(Offer(a, x).window, a.window, p, x)
                         /\ p \in DOMAIN a.window => x.sigma < a.window[p].sigma
<1> DEFINE w == a.window
           new == TryInsert(w, x)
<1>1. /\ w \in Seq(Sight) /\ a.inserted \in Seq(Sight)
      /\ Append(a.inserted, x) \in Seq(Sight)
  BY DEF Held
<1>2. Len(w) \in Nat /\ DOMAIN w = 1 .. Len(w)
  BY <1>1, LenProperties
<1>3. SightWindowCapacity \in Nat \ {0}
  BY StageEConstants
<1>4. CASE ~ Admits(w, x)
  BY <1>4 DEF Offer
<1>5. CASE Admits(w, x)
  <2>1. Offer(a, x) = [window |-> new, inserted |-> Append(a.inserted, x)]
    BY <1>5 DEF Offer
  <2>2. /\ new \in Seq(Sight)
        /\ \E p : /\ Places(new, w, p, x)
                  /\ p \in DOMAIN w => x.sigma < w[p].sigma
    <3>1. CASE HasRoom(w)
      <4>1. new = Append(w, x)
        BY <3>1 DEF TryInsert
      <4>2. new \in Seq(Sight) /\ Len(new) = Len(w) + 1 /\ DOMAIN new = 1 .. Len(w) + 1
        BY <1>1, <1>2, <4>1
      <4>3. \A i \in 1 .. Len(w) + 1 : new[i] = IF i = Len(w) + 1 THEN x ELSE w[i]
        BY <1>1, <4>1
      <4> HIDE DEF new
      <4>4. Places(new, w, Len(w) + 1, x) /\ Len(w) + 1 \notin DOMAIN w
        BY <1>2, <4>2, <4>3 DEF Places
      <4>5. QED
        BY <4>2, <4>4
    <3>2. CASE ~ HasRoom(w)
      <4>1. new = [w EXCEPT ![WorstSight(w)] = x] /\ x.sigma < w[WorstSight(w)].sigma
        BY <1>5, <3>2 DEF TryInsert, Admits
      <4>2. w # <<>>
        BY <1>2, <1>3, <3>2 DEF HasRoom
      <4>3. WorstSight(w) \in DOMAIN w
        BY <1>1, <4>2, WorstSightIsThere
      <4>4. new \in Seq(Sight)
        BY <1>1, <4>1, <4>3
      <4>5. Places(new, w, WorstSight(w), x)
        BY <4>1, <4>3 DEF Places
      <4>6. QED
        BY <4>1, <4>4, <4>5
    <3>3. QED
      BY <3>1, <3>2
  <2> HIDE DEF new
  <2>3. QED
    BY <1>1, <2>1, <2>2 DEF Held
<1>6. QED
  BY <1>4, <1>5

\* What Stage E has made of window w after some sights of the records of s:
\* a holds sights of w, where they were, and of those records; where a sight
\* of w is gone, a better one was inserted.
Fed(s, w, n, a) ==
  /\ a \in Held
  /\ DOMAIN w \subseteq DOMAIN a.window
  /\ \A i \in DOMAIN a.window :
       \/ i \in DOMAIN w /\ a.window[i] = w[i]
       \/ \E m \in DOMAIN a.inserted : a.window[i] = a.inserted[m]
  /\ \A i \in DOMAIN w :
       \/ a.window[i] = w[i]
       \/ \E m \in DOMAIN a.inserted : a.inserted[m].sigma < w[i].sigma
  /\ \A m \in DOMAIN a.inserted : \E r \in s.body_q : FromRecord(a.inserted[m], r, n)

LEMMA OfferFeeds ==
  ASSUME NEW s, NEW w, NEW n, NEW a, Fed(s, w, n, a),
         NEW r \in s.body_q, NEW x, FromRecord(x, r, n)
  PROVE  Fed(s, w, n, Offer(a, x))
<1> DEFINE b == Offer(a, x)
<1>1. a \in Held /\ x \in Sight
  BY DEF Fed, FromRecord
<1>2. b \in Held
  BY <1>1, OfferEffect
<1>3. CASE b = a
  BY <1>3
<1>4. CASE b # a
  <2>1. PICK p : /\ Places(b.window, a.window, p, x)
                 /\ p \in DOMAIN a.window => x.sigma < a.window[p].sigma
    BY <1>1, <1>4, OfferEffect
  <2>2. b.inserted = Append(a.inserted, x)
    BY <1>1, <1>4, OfferEffect
  <2> HIDE DEF b
  <2>3. a.inserted \in Seq(Sight)
    BY <1>1 DEF Held
  <2>4. /\ DOMAIN b.inserted = DOMAIN a.inserted \cup {Len(a.inserted) + 1}
        /\ b.inserted[Len(a.inserted) + 1] = x
        /\ \A m \in DOMAIN a.inserted : b.inserted[m] = a.inserted[m]
    <3>1. Len(a.inserted) \in Nat /\ DOMAIN a.inserted = 1 .. Len(a.inserted)
      BY <2>3, LenProperties
    <3>2. Len(b.inserted) = Len(a.inserted) + 1 /\ DOMAIN b.inserted = 1 .. Len(a.inserted) + 1
      BY <2>2, <2>3, <3>1
    <3>3. /\ b.inserted[Len(a.inserted) + 1] = x
          /\ \A m \in 1 .. Len(a.inserted) : b.inserted[m] = a.inserted[m]
      BY <2>2, <2>3
    <3>4. QED
      BY <3>1, <3>2, <3>3
  <2>5. \A m \in DOMAIN b.inserted : \E q \in s.body_q : FromRecord(b.inserted[m], q, n)
    BY <2>4 DEF Fed
  <2>6. DOMAIN w \subseteq DOMAIN b.window
    BY <2>1 DEF Fed, Places
  <2>7. \A i \in DOMAIN b.window :
          \/ i \in DOMAIN w /\ b.window[i] = w[i]
          \/ \E m \in DOMAIN b.inserted : b.window[i] = b.inserted[m]
    <3> SUFFICES ASSUME NEW i \in DOMAIN b.window
                 PROVE  \/ i \in DOMAIN w /\ b.window[i] = w[i]
                        \/ \E m \in DOMAIN b.inserted : b.window[i] = b.inserted[m]
      OBVIOUS
    <3>1. CASE i = p
      BY <2>1, <2>4, <3>1 DEF Places
    <3>2. CASE i # p
      <4>1. i \in DOMAIN a.window /\ b.window[i] = a.window[i]
        BY <2>1, <3>2 DEF Places
      <4>2. QED
        BY <2>4, <4>1 DEF Fed
    <3>3. QED
      BY <3>1, <3>2
  <2>8. \A i \in DOMAIN w :
          \/ b.window[i] = w[i]
          \/ \E m \in DOMAIN b.inserted : b.inserted[m].sigma < w[i].sigma
    <3> SUFFICES ASSUME NEW i \in DOMAIN w
                 PROVE  \/ b.window[i] = w[i]
                        \/ \E m \in DOMAIN b.inserted : b.inserted[m].sigma < w[i].sigma
      OBVIOUS
    <3>1. i \in DOMAIN a.window /\ i \in DOMAIN b.window
      BY <2>6 DEF Fed
    <3>2. \/ a.window[i] = w[i]
          \/ \E m \in DOMAIN a.inserted : a.inserted[m].sigma < w[i].sigma
      BY DEF Fed
    <3>3. CASE a.window[i] = w[i]
      BY <2>1, <2>4, <3>1, <3>3 DEF Places
    <3>4. CASE \E m \in DOMAIN a.inserted : a.inserted[m].sigma < w[i].sigma
      BY <2>4, <3>4
    <3>5. QED
      BY <3>2, <3>3, <3>4
  <2>9. QED
    BY <1>2, <2>5, <2>6, <2>7, <2>8 DEF Fed, b
<1>5. QED
  BY <1>3, <1>4

\* Sights as one candidate yields them.
YieldOf(sights, r, n) ==
  /\ Len(sights) \in Nat /\ DOMAIN sights = 1 .. Len(sights)
  /\ \A k \in DOMAIN sights : FromRecord(sights[k], r, n)
  /\ \A k, m \in DOMAIN sights : k # m => sights[k].body # sights[m].body

LEMMA OfferAllFeeds ==
  ASSUME NEW s, NEW w, NEW n, NEW a, Fed(s, w, n, a),
         NEW r \in s.body_q, NEW sights, YieldOf(sights, r, n)
  PROVE  Fed(s, w, n, OfferAll(a, sights))
<1> DEFINE Reached == {p \in (0 .. Len(sights)) \X Held : Fed(s, w, n, p[2])}
<1>1. Len(sights) \in Nat /\ <<0, a>> \in Reached
  BY DEF YieldOf, Fed
<1>2. ASSUME NEW k \in 0 .. Len(sights) - 1, NEW b, <<k, b>> \in Reached
      PROVE  <<k + 1, Offer(b, sights[k + 1])>> \in Reached
  <2>1. Fed(s, w, n, b)
    BY <1>2
  <2>2. k + 1 \in DOMAIN sights /\ k + 1 \in 0 .. Len(sights)
    BY DEF YieldOf
  <2>3. FromRecord(sights[k + 1], r, n)
    BY <2>2 DEF YieldOf
  <2>4. Fed(s, w, n, Offer(b, sights[k + 1]))
    BY <2>1, <2>3, OfferFeeds
  <2>5. Offer(b, sights[k + 1]) \in Held
    BY <2>4 DEF Fed
  <2>6. QED
    BY <2>2, <2>4, <2>5
<1>3. <<Len(sights), OfferAll(a, sights)>> \in Reached
  <2> HIDE DEF Reached
  <2> QED BY <1>1, <1>2, OfferAllKeeps
<1>4. QED
  BY <1>3

LEMMA VisitFeeds ==
  ASSUME NEW s, Queues(s), NEW w, NEW n \in Nat, NEW a, Fed(s, w, n, a),
         NEW c, c.body \in s.body_q, c.horizon \in s.horizon_q
  PROVE  Fed(s, w, n, Visit(s, a, c, n))
<1>1. c.body \in BodyRecord /\ c.horizon \in HorizonRecord
  BY DEF Queues
<1>2. YieldOf(Reduce(s, c, n), c.body, n)
  BY <1>1, ReduceYields DEF YieldOf
<1>3. Fed(s, w, n, OfferAll(a, Reduce(s, c, n)))
  BY <1>2, OfferAllFeeds
<1>4. QED
  BY <1>3 DEF Visit

LEMMA EmitFeeds ==
  ASSUME NEW s, Queues(s), NEW w \in Seq(Sight), NEW n \in Nat
  PROVE  Fed(s, w, n, Emit(s, w, n))
<1> DEFINE c == Candidates(s)
           start == [window |-> w, inserted |-> <<>>]
           Reached == {p \in (0 .. Len(c)) \X Held : Fed(s, w, n, p[2])}
<1>1. /\ Len(c) \in Nat /\ DOMAIN c = 1 .. Len(c)
      /\ \A i \in DOMAIN c : c[i].body \in s.body_q /\ c[i].horizon \in s.horizon_q
  BY CandidatesAreQueued
<1> HIDE DEF c
<1>2. <<0, start>> \in Reached
  <2>1. start \in Held
    BY DEF Held
  <2>2. DOMAIN start.inserted = {}
    OBVIOUS
  <2>3. Fed(s, w, n, start)
    BY <2>1, <2>2 DEF Fed
  <2>4. QED
    BY <1>1, <2>1, <2>3
<1>3. ASSUME NEW k \in 0 .. Len(c) - 1, NEW b, <<k, b>> \in Reached
      PROVE  <<k + 1, Visit(s, b, c[k + 1], n)>> \in Reached
  <2>1. Fed(s, w, n, b)
    BY <1>3
  <2>2. k + 1 \in DOMAIN c /\ k + 1 \in 0 .. Len(c)
    BY <1>1
  <2>3. Fed(s, w, n, Visit(s, b, c[k + 1], n))
    BY <1>1, <2>1, <2>2, VisitFeeds
  <2>4. Visit(s, b, c[k + 1], n) \in Held
    BY <2>3 DEF Fed
  <2>5. QED
    BY <2>2, <2>3, <2>4
<1>4. <<Len(c), Emit(s, w, n)>> \in Reached
  <2> HIDE DEF Reached
  <2> QED BY <1>1, <1>2, <1>3, EmitKeeps DEF c
<1>5. QED
  BY <1>4

\* Without a candidate nothing happens.
LEMMA NothingToEmit ==
  ASSUME NEW s, NEW w, NEW n, Candidates(s) = <<>>
  PROVE  Emit(s, w, n) = [window |-> w, inserted |-> <<>>]
<1> DEFINE Reached == {<<0, [window |-> w, inserted |-> <<>>]>>}
<1>1. Len(Candidates(s)) = 0
  OBVIOUS
<1>2. <<Len(Candidates(s)), Emit(s, w, n)>> \in Reached
  <2>1. \A k \in 0 .. Len(Candidates(s)) - 1 : FALSE
    BY <1>1
  <2>2. <<0, [window |-> w, inserted |-> <<>>]>> \in Reached
    OBVIOUS
  <2> HIDE DEF Reached
  <2>3. QED
    BY <1>1, <2>1, <2>2, EmitKeeps
<1>3. QED
  BY <1>2

-----------------------------------------------------------------------------
(* No observation twice.                                                   *)

\* A sight of session n names its record; one read from disk is older.
Named(w, n) ==
  \A i \in DOMAIN w :
    IF w[i].source_frame_id = NoFrame
      THEN w[i].obs[1] < n
      ELSE w[i].obs = <<n, w[i].source_frame_id, w[i].body>>

OnceEach(w) ==
  \A i, j \in DOMAIN w :
    i # j /\ w[i].obs = w[j].obs
      => w[i].source_frame_id = NoFrame /\ w[j].source_frame_id = NoFrame

\* The sights of frame id in w are among the first k of these.
Offered(w, id, sights, k) ==
  \A i \in DOMAIN w :
    w[i].source_frame_id = id => \E m \in 1 .. k : w[i].obs = sights[m].obs

LEMMA OfferAddsOne ==
  ASSUME NEW n \in Nat, NEW a \in Held, Named(a.window, n), OnceEach(a.window),
         NEW r \in BodyRecord, NEW sights, YieldOf(sights, r, n),
         NEW k \in 0 .. Len(sights) - 1,
         Offered(a.window, r.frame_id, sights, k)
  PROVE  LET b == Offer(a, sights[k + 1])
         IN /\ b \in Held /\ Named(b.window, n) /\ OnceEach(b.window)
            /\ Offered(b.window, r.frame_id, sights, k + 1)
<1> DEFINE x == sights[k + 1]
           b == Offer(a, x)
           u == a.window
           v == b.window
<1>1. /\ k + 1 \in DOMAIN sights /\ k \in Nat
      /\ \A m \in 1 .. k : m \in DOMAIN sights /\ m # k + 1
      /\ k + 1 \in 1 .. k + 1 /\ \A m \in 1 .. k : m \in 1 .. k + 1
  BY DEF YieldOf
<1>2. FromRecord(x, r, n)
  BY <1>1 DEF YieldOf
<1>3. /\ x \in Sight /\ x.source_frame_id = r.frame_id
      /\ x.obs = <<n, r.frame_id, x.body>> /\ r.frame_id \in Nat /\ x.source_frame_id # NoFrame
  BY <1>2, StageEConstants DEF FromRecord, BodyRecord, FrameId
<1>4. \A m \in 1 .. k : sights[m].obs # x.obs
  <2> SUFFICES ASSUME NEW m \in 1 .. k PROVE sights[m].obs # x.obs
    OBVIOUS
  <2>1. sights[m].body # x.body
    BY <1>1 DEF YieldOf
  <2>2. sights[m].obs = <<n, r.frame_id, sights[m].body>>
    BY <1>1 DEF YieldOf, FromRecord
  <2>3. QED
    BY <1>3, <2>1, <2>2
<1>5. b \in Held
  BY <1>3, OfferEffect
<1>6. \A i \in DOMAIN u : u[i].obs # x.obs
  <2> SUFFICES ASSUME NEW i \in DOMAIN u, u[i].obs = x.obs PROVE FALSE
    OBVIOUS
  <2>1. CASE u[i].source_frame_id = NoFrame
    <3>1. u[i].obs[1] < n
      BY <2>1 DEF Named
    <3>2. u[i].obs[1] = n
      BY <1>3
    <3>3. QED
      BY <3>1, <3>2
  <2>2. CASE u[i].source_frame_id # NoFrame /\ u[i].source_frame_id # r.frame_id
    BY <1>3, <2>2 DEF Named
  <2>3. CASE u[i].source_frame_id = r.frame_id
    BY <1>4, <2>3 DEF Offered
  <2>4. QED
    BY <2>1, <2>2, <2>3
<1> HIDE DEF b, x
<1>7. CASE b = a
  <2>1. Offered(u, r.frame_id, sights, k + 1)
    BY <1>1 DEF Offered
  <2>2. QED
    BY <1>5, <1>7, <2>1 DEF b, x
<1>8. CASE b # a
  <2>1. PICK p : Places(v, u, p, x)
    BY <1>3, <1>8, OfferEffect DEF b
  <2>2. \A i \in DOMAIN v : i = p \/ (i \in DOMAIN u /\ v[i] = u[i])
    BY <2>1 DEF Places
  <2>3. v[p] = x
    BY <2>1 DEF Places
  <2>4. Named(v, n)
    BY <1>3, <2>2, <2>3 DEF Named
  <2>5. OnceEach(v)
    BY <1>6, <2>2, <2>3 DEF OnceEach
  <2>6. Offered(v, r.frame_id, sights, k + 1)
    <3> SUFFICES ASSUME NEW i \in DOMAIN v, v[i].source_frame_id = r.frame_id
                 PROVE  \E m \in 1 .. k + 1 : v[i].obs = sights[m].obs
      BY DEF Offered
    <3>1. CASE i = p
      BY <1>1, <2>3, <3>1 DEF x
    <3>2. CASE i # p
      <4>1. \E m \in 1 .. k : v[i].obs = sights[m].obs
        BY <2>2, <3>2 DEF Offered
      <4>2. QED
        BY <1>1, <4>1
    <3>3. QED
      BY <3>1, <3>2
  <2>7. QED
    BY <1>5, <2>4, <2>5, <2>6 DEF b, x
<1>9. QED
  BY <1>7, <1>8

LEMMA OfferAllOnce ==
  ASSUME NEW n \in Nat, NEW a \in Held, Named(a.window, n), OnceEach(a.window),
         NEW r \in BodyRecord, ~ ContainsSource(a.window, r.frame_id),
         NEW sights, YieldOf(sights, r, n)
  PROVE  /\ OfferAll(a, sights) \in Held
         /\ Named(OfferAll(a, sights).window, n)
         /\ OnceEach(OfferAll(a, sights).window)
<1> DEFINE Good(k, b) == /\ b \in Held /\ Named(b.window, n) /\ OnceEach(b.window)
                         /\ Offered(b.window, r.frame_id, sights, k)
           Reached == {p \in (0 .. Len(sights)) \X Held : Good(p[1], p[2])}
<1>1. Len(sights) \in Nat
  BY DEF YieldOf
<1>2. Good(0, a)
  BY DEF Offered, ContainsSource
<1>3. ASSUME NEW k \in 0 .. Len(sights) - 1, NEW b, Good(k, b)
      PROVE  Good(k + 1, Offer(b, sights[k + 1]))
  BY <1>3, OfferAddsOne
<1> HIDE DEF Good
<1>4. <<0, a>> \in Reached
  BY <1>1, <1>2
<1>5. ASSUME NEW k \in 0 .. Len(sights) - 1, NEW b, <<k, b>> \in Reached
      PROVE  <<k + 1, Offer(b, sights[k + 1])>> \in Reached
  <2>1. Good(k + 1, Offer(b, sights[k + 1]))
    BY <1>3, <1>5
  <2>2. k + 1 \in 0 .. Len(sights)
    BY <1>1
  <2>3. Offer(b, sights[k + 1]) \in Held
    BY <2>1 DEF Good
  <2>4. QED
    BY <2>1, <2>2, <2>3
<1>6. <<Len(sights), OfferAll(a, sights)>> \in Reached
  <2> HIDE DEF Reached
  <2> QED BY <1>1, <1>4, <1>5, OfferAllKeeps
<1>7. QED
  BY <1>6 DEF Good

\* Emit puts no observation into the window that is there already.
LEMMA EmitOnce ==
  ASSUME NEW s, Queues(s), NEW w \in Seq(Sight), NEW n \in Nat,
         Named(w, n), OnceEach(w)
  PROVE  Named(Emit(s, w, n).window, n) /\ OnceEach(Emit(s, w, n).window)
<1> DEFINE c == Candidates(s)
           start == [window |-> w, inserted |-> <<>>]
           Good(b) == b \in Held /\ Named(b.window, n) /\ OnceEach(b.window)
           Reached == {p \in (0 .. Len(c)) \X Held : Good(p[2])}
<1>1. /\ Len(c) \in Nat /\ DOMAIN c = 1 .. Len(c)
      /\ \A i \in DOMAIN c : c[i].body \in BodyRecord /\ c[i].horizon \in HorizonRecord
  BY CandidatesAreQueued DEF Queues
<1> HIDE DEF c
<1>2. Good(start)
  BY DEF Held
<1>3. ASSUME NEW k \in 0 .. Len(c) - 1, NEW b, Good(b)
      PROVE  Good(Visit(s, b, c[k + 1], n))
  <2>1. k + 1 \in DOMAIN c
    BY <1>1
  <2>2. YieldOf(Reduce(s, c[k + 1], n), c[k + 1].body, n)
    BY <1>1, <2>1, ReduceYields DEF YieldOf
  <2>3. CASE ContainsSource(b.window, c[k + 1].body.frame_id)
    BY <1>3, <2>3 DEF Visit
  <2>4. CASE ~ ContainsSource(b.window, c[k + 1].body.frame_id)
    <3>1. Good(OfferAll(b, Reduce(s, c[k + 1], n)))
      BY <1>1, <1>3, <2>1, <2>2, <2>4, OfferAllOnce
    <3>2. QED
      BY <2>4, <3>1 DEF Visit
  <2>5. QED
    BY <2>3, <2>4
<1> HIDE DEF Good
<1>4. <<0, start>> \in Reached
  BY <1>1, <1>2 DEF Good
<1>5. ASSUME NEW k \in 0 .. Len(c) - 1, NEW b, <<k, b>> \in Reached
      PROVE  <<k + 1, Visit(s, b, c[k + 1], n)>> \in Reached
  <2>1. Good(Visit(s, b, c[k + 1], n))
    BY <1>3, <1>5
  <2>2. k + 1 \in 0 .. Len(c)
    BY <1>1
  <2>3. Visit(s, b, c[k + 1], n) \in Held
    BY <2>1 DEF Good
  <2>4. QED
    BY <2>1, <2>2, <2>3
<1>6. <<Len(c), Emit(s, w, n)>> \in Reached
  <2> HIDE DEF Reached
  <2> QED BY <1>1, <1>4, <1>5, EmitKeeps DEF c
<1>7. QED
  BY <1>6 DEF Good

-----------------------------------------------------------------------------
(* One run of Stage E.                                                     *)

LEMMA EvictAgedKeepsYoung ==
  ASSUME NEW w \in Seq(Sight), NEW now \in Int
  PROVE  LET v == EvictAged(w, now)
         IN /\ v \in Seq(Sight)
            /\ \A i \in DOMAIN v : \E j \in DOMAIN w :
                 v[i] = w[j] /\ Gap(now, w[j].anchor_tt) <= SightWindowSeconds
            /\ \A j \in DOMAIN w :
                 \/ \E i \in DOMAIN v : v[i] = w[j]
                 \/ Gap(now, w[j].anchor_tt) > SightWindowSeconds
            /\ OnceEach(w) => OnceEach(v)
            /\ (\A j \in DOMAIN w : Gap(now, w[j].anchor_tt) <= SightWindowSeconds)
                 => Len(v) = Len(w)
<1> DEFINE at == {i \in DOMAIN w : Gap(now, w[i].anchor_tt) <= SightWindowSeconds}
           v == Picked(w, at)
<1>1. EvictAged(w, now) = v
  BY DEF EvictAged
<1>2. Len(w) \in Nat /\ DOMAIN w = 1 .. Len(w) /\ \A i \in DOMAIN w : w[i] \in Sight
  BY LenProperties, ElementOfSeq
<1>3. \A i \in DOMAIN w : Gap(now, w[i].anchor_tt) \in Int
  <2> SUFFICES ASSUME NEW i \in DOMAIN w PROVE Gap(now, w[i].anchor_tt) \in Int
    OBVIOUS
  <2>1. w[i].anchor_tt \in Int
    BY <1>2, StorageConstants DEF Sight
  <2>2. QED
    BY <2>1 DEF Gap
<1>4. at \in SUBSET DOMAIN w
  OBVIOUS
<1>5. /\ \A i \in at : Gap(now, w[i].anchor_tt) <= SightWindowSeconds
      /\ \A i \in DOMAIN w : i \in at \/ Gap(now, w[i].anchor_tt) > SightWindowSeconds
  BY <1>3, StageEConstants
<1>6. (\A j \in DOMAIN w : Gap(now, w[j].anchor_tt) <= SightWindowSeconds)
        => at = 1 .. Len(w)
  BY <1>2
<1> HIDE DEF at
<1>7. /\ v \in Seq(Sight) /\ Len(v) = Cardinality(at)
      /\ \E from \in [1 .. Len(v) -> at] :
           /\ \A n \in 1 .. Len(v) : v[n] = w[from[n]]
           /\ \A m, n \in 1 .. Len(v) : m < n => from[m] < from[n]
           /\ \A i \in at : \E n \in 1 .. Len(v) : from[n] = i
  BY <1>4, PickedKeepsOrder
<1> HIDE DEF v
<1>8. PICK from \in [1 .. Len(v) -> at] :
           /\ \A n \in 1 .. Len(v) : v[n] = w[from[n]]
           /\ \A m, n \in 1 .. Len(v) : m < n => from[m] < from[n]
           /\ \A i \in at : \E n \in 1 .. Len(v) : from[n] = i
  BY <1>7
<1>9. Len(v) \in Nat /\ DOMAIN v = 1 .. Len(v)
  BY <1>7, LenProperties
<1>10. \A i \in DOMAIN v : \E j \in DOMAIN w :
         v[i] = w[j] /\ Gap(now, w[j].anchor_tt) <= SightWindowSeconds
  BY <1>4, <1>5, <1>8, <1>9
<1>11. \A j \in DOMAIN w : \/ \E i \in DOMAIN v : v[i] = w[j]
                           \/ Gap(now, w[j].anchor_tt) > SightWindowSeconds
  <2> SUFFICES ASSUME NEW j \in at PROVE \E i \in DOMAIN v : v[i] = w[j]
    BY <1>5
  <2>1. PICK n \in 1 .. Len(v) : from[n] = j
    BY <1>8
  <2>2. QED
    BY <1>8, <1>9, <2>1
<1>12. OnceEach(w) => OnceEach(v)
  <2> SUFFICES ASSUME OnceEach(w), NEW i \in DOMAIN v, NEW j \in DOMAIN v,
                      i # j, v[i].obs = v[j].obs
               PROVE  v[i].source_frame_id = NoFrame /\ v[j].source_frame_id = NoFrame
    BY DEF OnceEach
  <2>1. from[i] \in DOMAIN w /\ from[j] \in DOMAIN w
    BY <1>4, <1>8, <1>9
  <2>2. from[i] # from[j]
    <3>1. i < j \/ j < i
      BY <1>9
    <3>2. from[i] < from[j] \/ from[j] < from[i]
      BY <1>8, <1>9, <3>1
    <3>3. from[i] \in Nat /\ from[j] \in Nat
      BY <1>2, <2>1
    <3>4. QED
      BY <3>2, <3>3
  <2>3. QED
    BY <1>8, <1>9, <2>1, <2>2 DEF OnceEach
<1>13. (\A j \in DOMAIN w : Gap(now, w[j].anchor_tt) <= SightWindowSeconds)
         => Len(v) = Len(w)
  <2>1. Cardinality(1 .. Len(w)) = Len(w)
    <3>1. \A n \in Nat : Cardinality(1 .. n) = n
      BY FS_Interval
    <3>2. QED
      BY <1>2, <3>1
  <2>2. QED
    BY <1>6, <1>7, <2>1
<1>14. QED
  BY <1>1, <1>7, <1>10, <1>11, <1>12, <1>13

\* The time of a run is that of the latest body record, or without a
\* candidate that of the first sight.
LEMMA NowIs ==
  ASSUME NEW s, Queues(s), NEW w \in Seq(Sight)
  PROVE  /\ Now(s, w) \in Times \cup {NoTime}
         /\ Candidates(s) # <<>> =>
              /\ \E r \in s.body_q : Now(s, w) = r.frame_tt
              /\ \A r \in s.body_q : r.frame_tt <= Now(s, w)
         /\ Candidates(s) = <<>> /\ w # <<>> => Now(s, w) = w[1].anchor_tt
         /\ Now(s, w) = NoTime => Candidates(s) = <<>> /\ w = <<>>
<1> DEFINE c == Candidates(s)
           tts == {c[i].body.frame_tt : i \in DOMAIN c}
<1>1. /\ Len(c) \in Nat /\ DOMAIN c = 1 .. Len(c)
      /\ \A i \in DOMAIN c : c[i].body \in s.body_q /\ c[i].horizon \in s.horizon_q
      /\ s.horizon_q # {} => \A r \in s.body_q : \E i \in DOMAIN c : c[i].body = r
  BY CandidatesAreQueued
<1>2. \A r \in s.body_q : r.frame_tt \in Times /\ r.frame_tt \in Int
  BY StorageConstants DEF Queues, BodyRecord
<1>3. CASE c # <<>>
  <2>1. Now(s, w) = CHOOSE t \in tts : \A i \in DOMAIN c : c[i].body.frame_tt <= t
    BY <1>3 DEF Now
  <2>2. 1 \in DOMAIN c
    <3>1. c = <<>> \/ Len(c) # 0
      <4>1. CASE c = [i \in DOMAIN c |-> c[i]]
        BY <1>1, <4>1
      <4>2. QED
        BY <4>1, <1>3 DEF Candidates
    <3>2. QED
      BY <1>1, <1>3, <3>1
  <2> HIDE DEF c
  <2>3. IsFiniteSet(tts) /\ tts \in SUBSET Int /\ tts # {}
    <3> DEFINE f == [i \in DOMAIN c |-> c[i].body.frame_tt]
    <3>1. IsFiniteSet(DOMAIN f) /\ {f[i] : i \in DOMAIN f} = tts
      BY <1>1, FS_Interval
    <3> HIDE DEF f
    <3>2. IsFiniteSet(tts)
      BY <3>1, ValuesAreFinite
    <3>3. QED
      BY <1>1, <1>2, <2>2, <3>2
  <2>4. \E t \in tts : \A x \in tts : x <= t
    <3> HIDE DEF tts
    <3> QED BY <2>3, GreatestOfFinite
  <2>5. Now(s, w) \in tts /\ \A i \in DOMAIN c : c[i].body.frame_tt <= Now(s, w)
    BY <2>1, <2>4
  <2>6. \E i \in DOMAIN c : Now(s, w) = c[i].body.frame_tt
    BY <2>5
  <2>7. s.horizon_q # {}
    BY <1>1, <2>2
  <2>8. \A r \in s.body_q : r.frame_tt <= Now(s, w)
    BY <1>1, <2>5, <2>7
  <2>9. \E r \in s.body_q : Now(s, w) = r.frame_tt
    BY <1>1, <2>6
  <2>10. Now(s, w) \in Times /\ Now(s, w) # NoTime
    BY <1>2, <2>9, StageEConstants
  <2>11. QED
    BY <1>3, <2>8, <2>9, <2>10 DEF c
<1>4. CASE c = <<>>
  <2>1. Now(s, w) = IF w # <<>> THEN w[1].anchor_tt ELSE NoTime
    BY <1>4 DEF Now
  <2>2. w # <<>> => w[1].anchor_tt \in Times
    <3>1. w # <<>> => 1 \in DOMAIN w
      BY LenProperties, EmptySeq
    <3>2. w # <<>> => w[1] \in Sight
      BY <3>1, ElementOfSeq, LenProperties
    <3>3. QED
      BY <3>2 DEF Sight
  <2>3. w # <<>> => w[1].anchor_tt # NoTime
    BY <2>2, StageEConstants
  <2> HIDE DEF c
  <2>4. QED
    BY <1>4, <2>1, <2>2, <2>3 DEF c
<1>5. QED
  BY <1>3, <1>4

-----------------------------------------------------------------------------
(* What may be published.                                                  *)

Fix == [timestamp : Times, sights : Seq(Sight),
        provenance : {"ColdStart", "ColdStartAmbiguous", "SaintHilaire"}]

\* A fix rests on sights of the window, in the geometry the gate asks for.
LEMMA PublishableIs ==
  ASSUME NEW w \in Seq(Sight), NEW now \in Times, NEW prior,
         NEW fix \in Publishable(w, now, prior)
  PROVE  /\ fix \in Fix
         /\ fix.timestamp = now
         /\ \A i \in DOMAIN fix.sights : \E j \in DOMAIN w : fix.sights[i] = w[j]
         /\ Diverse(fix.sights)
<1> DEFINE kept == Picked(w, KeptSights(w))
<1>1. KeptSights(w) \in SUBSET DOMAIN w
  BY DEF KeptSights
<1>2. /\ kept \in Seq(Sight)
      /\ \A i \in DOMAIN kept : \E j \in DOMAIN w : kept[i] = w[j]
  <2>1. kept \in Seq(Sight)
    BY <1>1, PickedKeepsOrder
  <2>2. \A i \in DOMAIN kept : \E j \in KeptSights(w) : kept[i] = w[j]
    BY <1>1, PickedElements
  <2>3. QED
    BY <1>1, <2>1, <2>2
<1>3. ASSUME NEW sights \in Seq(Sight),
             \A i \in DOMAIN sights : \E j \in DOMAIN w : sights[i] = w[j],
             NEW provenance \in {"ColdStart", "ColdStartAmbiguous", "SaintHilaire"},
             fix \in Gated(sights, now, provenance)
      PROVE  /\ fix \in Fix /\ fix.timestamp = now
             /\ \A i \in DOMAIN fix.sights : \E j \in DOMAIN w : fix.sights[i] = w[j]
             /\ Diverse(fix.sights)
  <2>1. /\ Diverse(sights)
        /\ fix = [timestamp |-> now, sights |-> sights, provenance |-> provenance]
    BY <1>3 DEF Gated
  <2>2. fix.sights = sights /\ fix.timestamp = now /\ fix \in Fix
    BY <2>1 DEF Fix
  <2>3. QED
    BY <1>3, <2>1, <2>2
<1>4. \/ fix \in Gated(w, now, "ColdStart")
      \/ fix \in Gated(w, now, "ColdStartAmbiguous")
      \/ fix \in Gated(kept, now, "SaintHilaire")
  BY DEF Publishable, ColdStarted
<1> HIDE DEF kept
<1>5. \A i \in DOMAIN w : \E j \in DOMAIN w : w[i] = w[j]
  OBVIOUS
<1>6. CASE fix \in Gated(w, now, "ColdStart")
  BY <1>3, <1>5, <1>6
<1>7. CASE fix \in Gated(w, now, "ColdStartAmbiguous")
  BY <1>3, <1>5, <1>7
<1>8. CASE fix \in Gated(kept, now, "SaintHilaire")
  BY <1>2, <1>3, <1>8
<1>9. QED
  BY <1>4, <1>6, <1>7, <1>8

\* The gate lets nothing through that looks one way only.
LEMMA DiverseLooksTwoWays ==
  ASSUME MinAzimuthSpread > 0, NEW sights \in Seq(Sight), Diverse(sights)
  PROVE  \E i, j \in DOMAIN sights : sights[i].azimuth # sights[j].azimuth
<1> DEFINE Turn(i) == (sights[i].azimuth - sights[1].azimuth) % FullTurn
           turns == {Turn(i) : i \in DOMAIN sights}
<1>1. /\ Len(sights) \in Nat /\ DOMAIN sights = 1 .. Len(sights)
      /\ \A i \in DOMAIN sights : sights[i] \in Sight
  BY LenProperties, ElementOfSeq
<1>2. 1 \in DOMAIN sights /\ SpreadFrom(sights, 1) >= MinAzimuthSpread
  BY <1>1 DEF Diverse
<1>3. FullTurn \in Nat /\ FullTurn > 0 /\ MinAzimuthSpread \in Nat
  BY ScreeningConstants, StageEConstants
<1>4. \A i \in DOMAIN sights : sights[i].azimuth \in Int /\ Turn(i) \in Int
  <2>1. \A i \in DOMAIN sights : sights[i].azimuth \in Int
    BY <1>1 DEF Sight
  <2>2. \A a, b \in Int : (a - b) % FullTurn \in Int
    BY <1>3
  <2>3. QED
    BY <1>2, <2>1, <2>2
<1>5. IsFiniteSet(turns) /\ turns \in SUBSET Int /\ turns # {}
  <2> DEFINE f == [i \in DOMAIN sights |-> Turn(i)]
  <2>1. IsFiniteSet(DOMAIN f) /\ {f[i] : i \in DOMAIN f} = turns
    BY <1>1, FS_Interval
  <2> HIDE DEF f
  <2>2. IsFiniteSet(turns)
    BY <2>1, ValuesAreFinite
  <2>3. QED
    BY <1>2, <1>4, <2>2
<1>6. \E d \in turns : \A t \in turns : t <= d
  <2> HIDE DEF turns
  <2> QED BY <1>5, GreatestOfFinite
<1>7. \E d \in turns : \A j \in DOMAIN sights : Turn(j) <= d
  BY <1>6
<1>8. SpreadFrom(sights, 1) \in turns
  BY <1>7 DEF SpreadFrom
<1>9. PICK i \in DOMAIN sights : Turn(i) = SpreadFrom(sights, 1)
  BY <1>8
<1>10. Turn(i) > 0
  BY <1>2, <1>3, <1>4, <1>9
<1>11. 0 % FullTurn = 0
  BY <1>3
<1>12. sights[i].azimuth # sights[1].azimuth
  <2> SUFFICES ASSUME sights[i].azimuth = sights[1].azimuth PROVE FALSE
    OBVIOUS
  <2>1. sights[i].azimuth - sights[1].azimuth = 0
    BY <1>2, <1>4
  <2>2. QED
    BY <1>10, <1>11, <2>1
<1>13. QED
  BY <1>2, <1>12

-----------------------------------------------------------------------------
(* The queues after a push.                                                *)

LEMMA NewRecordsAreFew ==
  ASSUME NEW frame, NEW d
  PROVE  /\ IsFiniteSet(RecordFrom(frame, d))
         /\ \A r, q \in RecordFrom(frame, d) : r = q
<1>1. CASE d = NoDetection
  BY <1>1, FS_EmptySet DEF RecordFrom
<1>2. CASE d # NoDetection
  BY <1>2, FS_Singleton DEF RecordFrom
<1>3. QED
  BY <1>1, <1>2

\* Records leave oldest first; the new one is the youngest.
LEMMA PushedQueues ==
  ASSUME IInv, Queues(storage),
         NEW tt \in Times,
         NEW body \in BodyDetections \cup {NoDetection},
         NEW horizon \in HorizonDetections \cup {NoDetection},
         PushFrame(tt, body, horizon)
  PROVE  /\ Queues(storage')
         /\ next_frame_id' = next_frame_id + 1
         /\ \A r \in storage.body_q : r.frame_id < next_frame_id
         /\ \A r \in storage'.body_q :
              r \in storage.body_q \/ (r.frame_id = next_frame_id /\ r.frame_tt = tt)
         /\ \A r \in storage.body_q :
              \/ r \in storage'.body_q
              \/ \A q \in storage'.body_q : r.frame_id < q.frame_id
<1> DEFINE n == NewFrame(tt)
           out == {f.frame_id : f \in ForcedOut(storage)}
<1>1. storage' = StorageAfter(tt, body, horizon) /\ next_frame_id' = next_frame_id + 1
  BY DEF PushFrame
<1>2. n.frame_id = next_frame_id /\ n.frame_tt = tt
  BY DEF NewFrame
<1>3. /\ storage'.body_q = DropRecordsFor(storage.body_q, out) \cup RecordFrom(n, body)
      /\ storage'.horizon_q = DropRecordsFor(storage.horizon_q, out) \cup RecordFrom(n, horizon)
  BY <1>1, PushEffect
<1>4. TypeOK /\ TypeOK'
  BY PushKeepsIInv DEF IInv
<1>5. \A r \in Records(storage) : r.frame_id < next_frame_id /\ r.frame_id \in Nat
  <2>1. \A r \in Records(storage) : r.frame_id \in Nat
    BY <1>4 DEF TypeOK, Records, BodyRecord, HorizonRecord, FrameId
  <2>2. QED
    BY <2>1 DEF IInv, IdsBelowNext, RecordsReferenceLiveFrames
<1>6. /\ \A r \in RecordFrom(n, body) : r.frame_id = next_frame_id /\ r.frame_tt = tt
      /\ \A r \in RecordFrom(n, horizon) : r.frame_id = next_frame_id
  BY <1>2, RecordFromFrame
<1>7. /\ storage.body_q \subseteq Records(storage) /\ storage.horizon_q \subseteq Records(storage)
      /\ DropRecordsFor(storage.body_q, out) \subseteq storage.body_q
      /\ DropRecordsFor(storage.horizon_q, out) \subseteq storage.horizon_q
  BY DEF Records, DropRecordsFor
<1>8. next_frame_id \in Nat
  BY <1>4 DEF TypeOK
<1>9. Queues(storage')
  <2>1. IsFiniteSet(storage'.body_q) /\ IsFiniteSet(storage'.horizon_q)
    <3>1. /\ IsFiniteSet(DropRecordsFor(storage.body_q, out))
          /\ IsFiniteSet(DropRecordsFor(storage.horizon_q, out))
      BY <1>7, FS_Subset DEF Queues
    <3>2. IsFiniteSet(RecordFrom(n, body)) /\ IsFiniteSet(RecordFrom(n, horizon))
      BY NewRecordsAreFew
    <3> HIDE DEF n, out
    <3>3. IsFiniteSet(DropRecordsFor(storage.body_q, out) \cup RecordFrom(n, body))
      BY <3>1, <3>2, FS_Union
    <3>4. IsFiniteSet(DropRecordsFor(storage.horizon_q, out) \cup RecordFrom(n, horizon))
      BY <3>1, <3>2, FS_Union
    <3>5. QED
      BY <1>3, <3>3, <3>4
  <2>2. \A r, q \in storage'.body_q : r.frame_id = q.frame_id => r = q
    <3> HIDE DEF out, n
    <3>1. \A r, q \in RecordFrom(n, body) : r = q
      BY NewRecordsAreFew
    <3>2. \A r \in DropRecordsFor(storage.body_q, out) : r \in storage.body_q /\ r.frame_id # next_frame_id
      BY <1>5, <1>7, <1>8
    <3>3. QED
      BY <1>3, <1>6, <3>1, <3>2 DEF Queues
  <2>3. \A r, q \in storage'.horizon_q : r.frame_id = q.frame_id => r = q
    <3> HIDE DEF out, n
    <3>1. \A r, q \in RecordFrom(n, horizon) : r = q
      BY NewRecordsAreFew
    <3>2. \A r \in DropRecordsFor(storage.horizon_q, out) : r \in storage.horizon_q /\ r.frame_id # next_frame_id
      BY <1>5, <1>7, <1>8
    <3>3. QED
      BY <1>3, <1>6, <3>1, <3>2 DEF Queues
  <2>4. storage'.body_q \in SUBSET BodyRecord /\ storage'.horizon_q \in SUBSET HorizonRecord
    BY <1>4 DEF TypeOK
  <2>5. QED
    BY <2>1, <2>2, <2>3, <2>4 DEF Queues
<1>10. \A r \in storage'.body_q :
         r \in storage.body_q \/ (r.frame_id = next_frame_id /\ r.frame_tt = tt)
  BY <1>3, <1>6, <1>7
<1>11. ASSUME NEW r \in storage.body_q, r \notin storage'.body_q,
              NEW q \in storage'.body_q
       PROVE  r.frame_id < q.frame_id
  <2>1. r.frame_id \in out
    BY <1>3, <1>11 DEF DropRecordsFor
  <2>2. PICK f \in storage.ring : IsOldest(storage.ring, f) /\ f.frame_id = r.frame_id
    BY <2>1 DEF ForcedOut
  <2>3. r.frame_id < next_frame_id /\ r.frame_id \in Nat
    BY <1>5, <1>7
  <2>4. CASE q \in DropRecordsFor(storage.body_q, out)
    <3>1. q \in storage.body_q /\ q.frame_id # r.frame_id
      BY <2>1, <2>4 DEF DropRecordsFor
    <3>2. PICK g \in storage.ring : g.frame_id = q.frame_id
      BY <1>7, <3>1 DEF IInv, RecordsReferenceLiveFrames
    <3>3. r.frame_id <= q.frame_id
      BY <2>2, <3>2 DEF IsOldest
    <3>4. q.frame_id \in Nat
      BY <1>5, <1>7, <3>1
    <3>5. QED
      BY <2>3, <3>1, <3>3, <3>4
  <2>5. CASE q \in RecordFrom(n, body)
    BY <1>6, <2>3, <2>5
  <2>6. QED
    BY <1>3, <2>4, <2>5
<1>12. QED
  BY <1>1, <1>5, <1>7, <1>9, <1>10, <1>11

-----------------------------------------------------------------------------
(* A run of Stage E over the storage s.                                    *)

LEMMA RunIs ==
  ASSUME NEW s, Queues(s), sight_window \in Seq(Sight), session \in Nat,
         Named(sight_window, session), OnceEach(sight_window)
  PROVE  LET run == StageERun(s)
         IN /\ run.window \in Seq(Sight) /\ run.inserted \in Seq(Sight)
            /\ \A i \in DOMAIN run.window :
                 \/ \E j \in DOMAIN sight_window : run.window[i] = sight_window[j]
                 \/ \E m \in DOMAIN run.inserted : run.window[i] = run.inserted[m]
            /\ \A m \in DOMAIN run.inserted :
                 \E r \in s.body_q : FromRecord(run.inserted[m], r, session)
            /\ Named(run.window, session) /\ OnceEach(run.window)
            /\ \A i \in DOMAIN sight_window :
                 \/ \E j \in DOMAIN run.window : run.window[j] = sight_window[i]
                 \/ Gap(run.now, sight_window[i].anchor_tt) > SightWindowSeconds
                 \/ \E m \in DOMAIN run.inserted :
                      run.inserted[m].sigma < sight_window[i].sigma
<1> DEFINE e == Emit(s, sight_window, session)
           now == Now(s, sight_window)
           w == IF now = NoTime THEN e.window ELSE EvictAged(e.window, now)
           run == StageERun(s)
<1>1. run.now = now /\ run.inserted = e.inserted /\ run.window = w
  BY DEF StageERun
<1>2. Fed(s, sight_window, session, e)
  BY EmitFeeds
<1>3. Named(e.window, session) /\ OnceEach(e.window)
  BY EmitOnce
<1>4. now = NoTime \/ now \in Int
  BY NowIs, StorageConstants
<1> HIDE DEF e, now, run
<1>5. e.window \in Seq(Sight) /\ e.inserted \in Seq(Sight)
  BY <1>2 DEF Fed, Held
<1>6. /\ w \in Seq(Sight)
      /\ \A i \in DOMAIN w : \E j \in DOMAIN e.window : w[i] = e.window[j]
      /\ \A j \in DOMAIN e.window :
           \/ \E i \in DOMAIN w : w[i] = e.window[j]
           \/ Gap(now, e.window[j].anchor_tt) > SightWindowSeconds
      /\ OnceEach(w)
  <2>1. CASE now = NoTime
    BY <1>3, <1>5, <2>1
  <2>2. CASE now # NoTime
    <3> DEFINE v == EvictAged(e.window, now)
    <3>1. w = v /\ now \in Int
      BY <1>4, <2>2
    <3>2. /\ v \in Seq(Sight)
          /\ \A i \in DOMAIN v : \E j \in DOMAIN e.window : v[i] = e.window[j]
          /\ \A j \in DOMAIN e.window :
               \/ \E i \in DOMAIN v : v[i] = e.window[j]
               \/ Gap(now, e.window[j].anchor_tt) > SightWindowSeconds
          /\ OnceEach(v)
      BY <1>3, <1>5, <3>1, EvictAgedKeepsYoung
    <3> HIDE DEF v
    <3>3. QED
      BY <3>1, <3>2
  <2>3. QED
    BY <2>1, <2>2
<1> HIDE DEF w
<1>7. \A i \in DOMAIN w :
        \/ \E j \in DOMAIN sight_window : w[i] = sight_window[j]
        \/ \E m \in DOMAIN e.inserted : w[i] = e.inserted[m]
  BY <1>2, <1>6 DEF Fed
<1>8. \A m \in DOMAIN e.inserted : \E r \in s.body_q : FromRecord(e.inserted[m], r, session)
  BY <1>2 DEF Fed
<1>9. Named(w, session)
  BY <1>3, <1>6 DEF Named
<1>10. \A i \in DOMAIN sight_window :
         \/ \E j \in DOMAIN w : w[j] = sight_window[i]
         \/ Gap(now, sight_window[i].anchor_tt) > SightWindowSeconds
         \/ \E m \in DOMAIN e.inserted : e.inserted[m].sigma < sight_window[i].sigma
  <2> SUFFICES ASSUME NEW i \in DOMAIN sight_window
               PROVE  \/ \E j \in DOMAIN w : w[j] = sight_window[i]
                      \/ Gap(now, sight_window[i].anchor_tt) > SightWindowSeconds
                      \/ \E m \in DOMAIN e.inserted : e.inserted[m].sigma < sight_window[i].sigma
    OBVIOUS
  <2>1. \/ e.window[i] = sight_window[i]
        \/ \E m \in DOMAIN e.inserted : e.inserted[m].sigma < sight_window[i].sigma
    BY <1>2 DEF Fed
  <2>2. i \in DOMAIN e.window
    BY <1>2 DEF Fed
  <2>3. QED
    BY <1>6, <2>1, <2>2
<1>11. QED
  BY <1>1, <1>5, <1>6, <1>7, <1>8, <1>9, <1>10 DEF run

\* The time of the run, and what it means for the window.
LEMMA RunTime ==
  ASSUME NEW s, Queues(s), sight_window \in Seq(Sight), session \in Nat
  PROVE  LET run == StageERun(s)
         IN /\ run.now = Now(s, sight_window) /\ run.now \in Times \cup {NoTime}
            /\ run.now # NoTime =>
                 \A i \in DOMAIN run.window :
                   Gap(run.now, run.window[i].anchor_tt) <= SightWindowSeconds
            /\ run.now = NoTime => run.inserted = <<>> /\ run.evicted = 0
            /\ Candidates(s) = <<>> => run.inserted = <<>>
            /\ Candidates(s) = <<>>
               /\ (\A i, j \in DOMAIN sight_window :
                     Gap(sight_window[i].anchor_tt, sight_window[j].anchor_tt)
                       <= SightWindowSeconds)
                 => run.evicted = 0
<1> DEFINE e == Emit(s, sight_window, session)
           now == Now(s, sight_window)
           w == IF now = NoTime THEN e.window ELSE EvictAged(e.window, now)
           run == StageERun(s)
<1>1. /\ run.now = now /\ run.inserted = e.inserted /\ run.window = w
      /\ run.evicted = Len(e.window) - Len(w)
  BY DEF StageERun
<1>2. e.window \in Seq(Sight)
  BY EmitFeeds DEF Fed, Held
<1>3. now \in Times \cup {NoTime}
  BY NowIs
<1>4. Candidates(s) = <<>> => e.inserted = <<>> /\ e.window = sight_window
  <2> SUFFICES ASSUME Candidates(s) = <<>>
               PROVE  e.inserted = <<>> /\ e.window = sight_window
    OBVIOUS
  <2>1. e = [window |-> sight_window, inserted |-> <<>>]
    BY NothingToEmit
  <2> HIDE DEF e
  <2>2. QED
    BY <2>1
<1>5. now = NoTime => Candidates(s) = <<>>
  BY NowIs
<1>6. Candidates(s) = <<>> /\ sight_window # <<>> => now = sight_window[1].anchor_tt
  BY NowIs
<1> HIDE DEF e, now, run
<1>7. now # NoTime =>
        \A i \in DOMAIN w : Gap(now, w[i].anchor_tt) <= SightWindowSeconds
  <2> SUFFICES ASSUME now # NoTime
               PROVE  \A i \in DOMAIN w : Gap(now, w[i].anchor_tt) <= SightWindowSeconds
    OBVIOUS
  <2> DEFINE v == EvictAged(e.window, now)
  <2>1. now \in Int
    BY <1>3, StorageConstants
  <2>2. \A i \in DOMAIN v : \E j \in DOMAIN e.window :
          v[i] = e.window[j] /\ Gap(now, e.window[j].anchor_tt) <= SightWindowSeconds
    BY <1>2, <2>1, EvictAgedKeepsYoung
  <2>3. w = v
    OBVIOUS
  <2> HIDE DEF v, w
  <2>4. QED
    BY <2>2, <2>3
<1>8. Len(e.window) - Len(e.window) = 0
  <2>1. Len(e.window) \in Nat
    BY <1>2, LenProperties
  <2>2. QED
    BY <2>1
<1>9. ASSUME Candidates(s) = <<>>,
             \A i, j \in DOMAIN sight_window :
               Gap(sight_window[i].anchor_tt, sight_window[j].anchor_tt) <= SightWindowSeconds
      PROVE  Len(e.window) - Len(w) = 0
  <2>1. CASE now = NoTime
    BY <1>8, <2>1
  <2>2. CASE now # NoTime
    <3> DEFINE v == EvictAged(e.window, now)
    <3>1. now \in Int /\ w = v
      BY <1>3, <2>2, StorageConstants
    <3>2. \A j \in DOMAIN e.window : Gap(now, e.window[j].anchor_tt) <= SightWindowSeconds
      <4> SUFFICES ASSUME NEW j \in DOMAIN sight_window
                   PROVE  Gap(now, sight_window[j].anchor_tt) <= SightWindowSeconds
        BY <1>4, <1>9
      <4>1. sight_window # <<>> /\ 1 \in DOMAIN sight_window
        <5>1. DOMAIN sight_window = 1 .. Len(sight_window) /\ Len(sight_window) \in Nat
          BY LenProperties
        <5>2. DOMAIN sight_window # {}
          OBVIOUS
        <5>3. 1 \in DOMAIN sight_window
          BY <5>1, <5>2
        <5>4. sight_window # <<>>
          BY <5>3
        <5>5. QED
          BY <5>3, <5>4
      <4>2. now = sight_window[1].anchor_tt
        BY <1>6, <1>9, <4>1
      <4>3. QED
        BY <1>9, <4>1, <4>2
    <3>3. Len(v) = Len(e.window)
      BY <1>2, <3>1, <3>2, EvictAgedKeepsYoung
    <3> HIDE DEF v, w
    <3>4. QED
      BY <1>8, <3>1, <3>3
  <2>3. QED
    BY <2>1, <2>2
<1>10. now = NoTime => w = e.window
  OBVIOUS
<1> HIDE DEF w
<1>11. now = NoTime => e.inserted = <<>> /\ Len(e.window) - Len(w) = 0
  BY <1>4, <1>5, <1>8, <1>10
<1>12. QED
  BY <1>1, <1>3, <1>4, <1>7, <1>9, <1>11 DEF run, now

-----------------------------------------------------------------------------
(* The inductive invariant, in parts.                                      *)

Shapes ==
  /\ sight_window \in Seq(Sight)
  /\ sight_log \in Seq(Sight)
  /\ fix_stream \in Seq(Fix)
  /\ session \in Nat
  /\ clock \in Times \cup {NoTime}

\* The storage is sound, and every sight says where it comes from: one of
\* this session names its frame, the others are of an earlier one.
BaseInv ==
  /\ IInv
  /\ Queues(storage)
  /\ Shapes
  /\ Named(sight_window, session)
  /\ OnceEach(sight_window)
  /\ \A n \in DOMAIN sight_log : sight_log[n].obs[1] <= session

\* What an append adds to the log.
LEMMA AppendAllAdds ==
  ASSUME NEW log \in Seq(Sight), NEW items \in Seq(Sight),
         NEW ids \in Landed(items)
  PROVE  LET new == log \o Picked(items, ids)
         IN /\ new \in Seq(Sight)
            /\ \A n \in DOMAIN new : \/ \E k \in DOMAIN log : new[n] = log[k]
                                     \/ \E k \in DOMAIN items : new[n] = items[k]
            /\ \A k \in DOMAIN log : \E n \in DOMAIN new : new[n] = log[k]
            /\ ~ AppendsMayFail =>
                 \A k \in DOMAIN items : \E n \in DOMAIN new : new[n] = items[k]
<1> DEFINE new == log \o Picked(items, ids)
<1> HIDE DEF new
<1>1. ASSUME NEW more \in Seq(Sight), new = log \o more
      PROVE  /\ new \in Seq(Sight)
             /\ \A n \in DOMAIN new : \/ \E k \in DOMAIN log : new[n] = log[k]
                                      \/ \E k \in DOMAIN more : new[n] = more[k]
             /\ \A k \in DOMAIN log : \E n \in DOMAIN new : new[n] = log[k]
             /\ \A k \in DOMAIN more : \E n \in DOMAIN new : new[n] = more[k]
  <2>1. /\ Len(log) \in Nat /\ DOMAIN log = 1 .. Len(log)
        /\ Len(more) \in Nat /\ DOMAIN more = 1 .. Len(more)
    BY LenProperties
  <2>2. /\ new \in Seq(Sight) /\ Len(new) = Len(log) + Len(more)
        /\ DOMAIN new = 1 .. Len(log) + Len(more)
        /\ \A n \in 1 .. Len(log) + Len(more) :
             new[n] = IF n <= Len(log) THEN log[n] ELSE more[n - Len(log)]
    BY <1>1, <2>1, ConcatProperties, LenProperties
  <2>3. \A n \in DOMAIN new : \/ \E k \in DOMAIN log : new[n] = log[k]
                              \/ \E k \in DOMAIN more : new[n] = more[k]
    <3> SUFFICES ASSUME NEW n \in 1 .. Len(log) + Len(more)
                 PROVE  \/ \E k \in DOMAIN log : new[n] = log[k]
                        \/ \E k \in DOMAIN more : new[n] = more[k]
      BY <2>2
    <3>1. CASE n <= Len(log)
      <4>1. n \in DOMAIN log /\ new[n] = log[n]
        BY <2>1, <2>2, <3>1
      <4>2. QED
        BY <4>1
    <3>2. CASE ~ (n <= Len(log))
      <4>1. n - Len(log) \in DOMAIN more /\ new[n] = more[n - Len(log)]
        BY <2>1, <2>2, <3>2
      <4>2. QED
        BY <4>1
    <3>3. QED
      BY <3>1, <3>2
  <2>4. \A k \in DOMAIN log : k \in DOMAIN new /\ new[k] = log[k]
    BY <2>1, <2>2
  <2>5. \A k \in DOMAIN more : k + Len(log) \in DOMAIN new /\ new[k + Len(log)] = more[k]
    <3> SUFFICES ASSUME NEW k \in 1 .. Len(more)
                 PROVE  k + Len(log) \in DOMAIN new /\ new[k + Len(log)] = more[k]
      BY <2>1
    <3>1. /\ k + Len(log) \in 1 .. Len(log) + Len(more) /\ ~ (k + Len(log) <= Len(log))
          /\ (k + Len(log)) - Len(log) = k
      BY <2>1
    <3>2. QED
      BY <2>2, <3>1
  <2>6. QED
    BY <2>2, <2>3, <2>4, <2>5
<1>3. ids \in SUBSET DOMAIN items /\ (~ AppendsMayFail => ids = DOMAIN items)
  BY DEF Landed
<1> DEFINE more == Picked(items, ids)
<1>4. more \in Seq(Sight)
  BY <1>3, PickedKeepsOrder
<1>5. /\ \A n \in DOMAIN more : \E k \in ids : more[n] = items[k]
      /\ \A k \in ids : \E n \in DOMAIN more : more[n] = items[k]
  <2> HIDE DEF Landed
  <2>1. items \in Seq(Sight) /\ ids \in SUBSET DOMAIN items
    BY <1>3
  <2>2. QED
    BY <2>1, PickedElements
<1>6. new = log \o more
  BY DEF new
<1> HIDE DEF more
<1>7. /\ new \in Seq(Sight)
      /\ \A n \in DOMAIN new : \/ \E k \in DOMAIN log : new[n] = log[k]
                               \/ \E k \in DOMAIN more : new[n] = more[k]
      /\ \A k \in DOMAIN log : \E n \in DOMAIN new : new[n] = log[k]
      /\ \A k \in DOMAIN more : \E n \in DOMAIN new : new[n] = more[k]
  BY <1>1, <1>4, <1>6
<1>8. \A n \in DOMAIN new : \/ \E k \in DOMAIN log : new[n] = log[k]
                           \/ \E k \in DOMAIN items : new[n] = items[k]
  BY <1>3, <1>5, <1>7
<1>9. \A k \in ids : \E n \in DOMAIN new : new[n] = items[k]
  <2> SUFFICES ASSUME NEW k \in ids PROVE \E n \in DOMAIN new : new[n] = items[k]
    OBVIOUS
  <2>1. PICK m \in DOMAIN more : more[m] = items[k]
    BY <1>5
  <2>2. PICK n \in DOMAIN new : new[n] = more[m]
    BY <1>7
  <2>3. QED
    BY <2>1, <2>2
<1>10. QED
  BY <1>3, <1>7, <1>8, <1>9 DEF new

\* A push: what happens to the window, the log and the stream.
LEMMA PushEffects ==
  ASSUME BaseInv,
         NEW tt \in Times,
         NEW body \in BodyDetections \cup {NoDetection},
         NEW horizon \in HorizonDetections \cup {NoDetection},
         EPushFrame(tt, body, horizon)
  PROVE  LET run == StageERun(storage')
         IN /\ BaseInv'
            /\ session' = session
            /\ sight_window' = run.window
            /\ \E ids \in Landed(run.inserted) :
              sight_log' = sight_log \o Picked(run.inserted, ids)
            /\ \/ fix_stream' = fix_stream
               \/ /\ run.inserted # <<>> \/ run.evicted > 0
                  /\ run.now \in Times
                  /\ \E fix \in Publishable(run.window, run.now, has_prior) :
                       fix_stream' = Append(fix_stream, fix)
<1> DEFINE run == StageERun(storage')
<1>1. /\ session' = session /\ PushFrame(tt, body, horizon)
      /\ clock' = IF clock = NoTime \/ clock < tt THEN tt ELSE clock
      /\ AfterStorage(storage')
  BY DEF EPushFrame
<1>2. IInv' /\ Queues(storage')
  BY <1>1, PushKeepsIInv, PushedQueues DEF BaseInv
<1>3. /\ sight_window \in Seq(Sight) /\ session \in Nat
      /\ sight_log \in Seq(Sight) /\ fix_stream \in Seq(Fix)
      /\ Named(sight_window, session) /\ OnceEach(sight_window)
  BY DEF BaseInv, Shapes
<1>4. /\ run.window \in Seq(Sight) /\ run.inserted \in Seq(Sight)
      /\ \A m \in DOMAIN run.inserted :
           \E r \in storage'.body_q : FromRecord(run.inserted[m], r, session)
      /\ Named(run.window, session) /\ OnceEach(run.window)
  BY <1>2, <1>3, RunIs
<1>5. run.now \in Times \cup {NoTime} /\ (run.now = NoTime => run.inserted = <<>> /\ run.evicted = 0)
  BY <1>2, <1>3, RunTime
<1>6. /\ sight_window' = run.window
      /\ \E ids \in Landed(run.inserted) :
              sight_log' = sight_log \o Picked(run.inserted, ids)
      /\ \/ fix_stream' = fix_stream
         \/ /\ run.inserted # <<>> \/ run.evicted > 0
            /\ \E fix \in Publishable(run.window, run.now, has_prior) :
                 fix_stream' = Append(fix_stream, fix)
  BY <1>1 DEF AfterStorage, AppendAll, Withhold, Publish
<1> HIDE DEF run
<1>7. /\ sight_log' \in Seq(Sight)
      /\ \A n \in DOMAIN sight_log' :
           \/ \E k \in DOMAIN sight_log : sight_log'[n] = sight_log[k]
           \/ \E k \in DOMAIN run.inserted : sight_log'[n] = run.inserted[k]
  <2>1. PICK ids \in Landed(run.inserted) :
          sight_log' = sight_log \o Picked(run.inserted, ids)
    BY <1>6
  <2>2. QED
    BY <1>3, <1>4, <2>1, AppendAllAdds
<1>8. run.inserted # <<>> \/ run.evicted > 0 => run.now \in Times
  BY <1>5
<1>9. fix_stream' \in Seq(Fix)
  <2>1. CASE fix_stream' = fix_stream
    BY <1>3, <2>1
  <2>2. CASE fix_stream' # fix_stream
    <3>1. run.now \in Times
      BY <1>6, <1>8, <2>2
    <3>2. PICK fix \in Publishable(run.window, run.now, has_prior) :
            fix_stream' = Append(fix_stream, fix)
      BY <1>6, <2>2
    <3>3. fix \in Fix
      BY <1>4, <3>1, PublishableIs
    <3>4. QED
      BY <1>3, <3>2, <3>3
  <2>3. QED
    BY <2>1, <2>2
<1>10. clock' \in Times \cup {NoTime}
  BY <1>1 DEF BaseInv, Shapes
<1>11. \A n \in DOMAIN sight_log' : sight_log'[n].obs[1] <= session
  <2>1. \A k \in DOMAIN run.inserted : run.inserted[k].obs[1] <= session
    <3>1. \A k \in DOMAIN run.inserted : run.inserted[k].obs[1] = session
      BY <1>4 DEF FromRecord
    <3>2. QED
      BY <1>3, <3>1
  <2>2. QED
    BY <1>7, <2>1 DEF BaseInv
<1>12. BaseInv'
  <2>1. Shapes'
    BY <1>1, <1>3, <1>4, <1>6, <1>7, <1>9, <1>10 DEF Shapes
  <2>2. Named(sight_window', session') /\ OnceEach(sight_window')
    BY <1>1, <1>4, <1>6
  <2>3. QED
    BY <1>1, <1>2, <1>11, <2>1, <2>2 DEF BaseInv
<1>13. QED
  BY <1>1, <1>6, <1>8, <1>12 DEF run

-----------------------------------------------------------------------------
(* What a restart finds.                                                   *)

\* A sight as the log gives it back.
FromDisk(x) == [x EXCEPT !.source_frame_id = NoFrame, !.horizon_frame_id = NoFrame]

LEMMA FromDiskIs ==
  ASSUME NEW x \in Sight
  PROVE  /\ FromDisk(x) \in Sight
         /\ FromDisk(x).source_frame_id = NoFrame
         /\ FromDisk(x).obs = x.obs /\ FromDisk(x).azimuth = x.azimuth
         /\ FromDisk(x).anchor_tt = x.anchor_tt /\ FromDisk(x).sigma = x.sigma
  BY DEF FromDisk, Sight

\* The pool is the sights of current.log that are young enough.
LEMMA HydratePoolIs ==
  ASSUME sight_log \in Seq(Sight), NEW now \in Times
  PROVE  LET pool == HydratePool(now)
         IN /\ pool \in Seq(Sight)
            /\ \A k \in DOMAIN pool : \E n \in DOMAIN sight_log :
                 /\ Gap(now, sight_log[n].anchor_tt) <= SightWindowSeconds
                 /\ pool[k] = FromDisk(sight_log[n])
            /\ \A n \in CurrentLog :
                 Gap(now, sight_log[n].anchor_tt) <= SightWindowSeconds
                   => \E k \in DOMAIN pool : pool[k] = FromDisk(sight_log[n])
<1> DEFINE young == {k \in CurrentLog :
                       Gap(now, sight_log[k].anchor_tt) <= SightWindowSeconds}
           before == [i \in young |-> {j \in young :
                        \/ sight_log[j].anchor_tt < sight_log[i].anchor_tt
                        \/ sight_log[j].anchor_tt = sight_log[i].anchor_tt /\ j < i}]
           order == Listed(before)
           size == Cardinality(young)
           pool == HydratePool(now)
<1>1. /\ Len(sight_log) \in Nat /\ DOMAIN sight_log = 1 .. Len(sight_log)
      /\ \A n \in DOMAIN sight_log : sight_log[n] \in Sight
  BY LenProperties, ElementOfSeq
<1>2. \A n \in DOMAIN sight_log : sight_log[n].anchor_tt \in Int /\ n \in Int
  <2>1. \A x \in Sight : x.anchor_tt \in Int
    BY StorageConstants DEF Sight
  <2>2. QED
    BY <1>1, <2>1
<1>3. IsFiniteSet(young) /\ young \in SUBSET DOMAIN sight_log
  <2>1. IsFiniteSet(1 .. Len(sight_log)) /\ young \in SUBSET (1 .. Len(sight_log))
    BY <1>1, FS_Interval DEF CurrentLog
  <2>2. QED
    BY <1>1, <2>1, FS_Subset
<1>4. \A n \in CurrentLog :
        n \in young <=> Gap(now, sight_log[n].anchor_tt) <= SightWindowSeconds
  OBVIOUS
<1>0. \A n \in young :
        n \in DOMAIN sight_log /\ Gap(now, sight_log[n].anchor_tt) <= SightWindowSeconds
  BY DEF CurrentLog
<1> HIDE DEF young
<1>5. Orders(before, young)
  <2>1. before \in [young -> SUBSET young]
    OBVIOUS
  <2>2. \A i \in young : i \notin before[i]
    BY <1>2, <1>3
  <2>3. \A i, j \in young : i # j => i \in before[j] \/ j \in before[i]
    BY <1>2, <1>3
  <2>4. \A i, j, k \in young : i \in before[j] /\ j \in before[k] => i \in before[k]
    BY <1>2, <1>3
  <2> HIDE DEF before
  <2>5. QED
    BY <2>1, <2>2, <2>3, <2>4 DEF Orders
<1>6. /\ size \in Nat
      /\ order \in [1 .. size -> young]
      /\ \A i \in young : \E n \in 1 .. size : order[n] = i
  <2> HIDE DEF before
  <2> QED BY <1>3, <1>5, ListedIsInOrder
<1>7. pool = [k \in DOMAIN order |-> FromDisk(sight_log[order[k]])]
  BY DEF HydratePool, FromDisk, young
<1> HIDE DEF order, size, pool
<1>8. pool = [k \in 1 .. size |-> FromDisk(sight_log[order[k]])]
  BY <1>6, <1>7
<1>9. \A k \in 1 .. size : order[k] \in young /\ FromDisk(sight_log[order[k]]) \in Sight
  BY <1>1, <1>3, <1>6, FromDiskIs
<1>10. pool \in Seq(Sight) /\ DOMAIN pool = 1 .. size
  BY <1>6, <1>8, <1>9
<1>11. \A k \in 1 .. size : pool[k] = FromDisk(sight_log[order[k]])
  BY <1>8
<1>12. \A k \in DOMAIN pool : \E n \in DOMAIN sight_log :
         /\ Gap(now, sight_log[n].anchor_tt) <= SightWindowSeconds
         /\ pool[k] = FromDisk(sight_log[n])
  BY <1>0, <1>9, <1>10, <1>11
<1>13. ASSUME NEW n \in CurrentLog,
              Gap(now, sight_log[n].anchor_tt) <= SightWindowSeconds
       PROVE  \E k \in DOMAIN pool : pool[k] = FromDisk(sight_log[n])
  <2>1. PICK k \in 1 .. size : order[k] = n
    BY <1>4, <1>6, <1>13
  <2>2. QED
    BY <1>10, <1>11, <2>1
<1>14. QED
  BY <1>10, <1>12, <1>13 DEF pool

\* hydrate takes the sights of the pool, and leaves none for a worse one.
LEMMA HydratedIs ==
  ASSUME NEW read \in Seq(Sight)
  PROVE  LET v == Hydrated(read)
         IN /\ v \in Seq(Sight)
            /\ \A k \in DOMAIN v : \E n \in DOMAIN read : v[k] = read[n]
            /\ \A n \in DOMAIN read :
                 \/ \E k \in DOMAIN v : v[k] = read[n]
                 \/ /\ Len(v) = SightWindowCapacity
                    /\ \A k \in DOMAIN v : v[k].sigma <= read[n].sigma
<1> DEFINE before == [i \in DOMAIN read |-> {j \in DOMAIN read :
                        \/ read[j].sigma < read[i].sigma
                        \/ read[j].sigma = read[i].sigma /\ j < i}]
           order == Listed(before)
           taken == IF Len(read) < SightWindowCapacity
                      THEN Len(read) ELSE SightWindowCapacity
           v == Hydrated(read)
<1>1. /\ Len(read) \in Nat /\ DOMAIN read = 1 .. Len(read)
      /\ \A n \in DOMAIN read : read[n] \in Sight
  BY LenProperties, ElementOfSeq
<1>2. \A n \in DOMAIN read : read[n].sigma \in Int /\ n \in Int
  BY <1>1 DEF Sight
<1>3. IsFiniteSet(DOMAIN read) /\ Cardinality(DOMAIN read) = Len(read)
  <2>1. \A n \in Nat : IsFiniteSet(1 .. n) /\ Cardinality(1 .. n) = n
    BY FS_Interval
  <2>2. QED
    BY <1>1, <2>1
<1>4. \A i, j \in DOMAIN read :
        j \in before[i] <=> \/ read[j].sigma < read[i].sigma
                            \/ read[j].sigma = read[i].sigma /\ j < i
  OBVIOUS
<1>5. Orders(before, DOMAIN read)
  <2>1. before \in [DOMAIN read -> SUBSET DOMAIN read]
    OBVIOUS
  <2> HIDE DEF before
  <2>2. \A i \in DOMAIN read : i \notin before[i]
    BY <1>2, <1>4
  <2>3. \A i, j \in DOMAIN read : i # j => i \in before[j] \/ j \in before[i]
    BY <1>2, <1>4
  <2>4. \A i, j, k \in DOMAIN read : i \in before[j] /\ j \in before[k] => i \in before[k]
    BY <1>2, <1>4
  <2>5. QED
    BY <2>1, <2>2, <2>3, <2>4 DEF Orders
<1> HIDE DEF before
<1>6. /\ order \in [1 .. Len(read) -> DOMAIN read]
      /\ \A i \in DOMAIN read : \E n \in 1 .. Len(read) : order[n] = i
      /\ \A m, n \in 1 .. Len(read) : m < n => order[m] \in before[order[n]]
  BY <1>3, <1>5, ListedIsInOrder
<1>7. v = [k \in 1 .. taken |-> read[order[k]]]
  BY DEF Hydrated, before
<1>8. /\ taken \in Nat /\ taken <= Len(read)
      /\ taken < Len(read) => taken = SightWindowCapacity
  <2>1. SightWindowCapacity \in Nat /\ Len(read) \in Nat
    BY <1>1, StageEConstants
  <2>2. CASE Len(read) < SightWindowCapacity
    <3>1. taken = Len(read)
      BY <2>2
    <3> HIDE DEF taken
    <3>2. QED
      BY <2>1, <3>1
  <2>3. CASE ~ (Len(read) < SightWindowCapacity)
    <3>1. taken = SightWindowCapacity
      BY <2>3
    <3> HIDE DEF taken
    <3>2. QED
      BY <2>1, <2>3, <3>1
  <2>4. QED
    BY <2>2, <2>3
<1> HIDE DEF order, taken, v
<1>9. \A k \in 1 .. taken : k \in 1 .. Len(read) /\ order[k] \in DOMAIN read
  BY <1>1, <1>6, <1>8
<1>10. \A k \in 1 .. taken : read[order[k]] \in Sight
  BY <1>1, <1>9
<1>11. v \in Seq(Sight) /\ DOMAIN v = 1 .. taken /\ Len(v) = taken
  BY <1>7, <1>8, <1>10
<1>12. \A k \in 1 .. taken : v[k] = read[order[k]]
  BY <1>7
<1>13. ASSUME NEW n \in DOMAIN read, ~ \E k \in DOMAIN v : v[k] = read[n]
       PROVE  /\ Len(v) = SightWindowCapacity
              /\ \A k \in DOMAIN v : v[k].sigma <= read[n].sigma
  <2>1. PICK m \in 1 .. Len(read) : order[m] = n
    BY <1>6
  <2>2. m \notin 1 .. taken
    BY <1>11, <1>12, <1>13, <2>1
  <2>3. taken < m /\ taken < Len(read)
    BY <1>1, <1>8, <2>2
  <2>4. ASSUME NEW k \in 1 .. taken
        PROVE  v[k].sigma <= read[n].sigma
    <3>1. k < m /\ k \in 1 .. Len(read)
      BY <1>8, <1>9, <2>3
    <3>2. order[k] \in before[n] /\ order[k] \in DOMAIN read
      BY <1>6, <1>9, <2>1, <3>1
    <3>3. read[order[k]].sigma <= read[n].sigma
      BY <1>2, <1>4, <3>2
    <3>4. QED
      BY <1>12, <3>3
  <2>5. QED
    BY <1>8, <1>11, <2>3, <2>4
<1>14. \A k \in DOMAIN v : \E n \in DOMAIN read : v[k] = read[n]
  BY <1>9, <1>11, <1>12
<1>15. QED
  BY <1>11, <1>13, <1>14 DEF v

LEMMA RestartEffects ==
  ASSUME BaseInv, NEW now \in Times, Restart(now)
  PROVE  /\ BaseInv'
         /\ session' = session + 1
         /\ storage'.body_q = {} /\ fix_stream' = <<>> /\ sight_log' = sight_log
         /\ \A i \in DOMAIN sight_window' : \E n \in DOMAIN sight_log :
              /\ Gap(now, sight_log[n].anchor_tt) <= SightWindowSeconds
              /\ sight_window'[i] = FromDisk(sight_log[n])
<1> DEFINE pool == HydratePool(now)
           v == Hydrated(pool)
<1>1. /\ session' = session + 1 /\ storage' = EmptyStorage /\ next_frame_id' = 0
      /\ sight_window' = v /\ fix_stream' = <<>> /\ sight_log' = sight_log
      /\ clock' = IF clock = NoTime \/ clock < now THEN now ELSE clock
  BY DEF Restart, disk
<1>2. /\ sight_log \in Seq(Sight) /\ session \in Nat /\ clock \in Times \cup {NoTime}
      /\ \A n \in DOMAIN sight_log : sight_log[n] \in Sight /\ sight_log[n].obs[1] <= session
  <2>1. sight_log \in Seq(Sight) /\ session \in Nat /\ clock \in Times \cup {NoTime}
    BY DEF BaseInv, Shapes
  <2>2. \A n \in DOMAIN sight_log : sight_log[n] \in Sight
    BY <2>1, ElementOfSeq, LenProperties
  <2>3. QED
    BY <2>1, <2>2 DEF BaseInv
<1>3. /\ pool \in Seq(Sight)
      /\ \A k \in DOMAIN pool : \E n \in DOMAIN sight_log :
           /\ Gap(now, sight_log[n].anchor_tt) <= SightWindowSeconds
           /\ pool[k] = FromDisk(sight_log[n])
  BY <1>2, HydratePoolIs
<1> HIDE DEF pool
<1>4. v \in Seq(Sight) /\ \A k \in DOMAIN v : \E n \in DOMAIN pool : v[k] = pool[n]
  BY <1>3, HydratedIs
<1> HIDE DEF v
<1>5. \A i \in DOMAIN v : \E n \in DOMAIN sight_log :
        /\ Gap(now, sight_log[n].anchor_tt) <= SightWindowSeconds
        /\ v[i] = FromDisk(sight_log[n])
  BY <1>3, <1>4
<1>6. \A i \in DOMAIN v : v[i].source_frame_id = NoFrame /\ v[i].obs[1] < session + 1
  <2> SUFFICES ASSUME NEW i \in DOMAIN v
               PROVE  v[i].source_frame_id = NoFrame /\ v[i].obs[1] < session + 1
    OBVIOUS
  <2>1. PICK n \in DOMAIN sight_log : v[i] = FromDisk(sight_log[n])
    BY <1>5
  <2>2. v[i].source_frame_id = NoFrame /\ v[i].obs = sight_log[n].obs
    BY <1>2, <2>1, FromDiskIs
  <2>3. sight_log[n].obs[1] \in Nat /\ sight_log[n].obs[1] <= session
    BY <1>2 DEF Sight
  <2>4. QED
    BY <1>2, <2>2, <2>3
<1>7. IInv'
  <2>1. TypeOK' /\ IdsBelowNext' /\ RecordsReferenceLiveFrames'
    BY <1>1 DEF EmptyStorage, TypeOK, IdsBelowNext, RecordsReferenceLiveFrames, Records
  <2>2. RingWithinCapacity'
    BY <1>1, FS_EmptySet, StorageConstants DEF EmptyStorage, RingWithinCapacity, Capacity
  <2>3. QED
    BY <2>1, <2>2 DEF IInv
<1>8. Queues(storage')
  BY <1>1, FS_EmptySet DEF EmptyStorage, Queues
<1>9. Shapes'
  <2>1. clock' \in Times \cup {NoTime}
    BY <1>1, <1>2
  <2>2. QED
    BY <1>1, <1>2, <1>4, <2>1 DEF Shapes
<1>10. Named(sight_window', session') /\ OnceEach(sight_window')
  BY <1>1, <1>6 DEF Named, OnceEach
<1>11. \A n \in DOMAIN sight_log' : sight_log'[n].obs[1] <= session'
  <2>1. \A n \in DOMAIN sight_log : sight_log[n].obs[1] \in Nat /\ sight_log[n].obs[1] <= session
    BY <1>2 DEF Sight
  <2>2. QED
    BY <1>1, <1>2, <2>1
<1>12. QED
  BY <1>1, <1>5, <1>7, <1>8, <1>9, <1>10, <1>11 DEF BaseInv, EmptyStorage

\* The steps that touch nothing but the throttle.
Still == UNCHANGED <<storage, next_frame_id, sight_window, fix_stream, sight_log,
                     session, clock>>

LEMMA StepCases ==
  ASSUME [ENext]_evars
  PROVE  \/ \E tt \in Times,
               body \in BodyDetections \cup {NoDetection},
               horizon \in HorizonDetections \cup {NoDetection} :
              EPushFrame(tt, body, horizon)
         \/ \E now \in Times : Restart(now)
         \/ Still
<1>1. IntervalElapses => Still
  BY DEF IntervalElapses, Still, disk
<1>2. UNCHANGED evars => Still
  BY DEF evars, engine, disk, Still
<1>3. QED
  BY <1>1, <1>2 DEF ENext

LEMMA InitBase == EInit => BaseInv
<1> SUFFICES ASSUME EInit PROVE BaseInv
  OBVIOUS
<1>1. Init /\ IInv
  BY InitIInv DEF EInit
<1>2. Queues(storage)
  BY <1>1, FS_EmptySet DEF Init, EmptyStorage, Queues
<1>3. Shapes
  BY DEF EInit, Shapes
<1>4. DOMAIN sight_window = {} /\ DOMAIN sight_log = {}
  BY DEF EInit
<1>5. QED
  BY <1>1, <1>2, <1>3, <1>4 DEF BaseInv, Named, OnceEach

LEMMA StepKeepsBase == BaseInv /\ [ENext]_evars => BaseInv'
<1> SUFFICES ASSUME BaseInv, [ENext]_evars PROVE BaseInv'
  OBVIOUS
<1>1. CASE \E tt \in Times,
              body \in BodyDetections \cup {NoDetection},
              horizon \in HorizonDetections \cup {NoDetection} :
             EPushFrame(tt, body, horizon)
  BY <1>1, PushEffects
<1>2. CASE \E now \in Times : Restart(now)
  BY <1>2, RestartEffects
<1>3. CASE Still
  BY <1>3 DEF Still, BaseInv, IInv, TypeOK, IdsBelowNext, RecordsReferenceLiveFrames,
     RingWithinCapacity, Records, Queues, Shapes, Named, OnceEach
<1>4. QED
  BY <1>1, <1>2, <1>3, StepCases

LEMMA AlwaysBase == ESpec => []BaseInv
  BY InitBase, StepKeepsBase, PTL DEF ESpec

-----------------------------------------------------------------------------
(* The window counts nothing twice.                                        *)

\* Whatever is displaced, emitted again or read from disk, no observation of
\* the session stands in the window twice.
THEOREM ObservationsCountOnce == ESpec => []NoDoubleCount
<1>1. BaseInv => NoDoubleCount
  BY DEF BaseInv, OnceEach, NoDoubleCount
<1>2. QED
  BY <1>1, AlwaysBase, PTL

\* A sight that is gone from the window was too old or made way for a better
\* one of the same push.
THEOREM SightsLeaveByAgeOrRank == ESpec => LeavesByAgeOrRank
<1> DEFINE Leaves == session' = session =>
              \A i \in DOMAIN sight_window :
                \/ \E j \in DOMAIN sight_window' : sight_window'[j] = sight_window[i]
                \/ Gap(Now(storage', sight_window), sight_window[i].anchor_tt)
                     > SightWindowSeconds
                \/ LET inserted == StageERun(storage').inserted
                   IN \E n \in DOMAIN inserted :
                        inserted[n].sigma < sight_window[i].sigma
<1>1. BaseInv /\ [ENext]_evars => Leaves
  <2> SUFFICES ASSUME BaseInv, [ENext]_evars PROVE Leaves
    OBVIOUS
  <2>1. ASSUME NEW tt \in Times,
               NEW body \in BodyDetections \cup {NoDetection},
               NEW horizon \in HorizonDetections \cup {NoDetection},
               EPushFrame(tt, body, horizon)
        PROVE  Leaves
    <3> DEFINE run == StageERun(storage')
    <3>1. sight_window' = run.window /\ BaseInv'
      BY <2>1, PushEffects
    <3>2. run.now = Now(storage', sight_window)
      BY DEF StageERun
    <3>3. /\ Queues(storage') /\ sight_window \in Seq(Sight) /\ session \in Nat
          /\ Named(sight_window, session) /\ OnceEach(sight_window)
      BY <3>1 DEF BaseInv, Shapes
    <3>4. \A i \in DOMAIN sight_window :
            \/ \E j \in DOMAIN run.window : run.window[j] = sight_window[i]
            \/ Gap(run.now, sight_window[i].anchor_tt) > SightWindowSeconds
            \/ \E m \in DOMAIN run.inserted :
                 run.inserted[m].sigma < sight_window[i].sigma
      BY <3>3, RunIs
    <3> HIDE DEF run
    <3>5. QED
      BY <3>1, <3>2, <3>4 DEF run
  <2>2. ASSUME NEW now \in Times, Restart(now)
        PROVE  Leaves
    <3>1. session' # session
      BY <2>2, RestartEffects DEF BaseInv, Shapes
    <3>2. QED
      BY <3>1
  <2>3. CASE Still
    BY <2>3 DEF Still
  <2>4. QED
    BY <2>1, <2>2, <2>3, StepCases
<1>2. QED
  BY <1>1, AlwaysBase, PTL DEF ESpec, LeavesByAgeOrRank

-----------------------------------------------------------------------------
(* Time.                                                                   *)

\* Time t is not after the clock c.
Before(t, c) == c # NoTime /\ t <= c

\* Nothing is younger than the latest capture.
Past ==
  /\ \A i \in DOMAIN sight_window : Before(sight_window[i].anchor_tt, clock)
  /\ \A n \in DOMAIN sight_log : Before(sight_log[n].anchor_tt, clock)
  /\ \A k \in DOMAIN fix_stream : Before(fix_stream[k].timestamp, clock)
  /\ \A r \in storage.body_q : Before(r.frame_tt, clock)

\* The queue q, if it is not empty, holds a record as young as t.
Covered(t, q) == q = {} \/ \E r \in q : t <= r.frame_tt

\* Records come in the order of capture; the queue is as young as everything
\* the next run will look at; and the window spans no more than its age limit,
\* so that a run without candidates changes nothing.
InOrderInv ==
  /\ \A r, q \in storage.body_q : r.frame_id < q.frame_id => r.frame_tt <= q.frame_tt
  /\ \A i \in DOMAIN sight_window : Covered(sight_window[i].anchor_tt, storage.body_q)
  /\ \A k \in DOMAIN fix_stream : Covered(fix_stream[k].timestamp, storage.body_q)
  /\ \A i, j \in DOMAIN sight_window :
       Gap(sight_window[i].anchor_tt, sight_window[j].anchor_tt) <= SightWindowSeconds

TimeInv ==
  /\ BaseInv
  /\ Past
  /\ CaptureInOrder => InOrderInv
  /\ PublishedFixIsFresh
  /\ FixesMoveForward

LEMMA AppendedLast ==
  ASSUME NEW T, NEW q \in Seq(T), NEW e \in T
  PROVE  /\ DOMAIN Append(q, e) = DOMAIN q \cup {Len(q) + 1}
         /\ DOMAIN q = 1 .. Len(q) /\ Len(q) \in Nat
         /\ Append(q, e)[Len(q) + 1] = e
         /\ \A k \in DOMAIN q : Append(q, e)[k] = q[k]
<1>1. Len(q) \in Nat /\ DOMAIN q = 1 .. Len(q)
  BY LenProperties
<1>2. Append(q, e) \in Seq(T) /\ Len(Append(q, e)) = Len(q) + 1
  OBVIOUS
<1>3. DOMAIN Append(q, e) = 1 .. Len(q) + 1
  BY <1>2, LenProperties
<1>4. /\ Append(q, e)[Len(q) + 1] = e
      /\ \A k \in 1 .. Len(q) : Append(q, e)[k] = q[k]
  OBVIOUS
<1>5. QED
  BY <1>1, <1>3, <1>4

\* Times of sights, records and fixes are integers.
LEMMA TimesAreIntegers ==
  ASSUME BaseInv
  PROVE  /\ \A x \in Sight : x.anchor_tt \in Int
         /\ \A r \in storage.body_q : r.frame_tt \in Int /\ r.frame_id \in Nat
         /\ \A k \in DOMAIN fix_stream : fix_stream[k].timestamp \in Int
         /\ \A i \in DOMAIN sight_window : sight_window[i] \in Sight
         /\ \A n \in DOMAIN sight_log : sight_log[n] \in Sight
         /\ clock = NoTime \/ clock \in Int
<1>1. /\ \A x \in Sight : x.anchor_tt \in Int
      /\ \A x \in Fix : x.timestamp \in Int
      /\ \A x \in BodyRecord : x.frame_tt \in Int /\ x.frame_id \in Nat
      /\ Times \subseteq Int
  BY StorageConstants DEF Sight, Fix, BodyRecord, FrameId
<1>2. /\ sight_window \in Seq(Sight) /\ sight_log \in Seq(Sight) /\ fix_stream \in Seq(Fix)
      /\ storage.body_q \in SUBSET BodyRecord /\ clock \in Times \cup {NoTime}
  BY DEF BaseInv, Shapes, Queues
<1>3. /\ \A k \in DOMAIN fix_stream : fix_stream[k] \in Fix
      /\ \A i \in DOMAIN sight_window : sight_window[i] \in Sight
      /\ \A n \in DOMAIN sight_log : sight_log[n] \in Sight
  BY <1>2, LenProperties, ElementOfSeq
<1>4. QED
  BY <1>1, <1>2, <1>3

\* What a push adds, and when it was seen.
LEMMA PushAdds ==
  ASSUME BaseInv, Past,
         NEW tt \in Times,
         NEW body \in BodyDetections \cup {NoDetection},
         NEW horizon \in HorizonDetections \cup {NoDetection},
         EPushFrame(tt, body, horizon)
  PROVE  LET run == StageERun(storage')
         IN /\ BaseInv' /\ clock' \in Int /\ tt <= clock' /\ clock' # NoTime
            /\ clock # NoTime => clock <= clock' /\ clock \in Int
            /\ \A r \in storage'.body_q : Before(r.frame_tt, clock')
            /\ \A m \in DOMAIN run.inserted : \E r \in storage'.body_q :
                 run.inserted[m].anchor_tt = r.frame_tt
            /\ \A i \in DOMAIN sight_window' :
                 \/ \E j \in DOMAIN sight_window : sight_window'[i] = sight_window[j]
                 \/ \E r \in storage'.body_q : sight_window'[i].anchor_tt = r.frame_tt
            /\ \A n \in DOMAIN sight_log' :
                 \/ \E k \in DOMAIN sight_log : sight_log'[n] = sight_log[k]
                 \/ \E r \in storage'.body_q : sight_log'[n].anchor_tt = r.frame_tt
<1> DEFINE run == StageERun(storage')
<1>1. /\ BaseInv' /\ session' = session /\ sight_window' = run.window
      /\ \E ids \in Landed(run.inserted) :
              sight_log' = sight_log \o Picked(run.inserted, ids)
  BY PushEffects
<1>2. /\ Queues(storage') /\ sight_window \in Seq(Sight) /\ session \in Nat
      /\ sight_log \in Seq(Sight)
      /\ Named(sight_window, session) /\ OnceEach(sight_window)
  BY <1>1 DEF BaseInv, Shapes
<1>3. /\ run.inserted \in Seq(Sight)
      /\ \A i \in DOMAIN run.window :
           \/ \E j \in DOMAIN sight_window : run.window[i] = sight_window[j]
           \/ \E m \in DOMAIN run.inserted : run.window[i] = run.inserted[m]
      /\ \A m \in DOMAIN run.inserted :
           \E r \in storage'.body_q : FromRecord(run.inserted[m], r, session)
  BY <1>2, RunIs
<1> HIDE DEF run
<1>4. \A n \in DOMAIN sight_log' :
        \/ \E k \in DOMAIN sight_log : sight_log'[n] = sight_log[k]
        \/ \E k \in DOMAIN run.inserted : sight_log'[n] = run.inserted[k]
  <2>1. PICK ids \in Landed(run.inserted) :
          sight_log' = sight_log \o Picked(run.inserted, ids)
    BY <1>1
  <2>2. QED
    BY <1>2, <1>3, <2>1, AppendAllAdds
<1>5. \A m \in DOMAIN run.inserted : \E r \in storage'.body_q :
        run.inserted[m].anchor_tt = r.frame_tt
  BY <1>3 DEF FromRecord
<1>6. /\ clock' \in Int /\ tt <= clock' /\ clock' # NoTime
      /\ clock # NoTime => clock <= clock' /\ clock \in Int
  <2>1. clock' = IF clock = NoTime \/ clock < tt THEN tt ELSE clock
    BY DEF EPushFrame
  <2>2. tt \in Int /\ tt # NoTime /\ (clock = NoTime \/ clock \in Int)
    BY TimesAreIntegers, StorageConstants, StageEConstants
  <2>3. QED
    BY <2>1, <2>2
<1>7. \A r \in storage'.body_q : r \in storage.body_q \/ r.frame_tt = tt
  <2>1. PushFrame(tt, body, horizon)
    BY DEF EPushFrame
  <2>2. QED
    BY <2>1, PushedQueues DEF BaseInv
<1>8. \A r \in storage'.body_q : Before(r.frame_tt, clock')
  <2> SUFFICES ASSUME NEW r \in storage'.body_q PROVE r.frame_tt <= clock'
    BY <1>6 DEF Before
  <2>1. CASE r \in storage.body_q
    <3>1. clock # NoTime /\ r.frame_tt <= clock /\ r.frame_tt \in Int
      BY <2>1, TimesAreIntegers DEF Past, Before
    <3>2. QED
      BY <1>6, <3>1
  <2>2. CASE r.frame_tt = tt
    BY <1>6, <2>2
  <2>3. QED
    BY <1>7, <2>1, <2>2
<1>9. /\ \A m \in DOMAIN run.inserted : \E r \in storage'.body_q :
           run.inserted[m].anchor_tt = r.frame_tt
      /\ \A i \in DOMAIN sight_window' :
           \/ \E j \in DOMAIN sight_window : sight_window'[i] = sight_window[j]
           \/ \E r \in storage'.body_q : sight_window'[i].anchor_tt = r.frame_tt
      /\ \A n \in DOMAIN sight_log' :
           \/ \E k \in DOMAIN sight_log : sight_log'[n] = sight_log[k]
           \/ \E r \in storage'.body_q : sight_log'[n].anchor_tt = r.frame_tt
  <2>1. \A i \in DOMAIN sight_window' :
           \/ \E j \in DOMAIN sight_window : sight_window'[i] = sight_window[j]
           \/ \E r \in storage'.body_q : sight_window'[i].anchor_tt = r.frame_tt
    BY <1>1, <1>3, <1>5
  <2>2. \A n \in DOMAIN sight_log' :
           \/ \E k \in DOMAIN sight_log : sight_log'[n] = sight_log[k]
           \/ \E r \in storage'.body_q : sight_log'[n].anchor_tt = r.frame_tt
    BY <1>4, <1>5
  <2>3. QED
    BY <1>5, <2>1, <2>2
<1>10. QED
  BY <1>1, <1>6, <1>8, <1>9 DEF run


\* A fix as a push publishes it.
Published(fix) ==
  LET run == StageERun(storage')
  IN /\ fix \in Fix
     /\ fix_stream' = Append(fix_stream, fix)
     /\ fix.timestamp = Now(storage', sight_window)
     /\ run.inserted # <<>> \/ run.evicted > 0
     /\ \A i \in DOMAIN fix.sights :
          /\ \E j \in DOMAIN sight_window' : fix.sights[i] = sight_window'[j]
          /\ Gap(fix.timestamp, fix.sights[i].anchor_tt) <= SightWindowSeconds
     /\ Diverse(fix.sights)

LEMMA PublishedIs ==
  ASSUME BaseInv,
         NEW tt \in Times,
         NEW body \in BodyDetections \cup {NoDetection},
         NEW horizon \in HorizonDetections \cup {NoDetection},
         EPushFrame(tt, body, horizon)
  PROVE  fix_stream' = fix_stream \/ \E fix \in Fix : Published(fix)
<1> DEFINE run == StageERun(storage')
<1> SUFFICES ASSUME fix_stream' # fix_stream PROVE \E fix \in Fix : Published(fix)
  OBVIOUS
<1>1. /\ BaseInv' /\ sight_window' = run.window
      /\ run.inserted # <<>> \/ run.evicted > 0
      /\ run.now \in Times
      /\ \E fix \in Publishable(run.window, run.now, has_prior) :
           fix_stream' = Append(fix_stream, fix)
  BY PushEffects
<1>2. Queues(storage') /\ sight_window \in Seq(Sight) /\ session \in Nat /\ run.window \in Seq(Sight)
  BY <1>1 DEF BaseInv, Shapes
<1>3. /\ run.now = Now(storage', sight_window)
      /\ run.now # NoTime =>
           \A i \in DOMAIN run.window :
             Gap(run.now, run.window[i].anchor_tt) <= SightWindowSeconds
  BY <1>2, RunTime
<1>4. run.now # NoTime
  BY <1>1, StageEConstants
<1> HIDE DEF run
<1>5. PICK fix \in Publishable(run.window, run.now, has_prior) :
        fix_stream' = Append(fix_stream, fix)
  BY <1>1
<1>6. /\ fix \in Fix /\ fix.timestamp = run.now
      /\ \A i \in DOMAIN fix.sights : \E j \in DOMAIN run.window : fix.sights[i] = run.window[j]
      /\ Diverse(fix.sights)
  BY <1>1, <1>2, PublishableIs
<1>7. \A i \in DOMAIN fix.sights :
        /\ \E j \in DOMAIN sight_window' : fix.sights[i] = sight_window'[j]
        /\ Gap(fix.timestamp, fix.sights[i].anchor_tt) <= SightWindowSeconds
  BY <1>1, <1>3, <1>4, <1>6
<1>8. Published(fix)
  BY <1>1, <1>3, <1>5, <1>6, <1>7 DEF Published, run
<1>9. QED
  BY <1>6, <1>8

\* What was past stays past.
LEMMA StaysBefore ==
  ASSUME NEW t \in Int, NEW c, NEW d \in Int, Before(t, c), d # NoTime,
         c # NoTime => c <= d /\ c \in Int
  PROVE  Before(t, d)
  BY DEF Before

LEMMA PushKeepsPast ==
  ASSUME BaseInv, Past,
         NEW tt \in Times,
         NEW body \in BodyDetections \cup {NoDetection},
         NEW horizon \in HorizonDetections \cup {NoDetection},
         EPushFrame(tt, body, horizon)
  PROVE  Past'
<1>1. /\ BaseInv' /\ clock' \in Int /\ clock' # NoTime
      /\ clock # NoTime => clock <= clock' /\ clock \in Int
      /\ \A r \in storage'.body_q : Before(r.frame_tt, clock')
      /\ \A i \in DOMAIN sight_window' :
           \/ \E j \in DOMAIN sight_window : sight_window'[i] = sight_window[j]
           \/ \E r \in storage'.body_q : sight_window'[i].anchor_tt = r.frame_tt
      /\ \A n \in DOMAIN sight_log' :
           \/ \E k \in DOMAIN sight_log : sight_log'[n] = sight_log[k]
           \/ \E r \in storage'.body_q : sight_log'[n].anchor_tt = r.frame_tt
  BY PushAdds
<1>2. /\ \A j \in DOMAIN sight_window : Before(sight_window[j].anchor_tt, clock')
      /\ \A k \in DOMAIN sight_log : Before(sight_log[k].anchor_tt, clock')
      /\ \A k \in DOMAIN fix_stream : Before(fix_stream[k].timestamp, clock')
  <2>1. /\ \A j \in DOMAIN sight_window : sight_window[j].anchor_tt \in Int
        /\ \A k \in DOMAIN sight_log : sight_log[k].anchor_tt \in Int
        /\ \A k \in DOMAIN fix_stream : fix_stream[k].timestamp \in Int
    BY TimesAreIntegers
  <2>2. QED
    BY <1>1, <2>1, StaysBefore DEF Past
<1>3. \A k \in DOMAIN fix_stream' : Before(fix_stream'[k].timestamp, clock')
  <2>1. CASE fix_stream' = fix_stream
    BY <1>2, <2>1
  <2>2. CASE fix_stream' # fix_stream
    <3>1. PICK fix \in Fix : Published(fix)
      BY <2>2, PublishedIs
    <3>2. /\ fix_stream' = Append(fix_stream, fix)
          /\ fix.timestamp = Now(storage', sight_window)
          /\ fix.timestamp \in Times
      BY <3>1 DEF Published, Fix
    <3>3. Before(fix.timestamp, clock')
      <4>1. Queues(storage') /\ sight_window \in Seq(Sight)
        BY <1>1 DEF BaseInv, Shapes
      <4>2. CASE Candidates(storage') # <<>>
        BY <1>1, <3>2, <4>1, <4>2, NowIs
      <4>3. CASE Candidates(storage') = <<>>
        <5>1. fix.timestamp # NoTime
          BY <3>2, StageEConstants
        <5>2. CASE sight_window # <<>>
          <6>1. fix.timestamp = sight_window[1].anchor_tt
            BY <3>2, <4>1, <4>3, <5>2, NowIs
          <6>2. 1 \in DOMAIN sight_window
            BY <4>1, <5>2, LenProperties
          <6>3. QED
            BY <1>2, <6>1, <6>2
        <5>3. CASE sight_window = <<>>
          BY <3>2, <4>3, <5>1, <5>3 DEF Now
        <5>4. QED
          BY <5>2, <5>3
      <4>4. QED
        BY <4>2, <4>3
    <3>4. fix_stream \in Seq(Fix)
      BY DEF BaseInv, Shapes
    <3>5. /\ DOMAIN fix_stream' = DOMAIN fix_stream \cup {Len(fix_stream) + 1}
          /\ fix_stream'[Len(fix_stream) + 1] = fix
          /\ \A k \in DOMAIN fix_stream : fix_stream'[k] = fix_stream[k]
      BY <3>2, <3>4, AppendedLast
    <3>6. QED
      BY <1>2, <3>3, <3>5
  <2>3. QED
    BY <2>1, <2>2
<1>4. /\ \A i \in DOMAIN sight_window' : Before(sight_window'[i].anchor_tt, clock')
      /\ \A n \in DOMAIN sight_log' : Before(sight_log'[n].anchor_tt, clock')
  BY <1>1, <1>2
<1>5. QED
  BY <1>1, <1>3, <1>4 DEF Past


\* Frames coming in order, a new record is the youngest.
LEMMA PushInOrder ==
  ASSUME CaptureInOrder, BaseInv, Past, InOrderInv,
         NEW tt \in Times,
         NEW body \in BodyDetections \cup {NoDetection},
         NEW horizon \in HorizonDetections \cup {NoDetection},
         EPushFrame(tt, body, horizon)
  PROVE  /\ \A r, q \in storage'.body_q : r.frame_id < q.frame_id => r.frame_tt <= q.frame_tt
         /\ \A t \in Int :
              Before(t, clock) /\ Covered(t, storage.body_q) => Covered(t, storage'.body_q)
<1>1. /\ \A r \in storage.body_q : r.frame_id < next_frame_id
      /\ \A r \in storage'.body_q :
           r \in storage.body_q \/ (r.frame_id = next_frame_id /\ r.frame_tt = tt)
      /\ \A r \in storage.body_q :
           \/ r \in storage'.body_q
           \/ \A q \in storage'.body_q : r.frame_id < q.frame_id
  <2>1. PushFrame(tt, body, horizon)
    BY DEF EPushFrame
  <2>2. QED
    BY <2>1, PushedQueues DEF BaseInv
<1>2. /\ \A r \in storage.body_q : r.frame_tt \in Int /\ r.frame_id \in Nat
      /\ clock = NoTime \/ clock \in Int
      /\ tt \in Int /\ next_frame_id \in Nat
  BY TimesAreIntegers, StorageConstants DEF BaseInv, IInv, TypeOK
<1>3. clock # NoTime => clock <= tt
  BY DEF EPushFrame, NotBefore
<1>4. \A r \in storage.body_q : r.frame_tt <= tt
  <2>1. \A r \in storage.body_q : clock # NoTime /\ r.frame_tt <= clock
    BY DEF Past, Before
  <2>2. QED
    BY <1>2, <1>3, <2>1
<1>5. ASSUME NEW r \in storage'.body_q, NEW q \in storage'.body_q, r.frame_id < q.frame_id
      PROVE  r.frame_tt <= q.frame_tt
  <2>1. CASE r \in storage.body_q /\ q \in storage.body_q
    BY <1>5, <2>1 DEF InOrderInv
  <2>2. CASE r \in storage.body_q /\ q.frame_tt = tt
    BY <1>4, <2>2
  <2>3. CASE r.frame_id = next_frame_id /\ q \in storage.body_q
    BY <1>1, <1>2, <1>5, <2>3
  <2>4. CASE r.frame_id = next_frame_id /\ q.frame_id = next_frame_id
    BY <1>2, <1>5, <2>4
  <2>5. QED
    BY <1>1, <2>1, <2>2, <2>3, <2>4
<1>6. ASSUME NEW t \in Int, Before(t, clock), Covered(t, storage.body_q),
             NEW q \in storage'.body_q
      PROVE  \E r \in storage'.body_q : t <= r.frame_tt
  <2>1. t <= tt
    BY <1>2, <1>3, <1>6 DEF Before
  <2>2. CASE q \notin storage.body_q
    <3>1. q.frame_tt = tt
      BY <1>1, <2>2
    <3>2. QED
      BY <2>1, <3>1
  <2>3. CASE q \in storage.body_q
    <3>1. PICK r \in storage.body_q : t <= r.frame_tt
      BY <1>6, <2>3 DEF Covered
    <3>2. CASE r \in storage'.body_q
      BY <3>1, <3>2
    <3>3. CASE r \notin storage'.body_q
      <4>1. r.frame_id < q.frame_id
        BY <1>1, <3>3
      <4>2. r.frame_tt <= q.frame_tt
        BY <2>3, <4>1 DEF InOrderInv
      <4>3. t <= q.frame_tt
        BY <1>2, <2>3, <3>1, <4>2
      <4>4. QED
        BY <4>3
    <3>4. QED
      BY <3>2, <3>3
  <2>4. QED
    BY <2>2, <2>3
<1>7. \A t \in Int :
        Before(t, clock) /\ Covered(t, storage.body_q) => Covered(t, storage'.body_q)
  BY <1>6 DEF Covered
<1>8. QED
  BY <1>5, <1>7

\* What the queue covers is not after a run that has candidates.
LEMMA CoveredIsNotAfter ==
  ASSUME NEW s, Queues(s), NEW w \in Seq(Sight), NEW t \in Int,
         Candidates(s) # <<>>, Covered(t, s.body_q)
  PROVE  t <= Now(s, w)
<1>1. PICK r \in s.body_q : Now(s, w) = r.frame_tt
  BY NowIs
<1>2. PICK q \in s.body_q : t <= q.frame_tt
  BY <1>1 DEF Covered
<1>3. q.frame_tt <= Now(s, w)
  BY NowIs
<1>4. q.frame_tt \in Int /\ Now(s, w) \in Int
  BY <1>1, StorageConstants DEF Queues, BodyRecord
<1>5. QED
  BY <1>2, <1>3, <1>4

\* Two times that are both not after now, and near it, are near each other.
LEMMA NearEachOther ==
  ASSUME NEW now \in Int, NEW a \in Int, NEW b \in Int, a <= now, b <= now,
         Gap(now, a) <= SightWindowSeconds, Gap(now, b) <= SightWindowSeconds
  PROVE  Gap(a, b) <= SightWindowSeconds
  BY StageEConstants DEF Gap

LEMMA PushKeepsInOrder ==
  ASSUME CaptureInOrder, BaseInv, Past, InOrderInv,
         NEW tt \in Times,
         NEW body \in BodyDetections \cup {NoDetection},
         NEW horizon \in HorizonDetections \cup {NoDetection},
         EPushFrame(tt, body, horizon)
  PROVE  /\ InOrderInv'
         /\ fix_stream' # fix_stream => Candidates(storage') # <<>>
<1> DEFINE run == StageERun(storage')
<1>1. /\ \A r, q \in storage'.body_q : r.frame_id < q.frame_id => r.frame_tt <= q.frame_tt
      /\ \A t \in Int :
           Before(t, clock) /\ Covered(t, storage.body_q) => Covered(t, storage'.body_q)
  BY PushInOrder
<1>2. /\ BaseInv'
      /\ \A m \in DOMAIN run.inserted : \E r \in storage'.body_q :
           run.inserted[m].anchor_tt = r.frame_tt
      /\ \A i \in DOMAIN sight_window' :
           \/ \E j \in DOMAIN sight_window : sight_window'[i] = sight_window[j]
           \/ \E r \in storage'.body_q : sight_window'[i].anchor_tt = r.frame_tt
  BY PushAdds
<1>3. /\ Queues(storage') /\ sight_window \in Seq(Sight) /\ session \in Nat
      /\ sight_window' \in Seq(Sight) /\ fix_stream \in Seq(Fix)
      /\ Named(sight_window, session) /\ OnceEach(sight_window)
  BY <1>2 DEF BaseInv, Shapes
<1>4. /\ \A j \in DOMAIN sight_window : sight_window[j].anchor_tt \in Int
      /\ \A k \in DOMAIN fix_stream : fix_stream[k].timestamp \in Int
      /\ \A i \in DOMAIN sight_window' : sight_window'[i].anchor_tt \in Int
      /\ \A r \in storage'.body_q : r.frame_tt \in Int
  <2>1. /\ \A j \in DOMAIN sight_window : sight_window[j].anchor_tt \in Int
        /\ \A k \in DOMAIN fix_stream : fix_stream[k].timestamp \in Int
    BY TimesAreIntegers
  <2>2. \A i \in DOMAIN sight_window' : sight_window'[i].anchor_tt \in Int
    <3>1. \A x \in Sight : x.anchor_tt \in Int
      BY StorageConstants DEF Sight
    <3>2. \A i \in DOMAIN sight_window' : sight_window'[i] \in Sight
      BY <1>3, ElementOfSeq, LenProperties
    <3>3. QED
      BY <3>1, <3>2
  <2>3. \A r \in storage'.body_q : r.frame_tt \in Int
    BY <1>3, StorageConstants DEF Queues, BodyRecord
  <2>4. QED
    BY <2>1, <2>2, <2>3
<1>5. /\ \A j \in DOMAIN sight_window : Covered(sight_window[j].anchor_tt, storage'.body_q)
      /\ \A k \in DOMAIN fix_stream : Covered(fix_stream[k].timestamp, storage'.body_q)
  BY <1>1, <1>4 DEF Past, InOrderInv
<1>6. \A r \in storage'.body_q : Covered(r.frame_tt, storage'.body_q)
  BY <1>4 DEF Covered
<1>7. \A i \in DOMAIN sight_window' : Covered(sight_window'[i].anchor_tt, storage'.body_q)
  BY <1>2, <1>5, <1>6
<1>8. /\ run.now = Now(storage', sight_window)
      /\ run.now # NoTime =>
           \A i \in DOMAIN run.window :
             Gap(run.now, run.window[i].anchor_tt) <= SightWindowSeconds
      /\ Candidates(storage') = <<>> => run.inserted = <<>>
      /\ Candidates(storage') = <<>>
         /\ (\A i, j \in DOMAIN sight_window :
               Gap(sight_window[i].anchor_tt, sight_window[j].anchor_tt)
                 <= SightWindowSeconds)
           => run.evicted = 0
  BY <1>3, RunTime
<1>9. sight_window' = run.window
  BY PushEffects
<1>10. /\ run.window \in Seq(Sight)
       /\ \A i \in DOMAIN run.window :
            \/ \E j \in DOMAIN sight_window : run.window[i] = sight_window[j]
            \/ \E m \in DOMAIN run.inserted : run.window[i] = run.inserted[m]
  BY <1>3, RunIs
<1> HIDE DEF run
<1>11. \A i, j \in DOMAIN sight_window' :
         Gap(sight_window'[i].anchor_tt, sight_window'[j].anchor_tt) <= SightWindowSeconds
  <2>1. CASE Candidates(storage') # <<>>
    <3> DEFINE now == Now(storage', sight_window)
    <3>1. now \in Times
      <4>1. \E r \in storage'.body_q : now = r.frame_tt
        BY <1>3, <2>1, NowIs
      <4>2. QED
        BY <1>3, <4>1 DEF Queues, BodyRecord
    <3>2. now \in Int /\ now # NoTime
      BY <3>1, StorageConstants, StageEConstants
    <3>3. \A i \in DOMAIN sight_window' :
            /\ sight_window'[i].anchor_tt <= now
            /\ Gap(now, sight_window'[i].anchor_tt) <= SightWindowSeconds
      BY <1>3, <1>4, <1>7, <1>8, <1>9, <2>1, <3>2, CoveredIsNotAfter
    <3> HIDE DEF now
    <3>4. QED
      BY <1>4, <3>2, <3>3, NearEachOther
  <2>2. CASE Candidates(storage') = <<>>
    <3>1. run.inserted = <<>> /\ DOMAIN <<>> = {}
      BY <1>8, <2>2
    <3>2. DOMAIN run.inserted = {}
      BY <3>1
    <3>3. \A i \in DOMAIN sight_window' : \E j \in DOMAIN sight_window :
            sight_window'[i] = sight_window[j]
      BY <1>9, <1>10, <3>2
    <3>4. QED
      BY <3>3 DEF InOrderInv
  <2>3. QED
    BY <2>1, <2>2
<1>12. ASSUME fix_stream' # fix_stream
       PROVE  Candidates(storage') # <<>>
  <2>1. run.inserted # <<>> \/ run.evicted > 0
    BY <1>12, PublishedIs DEF Published, run
  <2>2. QED
    BY <1>8, <2>1 DEF InOrderInv
<1>13. \A k \in DOMAIN fix_stream' : Covered(fix_stream'[k].timestamp, storage'.body_q)
  <2>1. CASE fix_stream' = fix_stream
    BY <1>5, <2>1
  <2>2. CASE fix_stream' # fix_stream
    <3>1. PICK fix \in Fix : Published(fix)
      BY <2>2, PublishedIs
    <3>2. /\ fix_stream' = Append(fix_stream, fix)
          /\ fix.timestamp = Now(storage', sight_window)
      BY <3>1 DEF Published
    <3>3. \E r \in storage'.body_q : fix.timestamp = r.frame_tt
      BY <1>3, <1>12, <2>2, <3>2, NowIs
    <3>4. /\ DOMAIN fix_stream' = DOMAIN fix_stream \cup {Len(fix_stream) + 1}
          /\ fix_stream'[Len(fix_stream) + 1] = fix
          /\ \A k \in DOMAIN fix_stream : fix_stream'[k] = fix_stream[k]
      BY <1>3, <3>2, AppendedLast
    <3>5. QED
      BY <1>5, <1>6, <3>3, <3>4
  <2>3. QED
    BY <2>1, <2>2
<1>14. QED
  BY <1>1, <1>7, <1>11, <1>12, <1>13 DEF InOrderInv


\* The fixes of the stream, as the two properties want them.
LEMMA PushKeepsFixes ==
  ASSUME TimeInv,
         NEW tt \in Times,
         NEW body \in BodyDetections \cup {NoDetection},
         NEW horizon \in HorizonDetections \cup {NoDetection},
         EPushFrame(tt, body, horizon)
  PROVE  PublishedFixIsFresh' /\ FixesMoveForward'
<1> SUFFICES ASSUME fix_stream' # fix_stream
             PROVE  PublishedFixIsFresh' /\ FixesMoveForward'
  BY DEF TimeInv, PublishedFixIsFresh, FixesMoveForward
<1>1. BaseInv /\ Past /\ BaseInv'
  BY PushEffects DEF TimeInv
<1>2. PICK fix \in Fix : Published(fix)
  BY <1>1, PublishedIs
<1>3. /\ Queues(storage') /\ sight_window \in Seq(Sight) /\ fix_stream \in Seq(Fix)
      /\ sight_window' \in Seq(Sight)
  BY <1>1 DEF BaseInv, Shapes
<1>4. /\ DOMAIN fix_stream' = DOMAIN fix_stream \cup {Len(fix_stream) + 1}
      /\ DOMAIN fix_stream = 1 .. Len(fix_stream) /\ Len(fix_stream) \in Nat
      /\ fix_stream'[Len(fix_stream) + 1] = fix
      /\ \A k \in DOMAIN fix_stream : fix_stream'[k] = fix_stream[k]
  BY <1>2, <1>3, AppendedLast DEF Published
<1>5. /\ fix.timestamp = Now(storage', sight_window)
      /\ \A i \in DOMAIN fix.sights :
           /\ \E j \in DOMAIN sight_window' : fix.sights[i] = sight_window'[j]
           /\ Gap(fix.timestamp, fix.sights[i].anchor_tt) <= SightWindowSeconds
  BY <1>2 DEF Published
<1>6. /\ \A j \in DOMAIN sight_window' : sight_window'[j].anchor_tt \in Int
      /\ \A k \in DOMAIN fix_stream : fix_stream[k].timestamp \in Int
  <2>1. \A x \in Sight : x.anchor_tt \in Int
    BY StorageConstants DEF Sight
  <2>2. \A j \in DOMAIN sight_window' : sight_window'[j] \in Sight
    BY <1>3, ElementOfSeq, LenProperties
  <2>3. QED
    BY <1>1, <2>1, <2>2, TimesAreIntegers
<1>7. ASSUME CaptureInOrder
      PROVE  /\ InOrderInv' /\ Candidates(storage') # <<>>
             /\ \A t \in Int : Covered(t, storage'.body_q) => t <= fix.timestamp
  <2>1. InOrderInv' /\ Candidates(storage') # <<>>
    BY <1>1, <1>7, PushKeepsInOrder DEF TimeInv
  <2>2. \A t \in Int : Covered(t, storage'.body_q) => t <= fix.timestamp
    BY <1>3, <1>5, <2>1, CoveredIsNotAfter
  <2>3. QED
    BY <2>1, <2>2
<1>8. PublishedFixIsFresh'
  <2> DEFINE Fresh(f) ==
        \A i \in DOMAIN f.sights :
          /\ Gap(f.timestamp, f.sights[i].anchor_tt) <= SightWindowSeconds
          /\ CaptureInOrder => f.sights[i].anchor_tt <= f.timestamp
  <2>1. \A k \in DOMAIN fix_stream : Fresh(fix_stream[k])
    BY DEF TimeInv, PublishedFixIsFresh
  <2>2. Fresh(fix)
    <3> SUFFICES ASSUME NEW i \in DOMAIN fix.sights, CaptureInOrder
                 PROVE  fix.sights[i].anchor_tt <= fix.timestamp
      BY <1>5
    <3>1. PICK j \in DOMAIN sight_window' : fix.sights[i] = sight_window'[j]
      BY <1>5
    <3>2. Covered(sight_window'[j].anchor_tt, storage'.body_q)
      BY <1>7 DEF InOrderInv
    <3>3. QED
      BY <1>6, <1>7, <3>1, <3>2
  <2> HIDE DEF Fresh
  <2>3. \A k \in DOMAIN fix_stream' : Fresh(fix_stream'[k])
    BY <1>4, <2>1, <2>2
  <2>4. QED
    BY <2>3 DEF PublishedFixIsFresh, Fresh
<1>9. FixesMoveForward'
  <2> SUFFICES ASSUME CaptureInOrder, NEW k \in DOMAIN fix_stream', k > 1
               PROVE  fix_stream'[k - 1].timestamp <= fix_stream'[k].timestamp
    BY DEF FixesMoveForward
  <2>1. CASE k \in DOMAIN fix_stream
    <3>1. k - 1 \in DOMAIN fix_stream
      BY <1>4, <2>1
    <3>2. QED
      BY <1>4, <2>1, <3>1 DEF TimeInv, FixesMoveForward
  <2>2. CASE k = Len(fix_stream) + 1
    <3>1. k - 1 \in DOMAIN fix_stream /\ k - 1 \in DOMAIN fix_stream'
      <4>1. k - 1 = Len(fix_stream) /\ Len(fix_stream) \in 1 .. Len(fix_stream)
        BY <1>4, <2>2
      <4>2. QED
        BY <1>4, <4>1
    <3>2. Covered(fix_stream'[k - 1].timestamp, storage'.body_q)
      BY <1>7, <3>1 DEF InOrderInv
    <3>3. QED
      BY <1>4, <1>6, <1>7, <2>2, <3>1, <3>2
  <2>3. QED
    BY <1>4, <2>1, <2>2
<1>10. QED
  BY <1>8, <1>9

LEMMA PushKeepsTime ==
  ASSUME TimeInv,
         NEW tt \in Times,
         NEW body \in BodyDetections \cup {NoDetection},
         NEW horizon \in HorizonDetections \cup {NoDetection},
         EPushFrame(tt, body, horizon)
  PROVE  TimeInv'
<1>1. BaseInv /\ Past /\ BaseInv'
  BY PushEffects DEF TimeInv
<1>2. Past'
  BY <1>1, PushKeepsPast
<1>3. CaptureInOrder => InOrderInv'
  BY <1>1, PushKeepsInOrder DEF TimeInv
<1>4. PublishedFixIsFresh' /\ FixesMoveForward'
  BY PushKeepsFixes
<1>5. QED
  BY <1>1, <1>2, <1>3, <1>4 DEF TimeInv

LEMMA RestartKeepsTime ==
  ASSUME TimeInv, NEW now \in Times, Restart(now)
  PROVE  TimeInv'
<1>1. BaseInv /\ Past
  BY DEF TimeInv
<1>2. /\ BaseInv'
      /\ storage'.body_q = {} /\ fix_stream' = <<>> /\ sight_log' = sight_log
      /\ \A i \in DOMAIN sight_window' : \E n \in DOMAIN sight_log :
           /\ Gap(now, sight_log[n].anchor_tt) <= SightWindowSeconds
           /\ sight_window'[i] = FromDisk(sight_log[n])
  BY <1>1, RestartEffects
<1>3. DOMAIN fix_stream' = {}
  BY <1>2
<1>4. /\ clock' \in Int /\ clock' # NoTime /\ now \in Int
      /\ clock # NoTime => clock <= clock' /\ clock \in Int
      /\ CaptureInOrder /\ clock # NoTime => clock <= now
  <2>1. /\ clock' = IF clock = NoTime \/ clock < now THEN now ELSE clock
        /\ NotBefore(now)
    BY DEF Restart
  <2>2. now \in Int /\ now # NoTime /\ (clock = NoTime \/ clock \in Int)
    BY <1>1, TimesAreIntegers, StorageConstants, StageEConstants
  <2>3. QED
    BY <2>1, <2>2 DEF NotBefore
<1>5. \A n \in DOMAIN sight_log :
        /\ sight_log[n] \in Sight /\ sight_log[n].anchor_tt \in Int
        /\ Before(sight_log[n].anchor_tt, clock)
        /\ Before(sight_log[n].anchor_tt, clock')
  <2>1. \A n \in DOMAIN sight_log :
          /\ sight_log[n] \in Sight /\ sight_log[n].anchor_tt \in Int
          /\ Before(sight_log[n].anchor_tt, clock)
    BY <1>1, TimesAreIntegers DEF Past
  <2>2. QED
    BY <1>4, <2>1, StaysBefore
<1>6. \A i \in DOMAIN sight_window' :
        /\ sight_window'[i].anchor_tt \in Int
        /\ Before(sight_window'[i].anchor_tt, clock)
        /\ Before(sight_window'[i].anchor_tt, clock')
        /\ Gap(now, sight_window'[i].anchor_tt) <= SightWindowSeconds
  <2>1. \A n \in DOMAIN sight_log : FromDisk(sight_log[n]).anchor_tt = sight_log[n].anchor_tt
    BY <1>5, FromDiskIs
  <2>2. QED
    BY <1>2, <1>5, <2>1
<1>7. Past'
  <2>1. \A n \in DOMAIN sight_log' : Before(sight_log'[n].anchor_tt, clock')
    BY <1>2, <1>5
  <2>2. QED
    BY <1>2, <1>3, <1>6, <2>1 DEF Past
<1>8. ASSUME CaptureInOrder
      PROVE  InOrderInv'
  <2>1. \A i \in DOMAIN sight_window' : sight_window'[i].anchor_tt <= now
    <3>1. \A i \in DOMAIN sight_window' :
            clock # NoTime /\ sight_window'[i].anchor_tt <= clock
      BY <1>6 DEF Before
    <3>2. QED
      BY <1>4, <1>6, <1>8, <3>1
  <2>2. \A i, j \in DOMAIN sight_window' :
          Gap(sight_window'[i].anchor_tt, sight_window'[j].anchor_tt) <= SightWindowSeconds
    BY <1>4, <1>6, <2>1, NearEachOther
  <2>3. QED
    BY <1>2, <1>3, <2>2 DEF InOrderInv, Covered
<1>9. PublishedFixIsFresh' /\ FixesMoveForward'
  BY <1>3 DEF PublishedFixIsFresh, FixesMoveForward
<1>10. QED
  BY <1>2, <1>7, <1>8, <1>9 DEF TimeInv

LEMMA InitTime == EInit => TimeInv
<1> SUFFICES ASSUME EInit PROVE TimeInv
  OBVIOUS
<1>1. BaseInv
  BY InitBase
<1>2. /\ storage.body_q = {} /\ DOMAIN sight_window = {}
      /\ DOMAIN sight_log = {} /\ DOMAIN fix_stream = {}
  BY DEF EInit, Init, EmptyStorage
<1>3. QED
  BY <1>1, <1>2 DEF TimeInv, Past, InOrderInv, PublishedFixIsFresh, FixesMoveForward

LEMMA StepKeepsTime == TimeInv /\ [ENext]_evars => TimeInv'
<1> SUFFICES ASSUME TimeInv, [ENext]_evars PROVE TimeInv'
  OBVIOUS
<1>1. CASE \E tt \in Times,
              body \in BodyDetections \cup {NoDetection},
              horizon \in HorizonDetections \cup {NoDetection} :
             EPushFrame(tt, body, horizon)
  BY <1>1, PushKeepsTime
<1>2. CASE \E now \in Times : Restart(now)
  BY <1>2, RestartKeepsTime
<1>3. CASE Still
  <2>1. BaseInv'
    BY StepKeepsBase DEF TimeInv
  <2>2. QED
    BY <1>3, <2>1 DEF Still, TimeInv, Past, InOrderInv, PublishedFixIsFresh, FixesMoveForward
<1>4. QED
  BY <1>1, <1>2, <1>3, StepCases

LEMMA AlwaysTime == ESpec => []TimeInv
  BY InitTime, StepKeepsTime, PTL DEF ESpec

\* No fix rests on a sight older than the window allows or, frames coming in
\* order, on one from after the fix, although the window outlives the queue.
THEOREM FixesAreFresh == ESpec => []PublishedFixIsFresh
<1>1. TimeInv => PublishedFixIsFresh
  BY DEF TimeInv
<1>2. QED
  BY <1>1, AlwaysTime, PTL

\* Frames coming in order, no fix is stamped before the one the consumer had.
THEOREM FixesNeverGoBack == ESpec => []FixesMoveForward
<1>1. TimeInv => FixesMoveForward
  BY DEF TimeInv
<1>2. QED
  BY <1>1, AlwaysTime, PTL


-----------------------------------------------------------------------------
(* Observations.                                                           *)

\* The sights the engine knows, in the window or on disk.
Seen == {sight_window[i] : i \in DOMAIN sight_window}
          \cup {sight_log[n] : n \in DOMAIN sight_log}

\* Sights of one observation differ in their horizon at most.
Agreeing(sights) ==
  \A x, y \in sights :
    x.obs = y.obs => x.azimuth = y.azimuth /\ x.anchor_tt = y.anchor_tt

\* Record r shows the body of x where x saw it.
Shows(r, x) ==
  /\ r.frame_tt = x.anchor_tt
  /\ \E i \in DOMAIN r.detection.lines :
       /\ r.detection.lines[i].body = x.obs[3]
       /\ r.detection.lines[i].azimuth = x.azimuth

\* A sight of session n is of a frame before id, and what the queue q still
\* holds of that frame agrees with it.
Rooted(x, n, id, q) ==
  x.obs[1] = n => /\ x.obs[2] < id
                  /\ \A r \in q : r.frame_id = x.obs[2] => Shows(r, x)

\* Nothing stands in the window that the log would not give back.
Recorded ==
  ~ AppendsMayFail =>
    \A i \in DOMAIN sight_window : \E n \in DOMAIN sight_log :
      sight_log[n].obs = sight_window[i].obs

LookInv ==
  /\ BaseInv
  /\ \A x \in Seen : Rooted(x, session, next_frame_id, storage.body_q)
  /\ Agreeing(Seen)
  /\ Recorded
  /\ FixIsReproducible
  /\ MinAzimuthSpread > 0 => FixRestsOnTwoLooks

LEMMA SeenIsSights ==
  ASSUME BaseInv
  PROVE  \A x \in Seen : x \in Sight
<1>1. sight_window \in Seq(Sight) /\ sight_log \in Seq(Sight)
  BY DEF BaseInv, Shapes
<1>2. /\ \A i \in DOMAIN sight_window : sight_window[i] \in Sight
      /\ \A n \in DOMAIN sight_log : sight_log[n] \in Sight
  BY <1>1, LenProperties, ElementOfSeq
<1>3. QED
  BY <1>2 DEF Seen

\* A detection shows a body once: two sights it shows under one observation
\* are the same look.
LEMMA ShowsAgree ==
  ASSUME NEW r \in BodyRecord, NEW x, NEW y, Shows(r, x), Shows(r, y), x.obs = y.obs
  PROVE  x.azimuth = y.azimuth /\ x.anchor_tt = y.anchor_tt
<1>1. \A i, j \in DOMAIN r.detection.lines :
        r.detection.lines[i].body = r.detection.lines[j].body => i = j
  BY StageEConstants DEF BodyRecord
<1>2. PICK i \in DOMAIN r.detection.lines :
        r.detection.lines[i].body = x.obs[3] /\ r.detection.lines[i].azimuth = x.azimuth
  BY DEF Shows
<1>3. PICK j \in DOMAIN r.detection.lines :
        r.detection.lines[j].body = y.obs[3] /\ r.detection.lines[j].azimuth = y.azimuth
  BY DEF Shows
<1>4. i = j
  BY <1>1, <1>2, <1>3
<1>5. QED
  BY <1>2, <1>3, <1>4 DEF Shows

LEMMA FromRecordShows ==
  ASSUME NEW r, NEW n, NEW x, FromRecord(x, r, n)
  PROVE  /\ x.obs[1] = n /\ x.obs[2] = r.frame_id
         /\ Shows(r, x)
<1>1. x.obs = <<n, r.frame_id, x.body>>
  BY DEF FromRecord
<1>2. x.obs[1] = n /\ x.obs[2] = r.frame_id /\ x.obs[3] = x.body
  BY <1>1
<1>3. QED
  BY <1>2 DEF FromRecord, Shows

\* What a push lets the engine see, and where it is rooted.
LEMMA PushKeepsLooks ==
  ASSUME LookInv,
         NEW tt \in Times,
         NEW body \in BodyDetections \cup {NoDetection},
         NEW horizon \in HorizonDetections \cup {NoDetection},
         EPushFrame(tt, body, horizon)
  PROVE  /\ \A x \in Seen' : Rooted(x, session', next_frame_id', storage'.body_q)
         /\ Agreeing(Seen')
         /\ Recorded'
         /\ \A k \in DOMAIN sight_log : \E n \in DOMAIN sight_log' :
              sight_log'[n] = sight_log[k]
<1> DEFINE run == StageERun(storage')
           q == storage'.body_q
<1>1. /\ BaseInv /\ BaseInv' /\ session' = session /\ sight_window' = run.window
      /\ \E ids \in Landed(run.inserted) :
              sight_log' = sight_log \o Picked(run.inserted, ids)
  BY PushEffects DEF LookInv
<1>2. /\ Queues(storage') /\ sight_window \in Seq(Sight) /\ session \in Nat
      /\ sight_log \in Seq(Sight)
      /\ Named(sight_window, session) /\ OnceEach(sight_window)
  BY <1>1 DEF BaseInv, Shapes
<1>3. /\ run.inserted \in Seq(Sight)
      /\ \A i \in DOMAIN run.window :
           \/ \E j \in DOMAIN sight_window : run.window[i] = sight_window[j]
           \/ \E m \in DOMAIN run.inserted : run.window[i] = run.inserted[m]
      /\ \A m \in DOMAIN run.inserted : \E r \in q : FromRecord(run.inserted[m], r, session)
  BY <1>2, RunIs
<1>4. /\ next_frame_id' = next_frame_id + 1 /\ next_frame_id \in Nat
      /\ \A r \in storage.body_q : r.frame_id < next_frame_id
      /\ \A r \in q : r \in storage.body_q \/ r.frame_id = next_frame_id
  <2>1. PushFrame(tt, body, horizon)
    BY DEF EPushFrame
  <2>2. QED
    BY <1>1, <2>1, PushedQueues DEF BaseInv, IInv, TypeOK
<1> HIDE DEF run
<1>5. /\ \A n \in DOMAIN sight_log' :
           \/ \E k \in DOMAIN sight_log : sight_log'[n] = sight_log[k]
           \/ \E k \in DOMAIN run.inserted : sight_log'[n] = run.inserted[k]
      /\ \A k \in DOMAIN sight_log : \E n \in DOMAIN sight_log' :
           sight_log'[n] = sight_log[k]
      /\ ~ AppendsMayFail =>
           \A k \in DOMAIN run.inserted : \E n \in DOMAIN sight_log' :
             sight_log'[n] = run.inserted[k]
  <2>1. PICK ids \in Landed(run.inserted) :
          sight_log' = sight_log \o Picked(run.inserted, ids)
    BY <1>1
  <2> DEFINE new == sight_log \o Picked(run.inserted, ids)
  <2>2. /\ \A n \in DOMAIN new :
             \/ \E k \in DOMAIN sight_log : new[n] = sight_log[k]
             \/ \E k \in DOMAIN run.inserted : new[n] = run.inserted[k]
        /\ \A k \in DOMAIN sight_log : \E n \in DOMAIN new : new[n] = sight_log[k]
        /\ ~ AppendsMayFail =>
             \A k \in DOMAIN run.inserted : \E n \in DOMAIN new :
               new[n] = run.inserted[k]
    BY <1>2, <1>3, AppendAllAdds
  <2> HIDE DEF new
  <2>3. sight_log' = new
    BY <2>1 DEF new
  <2>4. QED
    BY <2>2, <2>3
<1>6. \A x \in Seen' : x \in Seen \/ \E r \in q : FromRecord(x, r, session)
  <2>1. \A i \in DOMAIN sight_window' :
          sight_window'[i] \in Seen \/ \E r \in q : FromRecord(sight_window'[i], r, session)
    BY <1>1, <1>3 DEF Seen
  <2>2. \A n \in DOMAIN sight_log' :
          sight_log'[n] \in Seen \/ \E r \in q : FromRecord(sight_log'[n], r, session)
    BY <1>3, <1>5 DEF Seen
  <2>3. Seen' = {sight_window'[i] : i \in DOMAIN sight_window'}
                  \cup {sight_log'[n] : n \in DOMAIN sight_log'}
    BY DEF Seen
  <2>4. QED
    BY <2>1, <2>2, <2>3
<1>7. \A r, p \in q : r.frame_id = p.frame_id => r = p
  BY <1>2 DEF Queues
<1>8. \A x \in Seen : x \in Sight
  BY <1>1, SeenIsSights
<1>9. ASSUME NEW x \in Seen'
      PROVE  Rooted(x, session', next_frame_id', q)
  <2>1. CASE x \in Seen
    <3>1. Rooted(x, session, next_frame_id, storage.body_q)
      BY <2>1 DEF LookInv
    <3>2. x.obs[2] \in Nat
      BY <1>8, <2>1 DEF Sight, FrameId
    <3>3. x.obs[2] < next_frame_id => x.obs[2] < next_frame_id' /\ x.obs[2] # next_frame_id
      BY <1>4, <3>2
    <3>4. \A r \in q : r.frame_id = x.obs[2] /\ x.obs[2] # next_frame_id => r \in storage.body_q
      BY <1>4
    <3>5. QED
      BY <1>1, <3>1, <3>3, <3>4 DEF Rooted
  <2>2. CASE x \notin Seen
    <3>1. PICK r \in q : FromRecord(x, r, session)
      BY <1>6, <2>2
    <3>2. x.obs[2] = r.frame_id /\ Shows(r, x)
      BY <3>1, FromRecordShows
    <3>3. r.frame_id < next_frame_id'
      <4>1. r.frame_id \in Nat
        BY <1>2 DEF Queues, BodyRecord, FrameId
      <4>2. QED
        BY <1>4, <4>1
    <3>4. QED
      BY <1>7, <3>2, <3>3 DEF Rooted
  <2>3. QED
    BY <2>1, <2>2
<1>10. ASSUME NEW x \in Seen', NEW y \in Seen', x \notin Seen, x.obs = y.obs
       PROVE  x.azimuth = y.azimuth /\ x.anchor_tt = y.anchor_tt
  <2>1. PICK r \in q : FromRecord(x, r, session)
    BY <1>6, <1>10
  <2>2. x.obs[1] = session /\ x.obs[2] = r.frame_id /\ Shows(r, x)
    BY <2>1, FromRecordShows
  <2>3. Rooted(y, session', next_frame_id', q)
    BY <1>9
  <2>4. Shows(r, y)
    BY <1>1, <1>10, <2>2, <2>3 DEF Rooted
  <2>5. r \in BodyRecord
    BY <1>2 DEF Queues
  <2>6. QED
    BY <1>10, <2>2, <2>4, <2>5, ShowsAgree
<1>11. Agreeing(Seen')
  <2>1. Agreeing(Seen)
    BY DEF LookInv
  <2>2. QED
    BY <1>10, <2>1 DEF Agreeing
<1>12. Recorded'
  <2> SUFFICES ASSUME ~ AppendsMayFail, NEW i \in DOMAIN sight_window'
               PROVE  \E n \in DOMAIN sight_log' : sight_log'[n].obs = sight_window'[i].obs
    BY DEF Recorded
  <2>1. CASE \E j \in DOMAIN sight_window : sight_window'[i] = sight_window[j]
    <3>1. PICK j \in DOMAIN sight_window : sight_window'[i] = sight_window[j]
      BY <2>1
    <3>2. PICK k \in DOMAIN sight_log : sight_log[k].obs = sight_window[j].obs
      BY DEF LookInv, Recorded
    <3>3. QED
      BY <1>5, <3>1, <3>2
  <2>2. CASE \E m \in DOMAIN run.inserted : sight_window'[i] = run.inserted[m]
    BY <1>5, <2>2
  <2>3. QED
    BY <1>1, <1>3, <2>1, <2>2
<1>13. QED
  BY <1>5, <1>9, <1>11, <1>12

LEMMA PushKeepsLookInv ==
  ASSUME LookInv,
         NEW tt \in Times,
         NEW body \in BodyDetections \cup {NoDetection},
         NEW horizon \in HorizonDetections \cup {NoDetection},
         EPushFrame(tt, body, horizon)
  PROVE  LookInv'
<1>1. BaseInv /\ BaseInv'
  BY PushEffects DEF LookInv
<1>2. /\ \A x \in Seen' : Rooted(x, session', next_frame_id', storage'.body_q)
      /\ Agreeing(Seen')
      /\ Recorded'
      /\ \A k \in DOMAIN sight_log : \E n \in DOMAIN sight_log' :
           sight_log'[n] = sight_log[k]
  BY PushKeepsLooks
<1> DEFINE Logged(f) ==
             \A i \in DOMAIN f.sights : \E n \in DOMAIN sight_log' :
               sight_log'[n].obs = f.sights[i].obs
           Looks(f) ==
             \E i, j \in DOMAIN f.sights : /\ f.sights[i].obs # f.sights[j].obs
                                           /\ f.sights[i].azimuth # f.sights[j].azimuth
<1>3. ~ AppendsMayFail => \A k \in DOMAIN fix_stream : Logged(fix_stream[k])
  BY <1>2 DEF LookInv, FixIsReproducible
<1>4. MinAzimuthSpread > 0 => \A k \in DOMAIN fix_stream : Looks(fix_stream[k])
  BY DEF LookInv, FixRestsOnTwoLooks
<1>5. ASSUME NEW fix \in Fix, Published(fix)
      PROVE  /\ ~ AppendsMayFail => Logged(fix)
             /\ MinAzimuthSpread > 0 => Looks(fix)
  <2>1. /\ \A i \in DOMAIN fix.sights : \E j \in DOMAIN sight_window' :
             fix.sights[i] = sight_window'[j]
        /\ Diverse(fix.sights) /\ fix.sights \in Seq(Sight)
    BY <1>5 DEF Published, Fix
  <2>2. \A i \in DOMAIN fix.sights : fix.sights[i] \in Seen'
    BY <2>1 DEF Seen
  <2>3. ~ AppendsMayFail => Logged(fix)
    BY <1>2, <2>1 DEF Recorded
  <2>4. MinAzimuthSpread > 0 => Looks(fix)
    <3> SUFFICES ASSUME MinAzimuthSpread > 0 PROVE Looks(fix)
      OBVIOUS
    <3>1. PICK i, j \in DOMAIN fix.sights : fix.sights[i].azimuth # fix.sights[j].azimuth
      BY <2>1, DiverseLooksTwoWays
    <3>2. fix.sights[i].obs # fix.sights[j].obs
      BY <1>2, <2>2, <3>1 DEF Agreeing
    <3>3. QED
      BY <3>1, <3>2
  <2>5. QED
    BY <2>3, <2>4
<1>6. /\ ~ AppendsMayFail => \A k \in DOMAIN fix_stream' : Logged(fix_stream'[k])
      /\ MinAzimuthSpread > 0 => \A k \in DOMAIN fix_stream' : Looks(fix_stream'[k])
  <2> HIDE DEF Logged, Looks
  <2>1. CASE fix_stream' = fix_stream
    BY <1>3, <1>4, <2>1
  <2>2. CASE fix_stream' # fix_stream
    <3>1. PICK fix \in Fix : Published(fix)
      BY <1>1, <2>2, PublishedIs
    <3>2. fix_stream \in Seq(Fix) /\ fix_stream' = Append(fix_stream, fix)
      BY <1>1, <3>1 DEF BaseInv, Shapes, Published
    <3>3. /\ DOMAIN fix_stream' = DOMAIN fix_stream \cup {Len(fix_stream) + 1}
          /\ fix_stream'[Len(fix_stream) + 1] = fix
          /\ \A k \in DOMAIN fix_stream : fix_stream'[k] = fix_stream[k]
      BY <3>2, AppendedLast
    <3>4. QED
      BY <1>3, <1>4, <1>5, <3>1, <3>3
  <2>3. QED
    BY <2>1, <2>2
<1>7. FixIsReproducible'
  BY <1>6 DEF FixIsReproducible
<1>8. MinAzimuthSpread > 0 => FixRestsOnTwoLooks'
  BY <1>6 DEF FixRestsOnTwoLooks
<1>9. QED
  BY <1>1, <1>2, <1>7, <1>8 DEF LookInv


LEMMA RestartKeepsLookInv ==
  ASSUME LookInv, NEW now \in Times, Restart(now)
  PROVE  LookInv'
<1>1. BaseInv
  BY DEF LookInv
<1>2. /\ BaseInv' /\ session' = session + 1
      /\ fix_stream' = <<>> /\ sight_log' = sight_log
      /\ \A i \in DOMAIN sight_window' : \E n \in DOMAIN sight_log :
           sight_window'[i] = FromDisk(sight_log[n])
  BY <1>1, RestartEffects
<1>3. DOMAIN fix_stream' = {}
  BY <1>2
<1>4. /\ session \in Nat
      /\ \A n \in DOMAIN sight_log :
           /\ sight_log[n] \in Sight /\ sight_log[n] \in Seen
           /\ sight_log[n].obs[1] \in Nat /\ sight_log[n].obs[1] <= session
           /\ FromDisk(sight_log[n]).obs = sight_log[n].obs
           /\ FromDisk(sight_log[n]).azimuth = sight_log[n].azimuth
           /\ FromDisk(sight_log[n]).anchor_tt = sight_log[n].anchor_tt
  <2>1. \A n \in DOMAIN sight_log : sight_log[n] \in Sight /\ sight_log[n] \in Seen
    BY <1>1, SeenIsSights DEF Seen
  <2>2. \A x \in Sight : x.obs[1] \in Nat
    BY DEF Sight
  <2>3. session \in Nat /\ \A n \in DOMAIN sight_log : sight_log[n].obs[1] <= session
    BY <1>1 DEF BaseInv, Shapes
  <2>4. QED
    BY <2>1, <2>2, <2>3, FromDiskIs
<1>5. \A x \in Seen' : \E n \in DOMAIN sight_log :
        /\ x.obs = sight_log[n].obs
        /\ x.azimuth = sight_log[n].azimuth
        /\ x.anchor_tt = sight_log[n].anchor_tt
  <2>1. Seen' = {sight_window'[i] : i \in DOMAIN sight_window'}
                  \cup {sight_log[n] : n \in DOMAIN sight_log}
    BY <1>2 DEF Seen
  <2>2. QED
    BY <1>2, <1>4, <2>1
<1>6. \A x \in Seen' : Rooted(x, session', next_frame_id', storage'.body_q)
  <2> SUFFICES ASSUME NEW x \in Seen' PROVE x.obs[1] # session'
    BY DEF Rooted
  <2>1. QED
    BY <1>2, <1>4, <1>5
<1>7. Agreeing(Seen')
  <2>1. Agreeing(Seen)
    BY DEF LookInv
  <2>2. QED
    BY <1>4, <1>5, <2>1 DEF Agreeing
<1>8. Recorded'
  BY <1>2, <1>4 DEF Recorded
<1>9. FixIsReproducible' /\ FixRestsOnTwoLooks'
  BY <1>3 DEF FixIsReproducible, FixRestsOnTwoLooks
<1>10. QED
  BY <1>2, <1>6, <1>7, <1>8, <1>9 DEF LookInv

LEMMA InitLooks == EInit => LookInv
<1> SUFFICES ASSUME EInit PROVE LookInv
  OBVIOUS
<1>1. BaseInv
  BY InitBase
<1>2. DOMAIN sight_window = {} /\ DOMAIN sight_log = {} /\ DOMAIN fix_stream = {}
  BY DEF EInit
<1>3. Seen = {}
  BY <1>2 DEF Seen
<1>4. QED
  BY <1>1, <1>2, <1>3
  DEF LookInv, Agreeing, Recorded, FixIsReproducible, FixRestsOnTwoLooks

LEMMA StepKeepsLooks == LookInv /\ [ENext]_evars => LookInv'
<1> SUFFICES ASSUME LookInv, [ENext]_evars PROVE LookInv'
  OBVIOUS
<1>1. CASE \E tt \in Times,
              body \in BodyDetections \cup {NoDetection},
              horizon \in HorizonDetections \cup {NoDetection} :
             EPushFrame(tt, body, horizon)
  BY <1>1, PushKeepsLookInv
<1>2. CASE \E now \in Times : Restart(now)
  BY <1>2, RestartKeepsLookInv
<1>3. CASE Still
  <2>1. BaseInv'
    BY StepKeepsBase DEF LookInv
  <2>2. Seen' = Seen
    BY <1>3 DEF Still, Seen
  <2>3. QED
    BY <1>3, <2>1, <2>2
    DEF Still, LookInv, Recorded, FixIsReproducible, FixRestsOnTwoLooks
<1>4. QED
  BY <1>1, <1>2, <1>3, StepCases

LEMMA AlwaysLooks == ESpec => []LookInv
  BY InitLooks, StepKeepsLooks, PTL DEF ESpec

\* The sights of a fix are in the log, unless an append failed: a sight that
\* the window took before a push was logged by an earlier push or read from
\* the log.
THEOREM FixesAreReproducible == ESpec => []FixIsReproducible
<1>1. LookInv => FixIsReproducible
  BY DEF LookInv
<1>2. QED
  BY <1>1, AlwaysLooks, PTL

\* With a gate that asks for some spread, no fix rests on one look alone, by
\* whichever solver: the two directions it needs are of two observations, since
\* all sights of an observation, emitted again or read from disk, share one.
THEOREM FixesRestOnTwoLooks ==
  ASSUME MinAzimuthSpread > 0
  PROVE  ESpec => []FixRestsOnTwoLooks
<1>1. LookInv => FixRestsOnTwoLooks
  BY DEF LookInv
<1>2. QED
  BY <1>1, AlwaysLooks, PTL

\* A restart, its clock not behind the captures, loses no sight that was logged
\* since the last rotation and is young enough, unless for others no worse.
THEOREM RestartsRecover ==
  ASSUME CaptureInOrder
  PROVE  ESpec => RestartRecovers
<1> DEFINE Regained(x) ==
             \/ \A n \in CurrentLog :
                  sight_log[n].obs # x.obs \/ sight_log[n].sigma # x.sigma
             \/ Gap(clock', x.anchor_tt) > SightWindowSeconds
             \/ \E j \in DOMAIN sight_window' : sight_window'[j].obs = x.obs
             \/ /\ Len(sight_window') = SightWindowCapacity
                /\ \A j \in DOMAIN sight_window' : sight_window'[j].sigma <= x.sigma
           Recovers == session' # session =>
                         \A i \in DOMAIN sight_window : Regained(sight_window[i])
<1>1. LookInv /\ [ENext]_evars => Recovers
  <2> SUFFICES ASSUME LookInv, [ENext]_evars PROVE Recovers
    OBVIOUS
  <2>1. BaseInv
    BY DEF LookInv
  <2>2. ASSUME NEW now \in Times, Restart(now), NEW i \in DOMAIN sight_window
        PROVE  Regained(sight_window[i])
    <3> DEFINE x == sight_window[i]
               pool == HydratePool(now)
    <3>1. SUFFICES ASSUME NEW n \in CurrentLog,
                          sight_log[n].obs = x.obs, sight_log[n].sigma = x.sigma,
                          Gap(clock', x.anchor_tt) <= SightWindowSeconds
                   PROVE  \/ \E j \in DOMAIN sight_window' : sight_window'[j].obs = x.obs
                          \/ /\ Len(sight_window') = SightWindowCapacity
                             /\ \A j \in DOMAIN sight_window' :
                                  sight_window'[j].sigma <= x.sigma
      <4>1. clock' \in Int /\ x.anchor_tt \in Int /\ SightWindowSeconds \in Nat
        <5>1. clock' \in Times
          BY <2>1, <2>2 DEF Restart, BaseInv, Shapes
        <5>2. QED
          BY <2>1, <5>1, TimesAreIntegers, StorageConstants, StageEConstants
      <4>2. \A a, b \in Int : Gap(a, b) > SightWindowSeconds \/ Gap(a, b) <= SightWindowSeconds
        BY <4>1, GapIsNatural
      <4>3. \/ Gap(clock', x.anchor_tt) > SightWindowSeconds
            \/ Gap(clock', x.anchor_tt) <= SightWindowSeconds
        <5> HIDE DEF x
        <5> QED BY <4>1, <4>2
      <4>4. QED
        BY <4>3
    <3>2. clock' = now /\ sight_window' = Hydrated(pool)
      <4>1. /\ clock' = IF clock = NoTime \/ clock < now THEN now ELSE clock
            /\ clock # NoTime => clock <= now
            /\ sight_window' = Hydrated(pool)
        BY <2>2 DEF Restart, NotBefore
      <4>2. now \in Int /\ (clock = NoTime \/ clock \in Int)
        BY <2>1, TimesAreIntegers, StorageConstants
      <4>3. QED
        BY <4>1, <4>2
    <3>3. /\ sight_log \in Seq(Sight) /\ n \in DOMAIN sight_log
          /\ sight_log[n] \in Sight
      BY <2>1, TimesAreIntegers DEF BaseInv, Shapes, CurrentLog
    <3>4. sight_log[n].anchor_tt = x.anchor_tt
      BY <3>1, <3>3 DEF LookInv, Agreeing, Seen
    <3>5. /\ pool \in Seq(Sight)
          /\ \E k \in DOMAIN pool : pool[k] = FromDisk(sight_log[n])
      BY <3>1, <3>2, <3>3, <3>4, HydratePoolIs
    <3> HIDE DEF pool
    <3>6. PICK k \in DOMAIN pool : pool[k] = FromDisk(sight_log[n])
      BY <3>5
    <3>7. pool[k].obs = x.obs /\ pool[k].sigma = x.sigma
      BY <3>1, <3>3, <3>6, FromDiskIs
    <3>8. \/ \E j \in DOMAIN sight_window' : sight_window'[j] = pool[k]
          \/ /\ Len(sight_window') = SightWindowCapacity
             /\ \A j \in DOMAIN sight_window' : sight_window'[j].sigma <= pool[k].sigma
      BY <3>2, <3>5, HydratedIs
    <3>9. QED
      BY <3>7, <3>8
  <2>3. ASSUME NEW tt \in Times,
               NEW body \in BodyDetections \cup {NoDetection},
               NEW horizon \in HorizonDetections \cup {NoDetection},
               EPushFrame(tt, body, horizon)
        PROVE  Recovers
    BY <2>3 DEF EPushFrame
  <2>4. CASE Still
    BY <2>4 DEF Still
  <2> HIDE DEF Regained
  <2>5. QED
    BY <2>2, <2>3, <2>4, StepCases
<1>2. QED
  BY <1>1, AlwaysLooks, PTL DEF ESpec, RestartRecovers

=============================================================================
