--------------------------- MODULE SessionProofs ---------------------------
(***************************************************************************)
(* Theorems of Session, for any number of sessions, subscribers and fixes.  *)
(*                                                                         *)
(* The inductive invariant SInv has three parts: the types; that whoever    *)
(* holds a reference holds a live engine; and, for the decision, that a     *)
(* session's best fix is one of those offered, the first of the tightest,   *)
(* and its accepted fix, once there is one, the best.  StreamInv, below, is  *)
(* the inductive invariant of the pump and its subscribers.                 *)
(***************************************************************************)
EXTENDS Session, TLAPS

State == {"None", "Idle", "Active", "Stopped", "Accepted", "Abandoned"}

SessionInner ==
  [state : State, best_fix : Fix \cup {NoFix}, accepted_fix : Fix \cup {NoFix},
   held : BOOLEAN]

TypeInv ==
  /\ session \in [Sessions -> SessionInner]
  /\ offered \in [Sessions -> Seq(Fix)]
  /\ channel \in Seq(Fix)
  /\ pump \in [pc : {"recv", "received", "calling", "closing", "done"},
               fix : Fix \cup {<<>>}, todo : Seq(Subscribers)]
  /\ pump.pc \in {"received", "calling"} => pump.fix \in Fix
  /\ subscribers \in Seq(Subscribers)
  /\ published \in Seq(Fix)
  /\ handle \in BOOLEAN
  /\ engine \in {"held", "joining", "dropped"}

\* Whoever holds a reference, the application or a session, has an engine
\* that is not being dropped (lib.rs:1118-1121).
HoldersHaveEngine ==
  (handle \/ \E s \in Sessions : session[s].held) => engine = "held"

BestIsTightest(s) ==
  \/ offered[s] = <<>> /\ session[s].best_fix = NoFix
  \/ \E i \in DOMAIN offered[s] :
       IsTightest(offered[s], i) /\ session[s].best_fix = offered[s][i]

AcceptedIsBest(s) ==
  /\ session[s].state = "Accepted" <=> session[s].accepted_fix # NoFix
  /\ session[s].accepted_fix # NoFix
       => session[s].accepted_fix = session[s].best_fix

SInv ==
  /\ TypeInv
  /\ HoldersHaveEngine
  /\ \A s \in Sessions : BestIsTightest(s) /\ AcceptedIsBest(s)

-----------------------------------------------------------------------------
(* The tightest of a sequence that grows.                                  *)

LEMMA SigmasAreNaturals == \A f \in Fix : f.sigma \in Nat
  BY FixPumpConstants DEF Fix

LEMMA TightestIsUnique ==
  ASSUME NEW fixes \in Seq(Fix), NEW i, IsTightest(fixes, i)
  PROVE  Tightest(fixes) = fixes[i]
<1>1. i \in 1 .. Len(fixes) /\ fixes # <<>>
  BY DEF IsTightest
<1>2. ASSUME NEW j \in DOMAIN fixes, IsTightest(fixes, j)
      PROVE  j = i
  BY <1>1, <1>2, SigmasAreNaturals DEF IsTightest
<1>3. (CHOOSE j \in DOMAIN fixes : IsTightest(fixes, j)) = i
  BY <1>1, <1>2
<1>4. QED
  BY <1>1, <1>3 DEF Tightest

LEMMA TightestOfLonger ==
  ASSUME NEW fixes \in Seq(Fix), NEW fix \in Fix, NEW i, IsTightest(fixes, i)
  PROVE  /\ fix.sigma < fixes[i].sigma
              => IsTightest(Append(fixes, fix), Len(fixes) + 1)
         /\ ~ (fix.sigma < fixes[i].sigma) => IsTightest(Append(fixes, fix), i)
<1> DEFINE longer == Append(fixes, fix)
<1>1. /\ DOMAIN longer = 1 .. Len(fixes) + 1
      /\ longer[Len(fixes) + 1] = fix
      /\ \A j \in 1 .. Len(fixes) : longer[j] = fixes[j] /\ fixes[j] \in Fix
      /\ Len(fixes) \in Nat
  OBVIOUS
<1>2. i \in 1 .. Len(fixes)
  BY DEF IsTightest
<1>3. \A j \in 1 .. Len(fixes) : \/ fixes[i].sigma < fixes[j].sigma
                                 \/ fixes[i].sigma = fixes[j].sigma /\ i <= j
  BY DEF IsTightest
<1> HIDE DEF longer
<1>4. /\ fix.sigma \in Nat
      /\ \A j \in 1 .. Len(fixes) : fixes[j].sigma \in Nat
  BY <1>1, SigmasAreNaturals
<1>5. CASE fix.sigma < fixes[i].sigma
  <2>1. IsTightest(longer, Len(fixes) + 1)
    BY <1>1, <1>2, <1>3, <1>4, <1>5 DEF IsTightest
  <2>2. QED
    BY <1>5, <2>1 DEF longer
<1>6. CASE ~ (fix.sigma < fixes[i].sigma)
  <2>1. IsTightest(longer, i)
    BY <1>1, <1>2, <1>3, <1>4, <1>6 DEF IsTightest
  <2>2. QED
    BY <1>6, <2>1 DEF longer
<1>7. QED
  BY <1>5, <1>6

LEMMA TightestOfOne ==
  ASSUME NEW fix \in Fix
  PROVE  IsTightest(Append(<<>>, fix), 1) /\ Append(<<>>, fix)[1] = fix
<1>1. Append(<<>>, fix) = <<fix>>
  OBVIOUS
<1>2. fix.sigma \in Nat
  BY SigmasAreNaturals
<1>3. QED
  BY <1>1, <1>2 DEF IsTightest

-----------------------------------------------------------------------------
(* The invariant.                                                          *)

LEMMA InitSInv == SInit => SInv
<1> SUFFICES ASSUME SInit PROVE SInv
  OBVIOUS
<1>1. TypeInv
  BY DEF SInit, FInit, TypeInv, Unborn, Idle, SessionInner, State
<1>2. HoldersHaveEngine
  BY DEF SInit, FInit, HoldersHaveEngine
<1>3. \A s \in Sessions : BestIsTightest(s) /\ AcceptedIsBest(s)
  BY DEF SInit, Unborn, BestIsTightest, AcceptedIsBest
<1>4. QED
  BY <1>1, <1>2, <1>3 DEF SInv

\* A step that touches no session keeps what SInv says of sessions.
LEMMA OthersKeepSInv ==
  ASSUME SInv, TypeInv', UNCHANGED <<session, offered>>,
         engine' = engine \/ engine # "held",
         handle' => handle \/ \E s \in Sessions : session[s].held
  PROVE  SInv'
<1>1. HoldersHaveEngine'
  BY DEF SInv, HoldersHaveEngine
<1>2. \A s \in Sessions : BestIsTightest(s)' /\ AcceptedIsBest(s)'
  BY DEF SInv, BestIsTightest, AcceptedIsBest
<1>3. QED
  BY <1>1, <1>2 DEF SInv

LEMMA PumpStepTypes ==
  ASSUME SInv, Receive \/ Snapshot \/ CallNext,
         session' \in [Sessions -> SessionInner],
         offered' \in [Sessions -> Seq(Fix)],
         UNCHANGED handle
  PROVE  TypeInv'
<1> DEFINE PumpState == {"recv", "received", "calling", "closing", "done"}
           Pumps == [pc : PumpState, fix : Fix \cup {<<>>}, todo : Seq(Subscribers)]
<1>1. /\ channel \in Seq(Fix) /\ published \in Seq(Fix)
      /\ subscribers \in Seq(Subscribers) /\ pump \in Pumps
      /\ pump.pc \in {"received", "calling"} => pump.fix \in Fix
      /\ handle \in BOOLEAN /\ engine \in {"held", "joining", "dropped"}
  BY DEF SInv, TypeInv
<1>2. UNCHANGED <<published, engine>>
  BY DEF Receive, Snapshot, CallNext
<1>3. /\ <<>> \in Seq(Subscribers)
      /\ Idle = [pc |-> "recv", fix |-> <<>>, todo |-> <<>>]
      /\ Done = [pc |-> "done", fix |-> <<>>, todo |-> <<>>]
  BY DEF Idle, Done
<1>4. SUFFICES /\ channel' \in Seq(Fix) /\ subscribers' \in Seq(Subscribers)
               /\ pump' \in Pumps
               /\ pump'.pc \in {"received", "calling"} => pump'.fix \in Fix
  BY <1>1, <1>2 DEF TypeInv
<1>5. CASE Receive /\ channel # <<>>
  <2>1. Head(channel) \in Fix /\ Tail(channel) \in Seq(Fix)
    BY <1>1, <1>5
  <2>2. /\ pump' = [pc |-> "received", fix |-> Head(channel), todo |-> <<>>]
        /\ channel' = Tail(channel) /\ subscribers' = subscribers
    BY <1>3, <1>5 DEF Receive
  <2>3. QED
    BY <1>1, <1>3, <2>1, <2>2
<1>6. CASE Receive /\ channel = <<>>
  <2>1. /\ pump' = [pc |-> "closing", fix |-> <<>>, todo |-> subscribers]
        /\ subscribers' = <<>> /\ channel' = channel
    BY <1>3, <1>6 DEF Receive
  <2>2. QED
    BY <1>1, <1>3, <2>1
<1>7. CASE Snapshot
  <2>1. /\ pump' = [pc |-> "calling", fix |-> pump.fix, todo |-> subscribers]
        /\ UNCHANGED <<channel, subscribers>>
    BY <1>1, <1>7 DEF Snapshot
  <2>2. pump.fix \in Fix
    BY <1>1, <1>7 DEF Snapshot
  <2>3. QED
    BY <1>1, <2>1, <2>2
<1>8. CASE CallNext /\ pump.todo = <<>>
  <2>1. /\ pump' = Idle \/ pump' = Done
        /\ UNCHANGED <<channel, subscribers>>
    BY <1>8 DEF CallNext
  <2>2. /\ Idle \in Pumps /\ Idle.pc = "recv"
        /\ Done \in Pumps /\ Done.pc = "done"
    BY <1>3
  <2>3. QED
    BY <1>1, <2>1, <2>2
<1>9. CASE CallNext /\ pump.todo # <<>>
  <2>1. /\ pump' = [pc |-> pump.pc, fix |-> pump.fix, todo |-> Tail(pump.todo)]
        /\ UNCHANGED <<channel, subscribers>>
    BY <1>1, <1>9 DEF CallNext
  <2>2. Tail(pump.todo) \in Seq(Subscribers)
    BY <1>1, <1>9
  <2>3. QED
    BY <1>1, <2>1, <2>2
<1>10. QED
  BY <1>5, <1>6, <1>7, <1>8, <1>9

LEMMA CollectKeepsSessions ==
  ASSUME SInv, NEW s \in Sessions, Collects(s), NEW fix \in Fix, Collect(s, fix)
  PROVE  /\ session' \in [Sessions -> SessionInner]
         /\ offered' \in [Sessions -> Seq(Fix)]
         /\ \A t \in Sessions : /\ session'[t].held = session[t].held
                                /\ t # s => session'[t] = session[t]
         /\ \A t \in Sessions : BestIsTightest(t)' /\ AcceptedIsBest(t)'
<1>1. /\ session \in [Sessions -> SessionInner]
      /\ offered \in [Sessions -> Seq(Fix)]
      /\ offered' = [offered EXCEPT ![s] = Append(@, fix)]
      /\ session' = IF Replaces(session[s].best_fix, fix)
                      THEN [session EXCEPT ![s].best_fix = fix] ELSE session
  BY DEF SInv, TypeInv, Collect
<1>2. offered' \in [Sessions -> Seq(Fix)] /\ offered[s] \in Seq(Fix)
  BY <1>1
<1>3. session' \in [Sessions -> SessionInner]
  BY <1>1 DEF SessionInner
<1>4. \A t \in Sessions : /\ session'[t].held = session[t].held
                          /\ session'[t].state = session[t].state
                          /\ session'[t].accepted_fix = session[t].accepted_fix
                          /\ t # s => session'[t] = session[t] /\ offered'[t] = offered[t]
  BY <1>1 DEF SessionInner
<1>5. session[s].state = "Active" /\ session[s].accepted_fix = NoFix
  BY DEF Collects, SInv, AcceptedIsBest
<1>6. \A t \in Sessions : AcceptedIsBest(t)'
  BY <1>4, <1>5 DEF SInv, AcceptedIsBest
<1>7. BestIsTightest(s)'
  <2>1. offered'[s] = Append(offered[s], fix)
    BY <1>1
  <2>2. CASE offered[s] = <<>> /\ session[s].best_fix = NoFix
    <3>1. session'[s].best_fix = fix
      BY <1>1, <2>2 DEF Replaces, SessionInner
    <3>2. 1 \in DOMAIN offered'[s] /\ offered'[s][1] = fix /\ IsTightest(offered'[s], 1)
      BY <2>1, <2>2, TightestOfOne DEF IsTightest
    <3>3. QED
      BY <3>1, <3>2 DEF BestIsTightest
  <2>3. CASE \E i \in DOMAIN offered[s] :
               IsTightest(offered[s], i) /\ session[s].best_fix = offered[s][i]
    <3>1. PICK i \in DOMAIN offered[s] :
            IsTightest(offered[s], i) /\ session[s].best_fix = offered[s][i]
      BY <2>3
    <3>2. offered[s][i] \in Fix /\ i \in 1 .. Len(offered[s])
      BY <1>2, <3>1
    <3>3. session[s].best_fix # NoFix
      BY <3>1, <3>2, SessionConstants
    <3>4. CASE fix.sigma < offered[s][i].sigma
      <4>1. session'[s].best_fix = fix
        BY <1>1, <3>1, <3>4 DEF Replaces, SessionInner
      <4>2. IsTightest(offered'[s], Len(offered[s]) + 1)
        BY <1>2, <2>1, <3>1, <3>4, TightestOfLonger
      <4>3. /\ Len(offered[s]) + 1 \in DOMAIN offered'[s]
            /\ offered'[s][Len(offered[s]) + 1] = fix
        BY <1>2, <2>1
      <4>4. QED
        BY <4>1, <4>2, <4>3 DEF BestIsTightest
    <3>5. CASE ~ (fix.sigma < offered[s][i].sigma)
      <4>1. session'[s].best_fix = offered[s][i]
        BY <1>1, <3>1, <3>3, <3>5 DEF Replaces
      <4>2. IsTightest(offered'[s], i)
        BY <1>2, <2>1, <3>1, <3>5, TightestOfLonger
      <4>3. i \in DOMAIN offered'[s] /\ offered'[s][i] = offered[s][i]
        BY <1>2, <2>1, <3>2
      <4>4. QED
        BY <4>1, <4>2, <4>3 DEF BestIsTightest
    <3>6. QED
      BY <3>4, <3>5
  <2>4. QED
    BY <2>2, <2>3 DEF SInv, BestIsTightest
<1>8. \A t \in Sessions : t # s => BestIsTightest(t)'
  BY <1>4 DEF SInv, BestIsTightest
<1>9. QED
  BY <1>2, <1>3, <1>4, <1>6, <1>7, <1>8

LEMMA CallNextKeepsSInv == ASSUME SInv, SCallNext PROVE SInv'
<1>1. CASE \E s \in Sessions : Calls(s) /\ Collects(s)
  <2>1. PICK s \in Sessions : Calls(s) /\ Collects(s)
    BY <1>1
  <2>2. Collect(s, pump.fix) /\ pump.fix \in Fix /\ CallNext /\ UNCHANGED handle
    BY <1>1, <2>1 DEF SCallNext, Calls, SInv, TypeInv
  <2>3. /\ session' \in [Sessions -> SessionInner]
        /\ offered' \in [Sessions -> Seq(Fix)]
        /\ \A t \in Sessions : session'[t].held = session[t].held
        /\ \A t \in Sessions : BestIsTightest(t)' /\ AcceptedIsBest(t)'
    BY <2>1, <2>2, CollectKeepsSessions
  <2>4. TypeInv'
    BY <2>2, <2>3, PumpStepTypes
  <2>5. HoldersHaveEngine'
    BY <2>2, <2>3 DEF SInv, HoldersHaveEngine, CallNext
  <2>6. QED
    BY <2>3, <2>4, <2>5 DEF SInv
<1>2. CASE ~ \E s \in Sessions : Calls(s) /\ Collects(s)
  <2>1. CallNext /\ UNCHANGED <<session, offered, handle>>
    BY <1>2 DEF SCallNext
  <2>2. TypeInv'
    BY <2>1, PumpStepTypes DEF SInv, TypeInv
  <2>3. QED
    BY <2>1, <2>2, OthersKeepSInv DEF CallNext
<1>3. QED
  BY <1>1, <1>2

\* A call that changes the session s alone, and neither its best fix nor what
\* it was offered.
LEMMA OperatorsCallKeepsSInv ==
  ASSUME SInv, NEW s \in Sessions, NEW inner \in SessionInner,
         session' = [session EXCEPT ![s] = inner],
         inner.best_fix = session[s].best_fix,
         inner.state = "Accepted" <=> inner.accepted_fix # NoFix,
         inner.accepted_fix # NoFix => inner.accepted_fix = inner.best_fix,
         TypeInv', HoldersHaveEngine', UNCHANGED offered
  PROVE  SInv'
<1>1. session \in [Sessions -> SessionInner]
  BY DEF SInv, TypeInv
<1>2. session'[s] = inner /\ \A t \in Sessions : t # s => session'[t] = session[t]
  BY <1>1
<1>3. \A t \in Sessions : BestIsTightest(t)'
  BY <1>2 DEF SInv, BestIsTightest
<1>4. \A t \in Sessions : AcceptedIsBest(t)'
  BY <1>2 DEF SInv, AcceptedIsBest
<1>5. QED
  BY <1>3, <1>4 DEF SInv

LEMMA NewKeepsSInv == ASSUME SInv, NEW s \in Sessions, New(s) PROVE SInv'
<1> DEFINE inner == [session[s] EXCEPT !.state = "Idle", !.held = TRUE]
<1>1. session \in [Sessions -> SessionInner] /\ session[s] \in SessionInner
  BY DEF SInv, TypeInv
<1>2. session' = [session EXCEPT ![s] = inner] /\ session[s].state = "None"
  BY <1>1 DEF New, SessionInner
<1>3. inner \in SessionInner
  BY <1>1 DEF SessionInner, State
<1>4. TypeInv'
  <2>1. subscribers' \in Seq(Subscribers)
    BY SessionConstants DEF SInv, TypeInv, New, Subscribe
  <2>2. session' \in [Sessions -> SessionInner]
    BY <1>1, <1>2, <1>3
  <2>3. QED
    BY <2>1, <2>2 DEF SInv, TypeInv, New, Subscribe
<1>5. HoldersHaveEngine'
  BY DEF New, Subscribe, HoldersHaveEngine
<1>6. /\ inner.best_fix = session[s].best_fix /\ inner.state = "Idle"
      /\ inner.accepted_fix = session[s].accepted_fix
  BY <1>1 DEF SessionInner
<1>7. session[s].accepted_fix = NoFix
  BY <1>2 DEF SInv, AcceptedIsBest
<1> HIDE DEF inner
<1>8. QED
  BY <1>2, <1>3, <1>4, <1>5, <1>6, <1>7, OperatorsCallKeepsSInv DEF New

LEMMA MovesKeepSInv ==
  ASSUME SInv, NEW s \in Sessions, NEW from, NEW to \in State \ {"Accepted"},
         "Accepted" \notin from, Moves(s, from, to)
  PROVE  SInv'
<1> DEFINE inner == [session[s] EXCEPT !.state = to]
<1>1. session \in [Sessions -> SessionInner] /\ session[s] \in SessionInner
  BY DEF SInv, TypeInv
<1>2. /\ session' = [session EXCEPT ![s] = inner]
      /\ session[s].state # "Accepted" /\ session[s].held
      /\ UNCHANGED <<pvars, handle, offered>>
  BY <1>1 DEF Moves, SessionInner
<1>3. inner \in SessionInner
  BY <1>1 DEF SessionInner
<1>4. TypeInv'
  BY <1>1, <1>2, <1>3 DEF SInv, TypeInv, pvars
<1>5. HoldersHaveEngine'
  BY <1>2 DEF SInv, HoldersHaveEngine, pvars
<1>6. /\ inner.best_fix = session[s].best_fix /\ inner.state = to
      /\ inner.accepted_fix = session[s].accepted_fix
  BY <1>1 DEF SessionInner
<1>7. session[s].accepted_fix = NoFix
  BY <1>2 DEF SInv, AcceptedIsBest
<1> HIDE DEF inner
<1>8. QED
  BY <1>2, <1>3, <1>4, <1>5, <1>6, <1>7, OperatorsCallKeepsSInv

LEMMA AcceptKeepsSInv == ASSUME SInv, NEW s \in Sessions, Accept(s) PROVE SInv'
<1> DEFINE inner == [session[s] EXCEPT !.state = "Accepted",
                                       !.accepted_fix = session[s].best_fix]
<1>1. session \in [Sessions -> SessionInner] /\ session[s] \in SessionInner
  BY DEF SInv, TypeInv
<1>2. /\ session' = [session EXCEPT ![s] = inner]
      /\ session[s].best_fix # NoFix /\ session[s].held
      /\ UNCHANGED <<pvars, handle, offered>>
  BY <1>1 DEF Accept, SessionInner
<1>3. inner \in SessionInner
  BY <1>1 DEF SessionInner, State
<1>4. TypeInv'
  BY <1>1, <1>2, <1>3 DEF SInv, TypeInv, pvars
<1>5. HoldersHaveEngine'
  BY <1>2 DEF SInv, HoldersHaveEngine, pvars
<1>6. /\ inner.best_fix = session[s].best_fix /\ inner.state = "Accepted"
      /\ inner.accepted_fix = session[s].best_fix
  BY <1>1 DEF SessionInner
<1> HIDE DEF inner
<1>7. QED
  BY <1>2, <1>3, <1>4, <1>5, <1>6, OperatorsCallKeepsSInv

LEMMA ReleaseSessionKeepsSInv ==
  ASSUME SInv, NEW s \in Sessions, ReleaseSession(s) PROVE SInv'
<1> DEFINE inner == [session[s] EXCEPT !.held = FALSE]
<1>1. session \in [Sessions -> SessionInner] /\ session[s] \in SessionInner
  BY DEF SInv, TypeInv
<1>2. /\ session' = [session EXCEPT ![s] = inner] /\ session[s].held
      /\ UNCHANGED <<published, channel, subscribers, pump, handle, offered>>
  BY <1>1 DEF ReleaseSession, Release, SessionInner
<1>3. inner \in SessionInner
  BY <1>1 DEF SessionInner
<1>4. /\ inner.best_fix = session[s].best_fix /\ inner.state = session[s].state
      /\ inner.accepted_fix = session[s].accepted_fix /\ ~ inner.held
  BY <1>1 DEF SessionInner
<1> HIDE DEF inner
<1>5. engine = "held" /\ engine' \in {"held", "joining"}
  BY <1>2 DEF SInv, HoldersHaveEngine, ReleaseSession, Release
<1>6. TypeInv'
  BY <1>1, <1>2, <1>3, <1>5 DEF SInv, TypeInv
<1>7. HoldersHaveEngine'
  <2>1. SUFFICES ASSUME handle' \/ \E t \in Sessions : session'[t].held
                 PROVE  handle \/ \E t \in Sessions \ {s} : session[t].held
    BY <1>5 DEF HoldersHaveEngine, ReleaseSession, Release
  <2>2. \A t \in Sessions : session'[t].held => t # s /\ session[t].held
    BY <1>1, <1>2, <1>4
  <2>3. QED
    BY <1>2, <2>1, <2>2
<1>8. /\ inner.state = "Accepted" <=> inner.accepted_fix # NoFix
      /\ inner.accepted_fix # NoFix => inner.accepted_fix = inner.best_fix
  BY <1>4 DEF SInv, AcceptedIsBest
<1>9. QED
  BY <1>2, <1>3, <1>4, <1>6, <1>7, <1>8, OperatorsCallKeepsSInv

LEMMA EngineStepKeepsSInv ==
  ASSUME SInv, UNCHANGED <<session, handle, offered>>,
         \/ \E sigma \in Sigmas : Publish(sigma)
         \/ \E s \in Subscribers : Subscribe(s)
         \/ \E s \in Subscribers : Throw(s)
         \/ JoinReturns
  PROVE  SInv'
<1>1. CASE \E sigma \in Sigmas : Publish(sigma)
  <2>1. PICK sigma \in Sigmas : Publish(sigma)
    BY <1>1
  <2>2. [number |-> Len(published) + 1, sigma |-> sigma] \in Fix
    BY FixPumpConstants, <2>1 DEF SInv, TypeInv, Publish, Fix
  <2>3. published' \in Seq(Fix) /\ channel' \in Seq(Fix)
    BY <2>1, <2>2 DEF SInv, TypeInv, Publish
  <2>4. TypeInv'
    BY <2>1, <2>3 DEF SInv, TypeInv, Publish
  <2>5. QED
    BY <2>1, <2>4, OthersKeepSInv DEF Publish
<1>2. CASE \E s \in Subscribers : Subscribe(s)
  <2>1. PICK s \in Subscribers : Subscribe(s)
    BY <1>2
  <2>2. subscribers' \in Seq(Subscribers)
    BY <2>1 DEF SInv, TypeInv, Subscribe
  <2>3. TypeInv'
    BY <2>1, <2>2 DEF SInv, TypeInv, Subscribe
  <2>4. QED
    BY <2>1, <2>3, OthersKeepSInv DEF Subscribe
<1>3. CASE \E s \in Subscribers : Throw(s)
  <2>1. PICK s \in Subscribers : Throw(s)
    BY <1>3
  <2>2. pump' = [pc |-> "done", fix |-> <<>>, todo |-> <<>>] /\ channel' = <<>>
    BY <2>1 DEF Throw, Done, Idle
  <2>3. channel' \in Seq(Fix) /\ <<>> \in Seq(Subscribers)
    BY <2>2
  <2>4. TypeInv'
    BY <2>1, <2>2, <2>3 DEF SInv, TypeInv, Throw
  <2>5. QED
    BY <2>1, <2>4, OthersKeepSInv DEF Throw
<1>4. CASE JoinReturns
  <2>1. TypeInv'
    BY <1>4 DEF SInv, TypeInv, JoinReturns
  <2>2. engine # "held"
    BY <1>4 DEF JoinReturns
  <2>3. QED
    BY <2>1, <2>2, OthersKeepSInv
<1>5. QED
  BY <1>1, <1>2, <1>3, <1>4

LEMMA NextKeepsSInv == ASSUME SInv, [SNext]_vars PROVE SInv'
<1>1. CASE SCallNext
  BY <1>1, CallNextKeepsSInv
<1>2. CASE (Receive \/ Snapshot) /\ UNCHANGED <<session, handle, offered>>
  <2>1. TypeInv'
    BY <1>2, PumpStepTypes DEF SInv, TypeInv
  <2>2. engine' = engine
    BY <1>2 DEF Receive, Snapshot
  <2>3. QED
    BY <1>2, <2>1, <2>2, OthersKeepSInv
<1>3. CASE /\ \/ \E sigma \in Sigmas : Publish(sigma)
              \/ \E s \in Subscribers \ Sessions : handle /\ Subscribe(s)
              \/ Callback
              \/ JoinReturns
           /\ UNCHANGED <<session, handle, offered>>
  BY <1>3, EngineStepKeepsSInv DEF Callback
<1>4. CASE ReleaseHandle
  <2>1. engine = "held" /\ engine' \in {"held", "joining"}
    BY <1>4 DEF SInv, HoldersHaveEngine, ReleaseHandle, Release
  <2>2. TypeInv'
    BY <1>4, <2>1 DEF SInv, TypeInv, ReleaseHandle, Release
  <2>3. HoldersHaveEngine'
    BY <1>4, <2>1 DEF HoldersHaveEngine, ReleaseHandle, Release
  <2>4. \A s \in Sessions : BestIsTightest(s)' /\ AcceptedIsBest(s)'
    BY <1>4 DEF SInv, BestIsTightest, AcceptedIsBest, ReleaseHandle, Release
  <2>5. QED
    BY <2>2, <2>3, <2>4 DEF SInv
<1>5. CASE \E s \in Sessions : New(s)
  BY <1>5, NewKeepsSInv
<1>6. CASE \E s \in Sessions : Start(s) \/ Stop(s) \/ Abandon(s)
  BY <1>6, MovesKeepSInv DEF Start, Stop, Abandon, State
<1>7. CASE \E s \in Sessions : Accept(s)
  BY <1>7, AcceptKeepsSInv
<1>8. CASE \E s \in Sessions : ReleaseSession(s)
  BY <1>8, ReleaseSessionKeepsSInv
<1>9. CASE \E s \in Sessions : Engine(s)
  <2>1. TypeInv'
    BY <1>9 DEF SInv, TypeInv, Engine, pvars
  <2>2. QED
    BY <1>9, <2>1, OthersKeepSInv DEF Engine, pvars
<1>10. CASE UNCHANGED vars
  <2>1. TypeInv'
    BY <1>10 DEF SInv, TypeInv, vars, pvars
  <2>2. QED
    BY <1>10, <2>1, OthersKeepSInv DEF vars, pvars
<1>11. QED
  BY <1>1, <1>2, <1>3, <1>4, <1>5, <1>6, <1>7, <1>8, <1>9, <1>10 DEF SNext, SPump

LEMMA InvariantOfSpec == SSpec => []SInv
<1>1. SInv /\ [SNext]_vars => SInv'
  BY NextKeepsSInv
<1>2. QED
  BY InitSInv, <1>1, PTL DEF SSpec

-----------------------------------------------------------------------------
\* For any number of sessions, subscribers and fixes, and every order of the
\* operator's calls and the pump's: the best fix of a session is the tightest
\* of all it heard while Active, and so is the fix it accepts.
THEOREM SessionAcceptsTheTightest == SSpec => []AcceptedIsTightest
<1>1. SInv => AcceptedIsTightest
  <2>1. SUFFICES ASSUME SInv, NEW s \in Sessions
                 PROVE  session[s].best_fix = Tightest(offered[s])
    BY DEF SInv, AcceptedIsBest, AcceptedIsTightest
  <2>2. offered[s] \in Seq(Fix)
    BY <2>1 DEF SInv, TypeInv
  <2>3. CASE offered[s] = <<>> /\ session[s].best_fix = NoFix
    BY <2>3 DEF Tightest
  <2>4. CASE \E i \in DOMAIN offered[s] :
               IsTightest(offered[s], i) /\ session[s].best_fix = offered[s][i]
    BY <2>2, <2>4, TightestIsUnique
  <2>5. QED
    BY <2>1, <2>3, <2>4 DEF SInv, BestIsTightest
<1>2. QED
  BY <1>1, InvariantOfSpec, PTL

\* An accepted or abandoned session changes no more, whatever the pump still
\* delivers and whatever the operator still calls.
THEOREM DecisionIsFinal == SSpec => TerminalIsFinal
<1> DEFINE Final(s) ==
      Terminated(s) => session'[s] = [session[s] EXCEPT !.held = session'[s].held]
<1>1. ASSUME SInv, [SNext]_vars PROVE \A s \in Sessions : Final(s)
  <2>1. SUFFICES ASSUME NEW s \in Sessions, Terminated(s)
                 PROVE  session'[s] = [session[s] EXCEPT !.held = session'[s].held]
    OBVIOUS
  <2>2. session \in [Sessions -> SessionInner] /\ session[s] \in SessionInner
    BY <1>1, <2>1 DEF SInv, TypeInv
  <2>3. session[s].state \in {"Accepted", "Abandoned"}
    BY <2>1 DEF Terminated
  <2>4. CASE session'[s] = session[s]
    BY <2>2, <2>4 DEF SessionInner
  <2>5. CASE SCallNext
    <3>1. ~ Collects(s)
      BY <2>3 DEF Collects
    <3>2. CASE \E t \in Sessions : Calls(t) /\ Collects(t)
      <4>1. PICK t \in Sessions : Calls(t) /\ Collects(t)
        BY <3>2
      <4>2. Collect(t, pump.fix) /\ t # s
        BY <2>5, <3>1, <3>2, <4>1 DEF SCallNext, Calls
      <4>3. session'[s] = session[s]
        BY <2>2, <4>2 DEF Collect
      <4>4. QED
        BY <2>4, <4>3
    <3>3. CASE ~ \E t \in Sessions : Calls(t) /\ Collects(t)
      BY <2>4, <2>5, <3>3 DEF SCallNext
    <3>4. QED
      BY <3>2, <3>3
  <2>6. CASE UNCHANGED session
    BY <2>4, <2>6
  <2>7. CASE \E t \in Sessions :
               New(t) \/ Start(t) \/ Stop(t) \/ Accept(t) \/ Abandon(t)
    <3>1. PICK t \in Sessions :
            New(t) \/ Start(t) \/ Stop(t) \/ Accept(t) \/ Abandon(t)
      BY <2>7
    <3>2. session[t].state \notin {"Accepted", "Abandoned"}
      BY <3>1 DEF New, Start, Stop, Accept, Abandon, Moves
    <3>3. session'[s] = session[s]
      BY <2>2, <2>3, <3>1, <3>2 DEF New, Start, Stop, Accept, Abandon, Moves
    <3>4. QED
      BY <2>4, <3>3
  <2>8. CASE \E t \in Sessions : ReleaseSession(t)
    <3>1. PICK t \in Sessions : session' = [session EXCEPT ![t].held = FALSE]
      BY <2>8 DEF ReleaseSession
    <3>2. QED
      BY <2>2, <3>1 DEF SessionInner
  <2>9. QED
    BY <1>1, <2>5, <2>6, <2>7, <2>8
    DEF SNext, SPump, Callback, ReleaseHandle, Engine, vars
<1>2. SInv /\ [SNext]_vars => [\A s \in Sessions : Final(s)]_vars
  BY <1>1
<1>3. QED
  BY <1>2, InvariantOfSpec, PTL DEF SSpec, TerminalIsFinal

\* A call on a held session or engine never finds the engine being dropped.
THEOREM NoCallOnADroppedEngine == SSpec => []HoldersHaveEngine
<1>1. SInv => HoldersHaveEngine
  BY DEF SInv
<1>2. QED
  BY <1>1, InvariantOfSpec, PTL

-----------------------------------------------------------------------------
(* The streams.  While the pump lives, what a subscriber has heard ends      *)
(* just before NextFix(s), the number of the next fix the pump may call it    *)
(* with; a subscriber that has heard nothing yet subscribed no earlier than   *)
(* the fix before that was published.                                      *)

\* The fixes the pump has taken off the channel, by number.
Received == Len(published) - Len(channel)

\* The pump has a fix in hand that it has yet to call s with.
Pending(s) ==
  pump.pc = "received" \/ (pump.pc = "calling" /\ Contains(pump.todo, s))

NextFix(s) == IF Pending(s) THEN Received ELSE Received + 1

Stretch(s, first) ==
  \A i \in 1 .. Len(heard[s]) : heard[s][i] = published[first + i - 1]

Begins(s, first) ==
  /\ first \in 1 .. since[s] + 1
  /\ first + Len(heard[s]) <= Len(published) + 1
  /\ Stretch(s, first)

PumpRuns == pump.pc \in {"recv", "received", "calling"}

ChannelIsRest ==
  /\ Len(channel) <= Len(published)
  /\ pump.pc # "done" =>
       \A i \in 1 .. Len(channel) : channel[i] = published[Received + i]
  /\ pump.pc \in {"received", "calling"} =>
       Received >= 1 /\ pump.fix = published[Received]

Lists ==
  /\ IsInjective(subscribers)
  /\ pump.pc = "calling" =>
       IsInjective(pump.todo) /\ \A s \in Subscribers : Contains(pump.todo, s) => Contains(subscribers, s)

StreamOf(s) ==
  /\ since[s] <= Len(published)
  /\ PumpRuns /\ heard[s] # <<>> => Contains(subscribers, s)
  /\ PumpRuns /\ Contains(subscribers, s) => Begins(s, NextFix(s) - Len(heard[s]))
  /\ \E first \in 1 .. since[s] + 1 : Begins(s, first)

StreamInv ==
  /\ heard \in [Subscribers -> Seq(Fix)]
  /\ since \in [Subscribers -> Nat]
  /\ ChannelIsRest
  /\ Lists
  /\ \A s \in Subscribers : StreamOf(s)

LEMMA InitStreamInv == SInit => StreamInv
<1> SUFFICES ASSUME SInit PROVE StreamInv
  OBVIOUS
<1>1. /\ published = <<>> /\ channel = <<>> /\ subscribers = <<>>
      /\ pump.pc = "recv"
      /\ heard = [s \in Subscribers |-> <<>>] /\ since = [s \in Subscribers |-> 0]
  BY DEF SInit, FInit, Idle
<1>2. ChannelIsRest
  BY <1>1 DEF ChannelIsRest
<1>3. Lists
  BY <1>1 DEF Lists, IsInjective
<1>4. \A s \in Subscribers : StreamOf(s)
  <2>1. TAKE s \in Subscribers
  <2>2. heard[s] = <<>> /\ since[s] = 0 /\ ~ Contains(subscribers, s)
    BY <1>1 DEF Contains
  <2>3. 1 \in 1 .. since[s] + 1 /\ Begins(s, 1)
    BY <1>1, <2>2 DEF Begins, Stretch
  <2>4. QED
    BY <1>1, <2>2, <2>3 DEF StreamOf
<1>5. QED
  BY <1>1, <1>2, <1>3, <1>4 DEF StreamInv

\* A stretch of what was published stays one when more is published.
LEMMA StretchesStay ==
  ASSUME TypeInv, TypeInv', StreamInv, NEW s \in Subscribers, NEW first,
         Begins(s, first), heard' = heard,
         since'[s] \in Nat, since'[s] >= since[s],
         Len(published') >= Len(published),
         \A i \in 1 .. Len(published) : published'[i] = published[i]
  PROVE  Begins(s, first)'
<1>1. /\ since[s] \in Nat /\ Len(heard[s]) \in Nat
      /\ Len(published) \in Nat /\ Len(published') \in Nat
  BY DEF TypeInv, StreamInv
<1>2. /\ first \in 1 .. since[s] + 1 /\ first + Len(heard[s]) <= Len(published) + 1
      /\ \A i \in 1 .. Len(heard[s]) : heard[s][i] = published[first + i - 1]
  BY DEF Begins, Stretch
<1>3. first \in 1 .. since'[s] + 1 /\ first + Len(heard'[s]) <= Len(published') + 1
  BY <1>1, <1>2
<1>4. ASSUME NEW i \in 1 .. Len(heard[s]) PROVE first + i - 1 \in 1 .. Len(published)
  BY <1>1, <1>2, <1>4
<1>5. \A i \in 1 .. Len(heard'[s]) : heard'[s][i] = published'[first + i - 1]
  BY <1>2, <1>4
<1>6. QED
  BY <1>3, <1>5 DEF Begins, Stretch

\* A step that calls nobody, moves no subscriber's next fix and lets nobody in.
LEMMA QuietStepsKeepStreams ==
  ASSUME TypeInv, TypeInv', StreamInv, heard' = heard, since' = since,
         Len(published') >= Len(published),
         \A i \in 1 .. Len(published) : published'[i] = published[i],
         PumpRuns' => PumpRuns /\ subscribers' = subscribers,
         \A s \in Subscribers : PumpRuns' /\ Contains(subscribers, s)
                                  => NextFix(s)' = NextFix(s)
  PROVE  \A s \in Subscribers : StreamOf(s)'
<1> SUFFICES ASSUME NEW s \in Subscribers PROVE StreamOf(s)'
  OBVIOUS
<1>1. /\ since[s] \in Nat /\ Len(published) \in Nat /\ Len(published') \in Nat
      /\ since'[s] = since[s] /\ heard'[s] = heard[s] /\ StreamOf(s)
  BY DEF TypeInv, StreamInv
<1>2. since'[s] <= Len(published')
  BY <1>1 DEF StreamOf
<1>3. PumpRuns' /\ heard'[s] # <<>> => Contains(subscribers', s)
  BY <1>1 DEF StreamOf
<1>4. ASSUME PumpRuns', Contains(subscribers', s)
      PROVE  Begins(s, NextFix(s) - Len(heard[s]))'
  <2>1. PICK first : first = NextFix(s) - Len(heard[s])
    OBVIOUS
  <2>2. Begins(s, first)
    BY <1>1, <1>4, <2>1 DEF StreamOf
  <2>3. Begins(s, first)'
    BY <1>1, <2>2, StretchesStay
  <2>4. first = (NextFix(s) - Len(heard[s]))'
    BY <1>4, <2>1
  <2>5. QED
    BY <2>3, <2>4 DEF Begins, Stretch
<1>5. \E first \in 1 .. since'[s] + 1 : Begins(s, first)'
  <2>1. PICK first \in 1 .. since[s] + 1 : Begins(s, first)
    BY <1>1 DEF StreamOf
  <2>2. Begins(s, first)'
    BY <1>1, <2>1, StretchesStay
  <2>3. QED
    BY <1>1, <2>2
<1>6. QED
  BY <1>2, <1>3, <1>4, <1>5 DEF StreamOf

LEMMA PublishKeepsStreams ==
  ASSUME TypeInv, TypeInv', StreamInv, NEW sigma \in Sigmas, Publish(sigma)
  PROVE  StreamInv'
<1> DEFINE fix == [number |-> Len(published) + 1, sigma |-> sigma]
<1>1. /\ published \in Seq(Fix) /\ channel \in Seq(Fix)
      /\ published' = Append(published, fix)
      /\ channel' = IF pump.pc = "done" THEN channel ELSE Append(channel, fix)
      /\ UNCHANGED <<subscribers, pump, heard, since>>
  BY DEF TypeInv, Publish
<1> HIDE DEF fix
<1>2. /\ Len(published') = Len(published) + 1 /\ Len(published) \in Nat
      /\ \A i \in 1 .. Len(published) : published'[i] = published[i]
      /\ published'[Len(published) + 1] = fix
  BY <1>1
<1>3. CASE pump.pc = "done"
  <2>1. channel' = channel /\ Len(channel) \in Nat
    BY <1>1, <1>3
  <2>2. ChannelIsRest'
    BY <1>1, <1>2, <1>3, <2>1 DEF StreamInv, ChannelIsRest
  <2>3. Lists'
    BY <1>1 DEF StreamInv, Lists
  <2>4. \A s \in Subscribers : StreamOf(s)'
    BY <1>1, <1>2, <1>3, QuietStepsKeepStreams DEF PumpRuns
  <2>5. QED
    BY <1>1, <2>2, <2>3, <2>4 DEF StreamInv
<1>4. CASE pump.pc # "done"
  <2>1. /\ channel' = Append(channel, fix) /\ Len(channel') = Len(channel) + 1
        /\ Len(channel) \in Nat /\ channel'[Len(channel) + 1] = fix
        /\ \A i \in 1 .. Len(channel) : channel'[i] = channel[i]
    BY <1>1, <1>4
  <2>2. Received' = Received /\ Received \in Nat
    BY <1>2, <2>1 DEF Received, StreamInv, ChannelIsRest
  <2>3. Received + Len(channel) = Len(published)
    BY <1>2, <2>1 DEF Received
  <2>4. ASSUME NEW i \in 1 .. Len(channel')
        PROVE  channel'[i] = published'[Received' + i]
    <3>1. CASE i = Len(channel) + 1
      BY <1>2, <2>1, <2>2, <2>3, <3>1
    <3>2. CASE i \in 1 .. Len(channel)
      <4>1. channel[i] = published[Received + i]
        BY <1>4, <3>2 DEF StreamInv, ChannelIsRest
      <4>2. Received + i \in 1 .. Len(published)
        BY <1>2, <2>1, <2>2, <2>3, <3>2
      <4>3. QED
        BY <1>2, <2>1, <2>2, <3>2, <4>1, <4>2
    <3>3. QED
      BY <2>1, <2>4, <3>1, <3>2
  <2>5. ASSUME pump.pc \in {"received", "calling"}
        PROVE  Received' >= 1 /\ pump'.fix = published'[Received']
    <3>1. Received >= 1 /\ pump.fix = published[Received]
      BY <2>5 DEF StreamInv, ChannelIsRest
    <3>2. Received \in 1 .. Len(published)
      BY <1>2, <2>1, <2>2, <2>3, <3>1
    <3>3. QED
      BY <1>1, <1>2, <2>2, <3>1, <3>2
  <2>6. ChannelIsRest'
    <3>1. Len(channel') <= Len(published')
      BY <1>2, <2>1 DEF StreamInv, ChannelIsRest
    <3>2. \A i \in 1 .. Len(channel') : channel'[i] = published'[Received' + i]
      BY <2>4
    <3>3. pump'.pc \in {"received", "calling"}
            => Received' >= 1 /\ pump'.fix = published'[Received']
      BY <1>1, <2>5
    <3>4. QED
      BY <3>1, <3>2, <3>3 DEF ChannelIsRest
  <2>7. Lists'
    BY <1>1 DEF StreamInv, Lists
  <2>8. \A s \in Subscribers : NextFix(s)' = NextFix(s)
    BY <1>1, <2>2 DEF NextFix, Pending
  <2>9. \A s \in Subscribers : StreamOf(s)'
    BY <1>1, <1>2, <2>8, QuietStepsKeepStreams DEF PumpRuns
  <2>10. QED
    BY <1>1, <2>6, <2>7, <2>9 DEF StreamInv
<1>5. QED
  BY <1>3, <1>4

LEMMA SubscribeKeepsStreams ==
  ASSUME TypeInv, TypeInv', StreamInv, NEW t \in Subscribers, Subscribe(t)
  PROVE  StreamInv'
<1>1. /\ subscribers \in Seq(Subscribers) /\ ~ Contains(subscribers, t)
      /\ subscribers' = Append(subscribers, t)
      /\ since' = [since EXCEPT ![t] = Len(published)]
      /\ UNCHANGED <<published, channel, pump, heard>>
      /\ Len(published) \in Nat /\ Len(channel) \in Nat
  BY DEF TypeInv, Subscribe
<1>2. /\ since \in [Subscribers -> Nat] /\ since' \in [Subscribers -> Nat]
      /\ since'[t] = Len(published)
      /\ \A s \in Subscribers : s # t => since'[s] = since[s]
  BY <1>1 DEF StreamInv
<1>3. \A s : Contains(subscribers', s) <=> Contains(subscribers, s) \/ s = t
  BY <1>1 DEF Contains
<1>4. ChannelIsRest' /\ Received' = Received
  BY <1>1 DEF StreamInv, ChannelIsRest, Received
<1>5. IsInjective(subscribers')
  BY <1>1 DEF StreamInv, Lists, IsInjective, Contains
<1>6. Lists'
  BY <1>1, <1>3, <1>5 DEF StreamInv, Lists
<1>7. \A s \in Subscribers : StreamOf(s)'
  <2>1. TAKE s \in Subscribers
  <2>2. since'[s] >= since[s] /\ since'[s] <= Len(published')
    BY <1>1, <1>2 DEF StreamInv, StreamOf
  <2>3. \A first : Begins(s, first) => Begins(s, first)'
    BY <1>1, <1>2, <2>2, StretchesStay
  <2>4. \E first \in 1 .. since'[s] + 1 : Begins(s, first)'
    BY <2>3 DEF StreamInv, StreamOf, Begins
  <2>5. ASSUME PumpRuns', Contains(subscribers', s)
        PROVE  Begins(s, NextFix(s) - Len(heard[s]))'
    <3>1. PICK first : first = NextFix(s) - Len(heard[s])
      OBVIOUS
    <3>2. first = (NextFix(s) - Len(heard[s]))' /\ PumpRuns
      BY <1>1, <1>4, <2>5, <3>1 DEF NextFix, Pending, PumpRuns
    <3>3. CASE Contains(subscribers, s)
      <4>1. Begins(s, first)'
        BY <2>3, <3>1, <3>2, <3>3 DEF StreamInv, StreamOf
      <4>2. QED
        BY <3>2, <4>1 DEF Begins, Stretch
    <3>4. CASE s = t
      <4>1. heard[s] = <<>>
        BY <1>1, <3>2, <3>4 DEF StreamInv, StreamOf
      <4>2. first = NextFix(s) /\ Len(heard[s]) = 0
        BY <1>1, <3>1, <4>1, <3>4, <1>4 DEF NextFix, Received
      <4>3. first \in 1 .. Len(published) + 1
        BY <1>1, <4>2 DEF NextFix, Pending, Received, StreamInv, ChannelIsRest
      <4>4. Begins(s, first)'
        BY <1>1, <1>2, <3>4, <4>2, <4>3 DEF Begins, Stretch
      <4>5. QED
        BY <3>2, <4>4 DEF Begins, Stretch
    <3>5. QED
      BY <1>3, <2>5, <3>3, <3>4
  <2>6. PumpRuns' /\ heard'[s] # <<>> => Contains(subscribers', s)
    BY <1>1, <1>3 DEF PumpRuns, StreamInv, StreamOf
  <2>7. QED
    BY <2>2, <2>4, <2>5, <2>6 DEF StreamOf
<1>8. QED
  BY <1>1, <1>2, <1>4, <1>6, <1>7 DEF StreamInv

LEMMA ReceiveKeepsStreams ==
  ASSUME TypeInv, TypeInv', StreamInv, Receive
  PROVE  StreamInv'
<1>1. /\ pump.pc = "recv" /\ UNCHANGED <<published, heard, since>>
      /\ channel \in Seq(Fix) /\ Len(channel) \in Nat /\ Len(published) \in Nat
  BY DEF TypeInv, Receive
<1>2. CASE channel # <<>>
  <2>1. /\ channel' = Tail(channel) /\ subscribers' = subscribers
        /\ pump'.pc = "received" /\ pump'.fix = Head(channel)
    BY <1>2 DEF Receive, Idle
  <2>2. /\ Len(channel) >= 1 /\ Len(channel') = Len(channel) - 1
        /\ \A i \in 1 .. Len(channel') : channel'[i] = channel[i + 1]
        /\ Head(channel) = channel[1]
    BY <1>1, <1>2, <2>1
  <2>3. /\ Received' = Received + 1 /\ Received \in Nat
        /\ Len(channel) <= Len(published)
        /\ \A i \in 1 .. Len(channel) : channel[i] = published[Received + i]
    BY <1>1, <2>2 DEF Received, StreamInv, ChannelIsRest
  <2>4. ChannelIsRest'
    <3>1. Len(channel') <= Len(published')
      BY <1>1, <2>2, <2>3
    <3>2. ASSUME NEW i \in 1 .. Len(channel')
          PROVE  channel'[i] = published'[Received' + i]
      <4>1. i + 1 \in 1 .. Len(channel) /\ Received + (i + 1) = Received' + i
        BY <1>1, <2>2, <2>3
      <4>2. QED
        BY <1>1, <2>2, <2>3, <4>1
    <3>3. Received' >= 1 /\ pump'.fix = published'[Received']
      BY <1>1, <2>1, <2>2, <2>3
    <3>4. QED
      BY <3>1, <3>2, <3>3 DEF ChannelIsRest
  <2>5. Lists'
    BY <2>1 DEF StreamInv, Lists
  <2>6. \A s \in Subscribers : NextFix(s)' = NextFix(s)
    BY <1>1, <2>1, <2>3 DEF NextFix, Pending
  <2>7. \A s \in Subscribers : StreamOf(s)'
    BY <1>1, <2>1, <2>6, QuietStepsKeepStreams DEF PumpRuns
  <2>8. QED
    BY <1>1, <2>4, <2>5, <2>7 DEF StreamInv
<1>3. CASE channel = <<>>
  <2>1. channel' = channel /\ subscribers' = <<>> /\ pump'.pc = "closing"
    BY <1>3 DEF Receive, Idle
  <2>2. ChannelIsRest'
    BY <1>1, <1>3, <2>1 DEF StreamInv, ChannelIsRest
  <2>3. Lists'
    BY <2>1 DEF Lists, IsInjective
  <2>4. \A s \in Subscribers : StreamOf(s)'
    BY <1>1, <2>1, QuietStepsKeepStreams DEF PumpRuns
  <2>5. QED
    BY <1>1, <2>2, <2>3, <2>4 DEF StreamInv
<1>4. QED
  BY <1>2, <1>3

LEMMA SnapshotKeepsStreams ==
  ASSUME TypeInv, TypeInv', StreamInv, Snapshot
  PROVE  StreamInv'
<1>1. /\ pump.pc = "received" /\ pump'.pc = "calling" /\ pump'.fix = pump.fix
      /\ pump'.todo = subscribers /\ Len(published) \in Nat
      /\ UNCHANGED <<published, channel, subscribers, heard, since>>
  BY DEF TypeInv, Snapshot
<1>2. ChannelIsRest' /\ Received' = Received
  BY <1>1 DEF StreamInv, ChannelIsRest, Received
<1>3. Lists'
  BY <1>1 DEF StreamInv, Lists
<1>4. \A s \in Subscribers : Contains(subscribers, s) => NextFix(s)' = NextFix(s)
  BY <1>1, <1>2 DEF NextFix, Pending
<1>5. \A s \in Subscribers : StreamOf(s)'
  BY <1>1, <1>4, QuietStepsKeepStreams DEF PumpRuns
<1>6. QED
  BY <1>1, <1>2, <1>3, <1>5 DEF StreamInv

\* The pump stops: its rounds are over, or a callback threw.
LEMMA StoppedPumpKeepsStreams ==
  ASSUME TypeInv, TypeInv', StreamInv,
         pump'.pc \in {"closing", "done"}, channel' = channel \/ channel' = <<>>,
         pump.pc = "done" => pump'.pc = "done",
         pump'.pc = "closing" => pump.pc = "closing" /\ channel' = channel,
         UNCHANGED <<published, subscribers, heard, since>>
  PROVE  StreamInv'
<1>1. Len(published) \in Nat /\ Len(channel) \in Nat
  BY DEF TypeInv
<1>2. ChannelIsRest'
  <2>1. Len(channel') <= Len(published')
    BY <1>1 DEF StreamInv, ChannelIsRest
  <2>2. pump'.pc # "done" =>
          \A i \in 1 .. Len(channel') : channel'[i] = published'[Received' + i]
    BY DEF StreamInv, ChannelIsRest, Received
  <2>3. QED
    BY <2>1, <2>2 DEF ChannelIsRest
<1>3. Lists'
  BY DEF StreamInv, Lists
<1>4. \A s \in Subscribers : StreamOf(s)'
  BY <1>1, QuietStepsKeepStreams DEF PumpRuns
<1>5. QED
  BY <1>2, <1>3, <1>4 DEF StreamInv

\* The pump calls t, the first of the snapshot it has yet to call.
LEMMA CallKeepsStreams ==
  ASSUME TypeInv, TypeInv', StreamInv, CallNext,
         pump.pc = "calling", pump.todo # <<>>
  PROVE  StreamInv'
<1>0. PICK t : t = Head(pump.todo)
  OBVIOUS
<1>1. /\ pump.todo \in Seq(Subscribers) /\ t \in Subscribers
      /\ published \in Seq(Fix) /\ Len(published) \in Nat /\ Len(channel) \in Nat
      /\ pump.fix \in Fix /\ heard \in [Subscribers -> Seq(Fix)]
      /\ since \in [Subscribers -> Nat]
  BY <1>0 DEF TypeInv, StreamInv
<1>2. /\ pump'.pc = "calling" /\ pump'.fix = pump.fix /\ pump'.todo = Tail(pump.todo)
      /\ heard' = [heard EXCEPT ![t] = Append(@, pump.fix)]
      /\ UNCHANGED <<published, channel, subscribers, since>>
  BY <1>0 DEF CallNext, TypeInv
<1>3. /\ Len(pump.todo) \in Nat \ {0} /\ t = pump.todo[1]
      /\ Len(Tail(pump.todo)) = Len(pump.todo) - 1
      /\ \A i \in 1 .. Len(pump.todo) - 1 : Tail(pump.todo)[i] = pump.todo[i + 1]
  BY <1>0, <1>1
<1>4. IsInjective(pump.todo) /\ DOMAIN pump.todo = 1 .. Len(pump.todo)
  BY <1>1 DEF StreamInv, Lists
<1>5. Contains(pump.todo, t) /\ ~ Contains(pump'.todo, t)
  BY <1>2, <1>3, <1>4 DEF Contains, IsInjective
<1>6. \A s : s # t => (Contains(pump'.todo, s) <=> Contains(pump.todo, s))
  <2>1. TAKE s
  <2>2. Contains(pump'.todo, s) => Contains(pump.todo, s)
    BY <1>2, <1>3 DEF Contains
  <2>3. ASSUME s # t, NEW i \in 1 .. Len(pump.todo), pump.todo[i] = s
        PROVE  Contains(pump'.todo, s)
    <3>1. i # 1
      BY <1>3, <2>3
    <3>2. i - 1 \in 1 .. Len(pump.todo) - 1 /\ (i - 1) + 1 = i
      BY <1>3, <2>3, <3>1
    <3>3. pump'.todo[i - 1] = s
      BY <1>2, <1>3, <2>3, <3>2
    <3>4. QED
      BY <1>2, <1>3, <3>2, <3>3 DEF Contains
  <2>4. QED
    BY <2>2, <2>3 DEF Contains
<1>7. /\ Contains(subscribers, t)
      /\ \A s \in Subscribers : Contains(pump'.todo, s) => Contains(subscribers, s)
  BY <1>1, <1>5, <1>6 DEF StreamInv, Lists
<1>8. IsInjective(pump'.todo)
  <2>1. DOMAIN pump'.todo = 1 .. Len(pump.todo) - 1
    BY <1>1, <1>2, <1>3
  <2>2. \A i \in 1 .. Len(pump.todo) - 1 : i + 1 \in 1 .. Len(pump.todo)
    BY <1>3
  <2>3. ASSUME NEW i \in DOMAIN pump'.todo, NEW j \in DOMAIN pump'.todo,
               pump'.todo[i] = pump'.todo[j]
        PROVE  i = j
    <3>1. i + 1 = j + 1
      BY <1>2, <1>3, <1>4, <2>1, <2>2, <2>3 DEF IsInjective
    <3>2. QED
      BY <1>3, <2>1, <2>3, <3>1
  <2>4. QED
    BY <2>3 DEF IsInjective
<1>9. Lists'
  BY <1>2, <1>7, <1>8 DEF StreamInv, Lists
<1>10. ChannelIsRest' /\ Received' = Received
  BY <1>2 DEF StreamInv, ChannelIsRest, Received
<1>11. /\ Received \in 1 .. Len(published) /\ pump.fix = published[Received]
  BY <1>1 DEF StreamInv, ChannelIsRest, Received
<1>12. ASSUME NEW s \in Subscribers, s # t PROVE StreamOf(s)'
  <2>1. heard'[s] = heard[s] /\ since'[s] = since[s]
    BY <1>1, <1>2, <1>12
  <2>2. NextFix(s)' = NextFix(s)
    BY <1>2, <1>6, <1>10, <1>12 DEF NextFix, Pending
  <2>3. \A first : Begins(s, first)' <=> Begins(s, first)
    BY <1>2, <2>1 DEF Begins, Stretch
  <2>4. PICK first : first = NextFix(s) - Len(heard[s])
    OBVIOUS
  <2>5. (NextFix(s) - Len(heard[s]))' = first
    BY <2>1, <2>2, <2>4
  <2>6. StreamOf(s) /\ PumpRuns
    BY DEF StreamInv, PumpRuns
  <2>7. Contains(subscribers', s) => Begins(s, NextFix(s) - Len(heard[s]))'
    <3>1. Contains(subscribers', s) => Begins(s, first)'
      BY <1>2, <2>3, <2>4, <2>6 DEF StreamOf
    <3>2. QED
      BY <2>5, <3>1 DEF Begins, Stretch
  <2>8. \E f \in 1 .. since'[s] + 1 : Begins(s, f)'
    BY <2>1, <2>3, <2>6 DEF StreamOf
  <2>9. QED
    BY <1>2, <2>1, <2>6, <2>7, <2>8 DEF StreamOf
<1>13. StreamOf(t)'
  <2>1. /\ heard[t] \in Seq(Fix) /\ heard'[t] = Append(heard[t], pump.fix)
        /\ since'[t] = since[t] /\ since[t] \in Nat
    BY <1>1, <1>2
  <2>2. /\ Len(heard'[t]) = Len(heard[t]) + 1 /\ Len(heard[t]) \in Nat
        /\ \A i \in 1 .. Len(heard[t]) : heard'[t][i] = heard[t][i]
        /\ heard'[t][Len(heard[t]) + 1] = pump.fix
    BY <1>1, <2>1
  <2>3. PICK first : first = Received - Len(heard[t])
    OBVIOUS
  <2>4. NextFix(t) = Received /\ NextFix(t)' = Received + 1
    BY <1>2, <1>5, <1>10 DEF NextFix, Pending
  <2>5. (NextFix(t) - Len(heard[t]))' = first
    BY <1>11, <2>2, <2>3, <2>4
  <2>6. Begins(t, first) /\ since[t] <= Len(published)
    BY <1>1, <1>7, <2>3, <2>4 DEF StreamInv, StreamOf, PumpRuns
  <2>7. Stretch(t, first)'
    <3>1. SUFFICES ASSUME NEW i \in 1 .. Len(heard[t]) + 1
                   PROVE  heard'[t][i] = published[first + i - 1]
      BY <1>2, <2>2 DEF Stretch
    <3>2. CASE i = Len(heard[t]) + 1
      <4>1. first + i - 1 = Received
        BY <1>11, <2>2, <2>3, <3>2
      <4>2. QED
        BY <1>11, <2>2, <3>2, <4>1
    <3>3. CASE i \in 1 .. Len(heard[t])
      BY <2>2, <2>6, <3>3 DEF Begins, Stretch
    <3>4. QED
      BY <2>2, <3>1, <3>2, <3>3
  <2>8. first \in 1 .. since'[t] + 1 /\ first + Len(heard'[t]) <= Len(published') + 1
    BY <1>1, <1>2, <1>11, <2>1, <2>2, <2>3, <2>6 DEF Begins
  <2>9. Begins(t, first)'
    BY <2>7, <2>8 DEF Begins
  <2>10. Begins(t, NextFix(t) - Len(heard[t]))'
    BY <2>5, <2>9 DEF Begins, Stretch
  <2>11. QED
    BY <1>2, <1>7, <2>1, <2>6, <2>8, <2>9, <2>10 DEF StreamOf
<1>14. heard' \in [Subscribers -> Seq(Fix)]
  BY <1>1, <1>2
<1>15. QED
  BY <1>1, <1>2, <1>9, <1>10, <1>12, <1>13, <1>14 DEF StreamInv

LEMMA CallNextKeepsStreams ==
  ASSUME TypeInv, TypeInv', StreamInv, CallNext
  PROVE  StreamInv'
<1>1. /\ pump.pc \in {"calling", "closing"}
      /\ UNCHANGED <<published, channel, subscribers, since>>
  BY DEF CallNext
<1>2. CASE pump.pc = "calling" /\ pump.todo # <<>>
  BY <1>2, CallKeepsStreams
<1>3. CASE pump.pc = "calling" /\ pump.todo = <<>>
  <2>1. pump'.pc = "recv" /\ UNCHANGED heard
    BY <1>3 DEF CallNext, Idle
  <2>2. ChannelIsRest' /\ Received' = Received
    BY <1>1, <1>3, <2>1 DEF StreamInv, ChannelIsRest, Received
  <2>3. Lists'
    BY <1>1, <2>1 DEF StreamInv, Lists
  <2>4. \A s \in Subscribers : NextFix(s)' = NextFix(s)
    BY <1>3, <2>1, <2>2 DEF NextFix, Pending, Contains
  <2>5. \A s \in Subscribers : StreamOf(s)'
    BY <1>1, <1>3, <2>1, <2>4, QuietStepsKeepStreams DEF PumpRuns, TypeInv
  <2>6. QED
    BY <1>1, <2>1, <2>2, <2>3, <2>5 DEF StreamInv
<1>4. CASE pump.pc = "closing"
  <2>1. pump'.pc \in {"closing", "done"} /\ UNCHANGED heard
    BY <1>4 DEF CallNext, Done, Idle, TypeInv
  <2>2. QED
    BY <1>1, <1>4, <2>1, StoppedPumpKeepsStreams
<1>5. QED
  BY <1>1, <1>2, <1>3, <1>4

LEMMA NextKeepsStreams == ASSUME SInv, SInv', StreamInv, [SNext]_vars PROVE StreamInv'
<1>1. TypeInv /\ TypeInv'
  BY DEF SInv
<1>2. CASE SCallNext
  BY <1>1, <1>2, CallNextKeepsStreams DEF SCallNext
<1>3. CASE Receive \/ Snapshot
  BY <1>1, <1>3, ReceiveKeepsStreams, SnapshotKeepsStreams
<1>4. CASE \E sigma \in Sigmas : Publish(sigma)
  BY <1>1, <1>4, PublishKeepsStreams
<1>5. CASE \E s \in Subscribers : Subscribe(s)
  BY <1>1, <1>5, SubscribeKeepsStreams
<1>6. CASE \E s \in Subscribers : Throw(s)
  BY <1>1, <1>6, StoppedPumpKeepsStreams DEF Throw, Done, Idle
<1>7. CASE UNCHANGED <<published, channel, subscribers, pump, heard, since>>
  BY <1>7 DEF StreamInv, ChannelIsRest, Lists, StreamOf, Begins, Stretch,
              PumpRuns, NextFix, Pending, Received
<1>8. CASE \E s \in Sessions :
             \/ Start(s) \/ Stop(s) \/ Accept(s) \/ Abandon(s)
             \/ ReleaseSession(s) \/ Engine(s)
  BY <1>7, <1>8 DEF Start, Stop, Abandon, Moves, Accept, ReleaseSession, Release,
                    Engine, pvars
<1>9. CASE \E s \in Sessions : New(s)
  BY <1>5, <1>9, SessionConstants DEF New
<1>10. CASE ReleaseHandle \/ JoinReturns \/ UNCHANGED vars
  BY <1>7, <1>10 DEF ReleaseHandle, Release, JoinReturns, vars, pvars
<1>11. QED
  BY <1>2, <1>3, <1>4, <1>5, <1>6, <1>8, <1>9, <1>10 DEF SNext, SPump, Callback

\* What a subscriber hears is a stretch of the stream of fixes, none missed,
\* repeated or out of order, that begins no later than with the first fix
\* published after it subscribed: for any number of subscribers and fixes,
\* and wherever the pump is when it subscribes.
THEOREM StreamsHaveNoGaps == SSpec => []StreamsAreWhole
<1>1. SInv /\ StreamInv => StreamsAreWhole
  <2>1. SUFFICES ASSUME SInv, StreamInv, NEW s \in Subscribers
                 PROVE  \E first \in 1 .. since[s] + 1 :
                          heard[s] = SubSeq(published, first, first + Len(heard[s]) - 1)
    BY DEF StreamsAreWhole
  <2>2. PICK first \in 1 .. since[s] + 1 : Begins(s, first)
    BY <2>1 DEF StreamInv, StreamOf
  <2>3. /\ heard[s] \in Seq(Fix) /\ published \in Seq(Fix) /\ since[s] \in Nat
        /\ Len(heard[s]) \in Nat /\ Len(published) \in Nat
    BY <2>1 DEF SInv, TypeInv, StreamInv
  <2>4. first + Len(heard[s]) <= Len(published) + 1 /\ Stretch(s, first)
    BY <2>2 DEF Begins
  <2> DEFINE n == Len(heard[s])
             heardIs == SubSeq(published, first, first + n - 1)
  <2>5. /\ heardIs = [i \in 1 .. n |-> published[i + first - 1]]
        /\ heard[s] = [i \in 1 .. n |-> heard[s][i]]
    <3>1. (first + n - 1) - first + 1 = n
      BY <2>2, <2>3
    <3>2. heardIs = [i \in 1 .. (first + n - 1) - first + 1 |-> published[i + first - 1]]
      BY <2>2, <2>3, <2>4
    <3>3. QED
      BY <2>3, <3>1, <3>2
  <2>6. \A i \in 1 .. n : heard[s][i] = published[i + first - 1]
    BY <2>2, <2>3, <2>4 DEF Stretch
  <2>7. QED
    BY <2>2, <2>5, <2>6
<1>2. StreamInv /\ SInv /\ SInv' /\ [SNext]_vars => StreamInv'
  BY NextKeepsStreams
<1>3. QED
  BY <1>1, <1>2, InitStreamInv, InvariantOfSpec, PTL DEF SSpec

=============================================================================
