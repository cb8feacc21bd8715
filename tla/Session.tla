------------------------------- MODULE Session -------------------------------
(***************************************************************************)
(* The operator's sessions over one engine (bris-ffi/src/lib.rs, Session):  *)
(* each is a state machine and, through its SessionFixCollector, one of the *)
(* pump's subscribers for as long as the engine lives.  The callback and    *)
(* the operator's calls meet only in the session's mutex, so each is one    *)
(* action.  A session holds an Arc<Engine>, the application another.        *)
(***************************************************************************)
EXTENDS FixPump, FiniteSets

CONSTANTS
  Sessions,   \* the subscribers that are sessions' collectors
  NoFix       \* Option<FfiPublishedFix>::None

ASSUME SessionConstants ==
  /\ Sessions \subseteq Subscribers
  /\ NoFix \notin Fix

VARIABLES
  session,   \* SessionInner of each session, and whether its Arc is held
  handle,    \* the application holds an Arc<Engine> of its own
  offered    \* history: the fixes a session heard while Active

vars == <<pvars, session, handle, offered>>

Unborn == [state |-> "None", best_fix |-> NoFix, accepted_fix |-> NoFix,
           held |-> FALSE]

SInit ==
  /\ FInit
  /\ session = [s \in Sessions |-> Unborn]
  /\ handle = TRUE
  /\ offered = [s \in Sessions |-> <<>>]

Terminated(s) == session[s].state \in {"Accepted", "Abandoned"}

-----------------------------------------------------------------------------
(* The operator's calls.  What returns an error changes nothing.           *)

\* session_new
New(s) ==
  /\ handle /\ session[s].state = "None"
  /\ Subscribe(s)
  /\ session' = [session EXCEPT ![s].state = "Idle", ![s].held = TRUE]
  /\ UNCHANGED <<handle, offered>>

Moves(s, from, to) ==
  /\ session[s].held
  /\ session[s].state \in from
  /\ session' = [session EXCEPT ![s].state = to]
  /\ UNCHANGED <<pvars, handle, offered>>

Start(s) == Moves(s, {"Idle", "Stopped"}, "Active")
Stop(s) == Moves(s, {"Active"}, "Stopped")
Abandon(s) == Moves(s, {"Idle", "Active", "Stopped"}, "Abandoned")

Accept(s) ==
  /\ session[s].held
  /\ session[s].state \in {"Active", "Stopped"}
  /\ session[s].best_fix # NoFix
  /\ session' = [session EXCEPT ![s].state = "Accepted",
                                ![s].accepted_fix = session[s].best_fix]
  /\ UNCHANGED <<pvars, handle, offered>>

\* The application forgets its engine, or a session; the last reference runs
\* Engine::drop, on the thread that let it go.
Release(referenced) ==
  /\ engine' = IF referenced THEN engine ELSE "joining"
  /\ UNCHANGED <<published, channel, subscribers, pump, heard, closed, since,
                 offered>>

ReleaseHandle ==
  /\ handle
  /\ handle' = FALSE
  /\ Release(\E s \in Sessions : session[s].held)
  /\ UNCHANGED session

ReleaseSession(s) ==
  /\ session[s].held
  /\ session' = [session EXCEPT ![s].held = FALSE]
  /\ Release(handle \/ \E t \in Sessions \ {s} : session[t].held)
  /\ UNCHANGED handle

\* Session::engine
Engine(s) ==
  /\ session[s].held /\ ~ handle
  /\ handle' = TRUE
  /\ UNCHANGED <<pvars, session, offered>>

-----------------------------------------------------------------------------
(* SessionFixCollector::on_fix, on the pump thread.                        *)

\* Mutant of Collects: only a session that never started ignores a fix.
CollectsOnceStarted(s) == session[s].state # "Idle"

Collects(s) == session[s].state = "Active"

\* Mutant of Replaces: a tie displaces.
ReplacesOnTie(best, fix) == best = NoFix \/ fix.sigma <= best.sigma

\* A first fix is taken, then only one with a smaller sigma.  Sigmas are finite
\* here, so the test for that is left out: the code would keep a first fix whose
\* sigma is NaN for good.
Replaces(best, fix) == best = NoFix \/ fix.sigma < best.sigma

Collect(s, fix) ==
  /\ session' = IF Replaces(session[s].best_fix, fix)
                  THEN [session EXCEPT ![s].best_fix = fix] ELSE session
  /\ offered' = [offered EXCEPT ![s] = Append(@, fix)]

\* The pump's next call; it blocks on no session, for no session calls out.
SCallNext ==
  /\ CallNext
  /\ IF \E s \in Sessions : Calls(s) /\ Collects(s)
       THEN Collect(Head(pump.todo), pump.fix)
       ELSE UNCHANGED <<session, offered>>
  /\ UNCHANGED handle

SPump ==
  \/ SCallNext
  \/ (Receive \/ Snapshot) /\ UNCHANGED <<session, handle, offered>>

Callback == \E s \in Subscribers \ Sessions : Throw(s)

SNext ==
  \/ SPump
  \/ /\ \/ \E sigma \in Sigmas : Publish(sigma)
        \/ \E s \in Subscribers \ Sessions : handle /\ Subscribe(s)
        \/ Callback
        \/ JoinReturns
     /\ UNCHANGED <<session, handle, offered>>
  \/ ReleaseHandle
  \/ \E s \in Sessions :
       \/ New(s) \/ Start(s) \/ Stop(s) \/ Accept(s) \/ Abandon(s)
       \/ ReleaseSession(s) \/ Engine(s)

\* The pump is a thread of its own that waits only for the channel; a join
\* that can return does.  Nothing is asked of the operator.
SFairness ==
  /\ WF_vars(SPump)
  /\ WF_vars(JoinReturns /\ UNCHANGED <<session, handle, offered>>)

SSpec == SInit /\ [][SNext]_vars /\ SFairness

-----------------------------------------------------------------------------
(* Properties.                                                             *)

\* The first of the tightest fixes of a sequence.
IsTightest(fixes, i) ==
  /\ i \in DOMAIN fixes
  /\ \A j \in DOMAIN fixes :
       \/ fixes[i].sigma < fixes[j].sigma
       \/ fixes[i].sigma = fixes[j].sigma /\ i <= j

Tightest(fixes) ==
  IF fixes = <<>> THEN NoFix
                  ELSE fixes[CHOOSE i \in DOMAIN fixes : IsTightest(fixes, i)]

\* The accepted fix is the tightest, the earliest of equals, of all the
\* session heard while Active, over every stop and resume and whatever the
\* pump delivered in between or afterwards (lib.rs:1036-1038, 1066-1075).
AcceptedIsTightest ==
  \A s \in Sessions :
    /\ session[s].best_fix = Tightest(offered[s])
    /\ session[s].state = "Accepted" <=> session[s].accepted_fix # NoFix
    /\ session[s].accepted_fix # NoFix
         => session[s].accepted_fix = Tightest(offered[s])

\* lib.rs:1008-1009: the terminal states are absorbing - also for the fixes
\* that were in the channel or in the pump's snapshot when the operator
\* decided, and that are still delivered.
TerminalIsFinal ==
  [][\A s \in Sessions : Terminated(s) =>
       session'[s] = [session[s] EXCEPT !.held = session'[s].held]]_vars

=============================================================================
