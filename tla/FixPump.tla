------------------------------- MODULE FixPump -------------------------------
(***************************************************************************)
(* How fixes reach the foreign subscribers (bris-ffi/src/lib.rs): push_frame *)
(* sends each published fix on an unbounded channel, one pump thread takes  *)
(* it off, clones the list of subscribers and calls them one by one outside *)
(* the lock.  Dropping the last Arc<Engine> joins the pump before the       *)
(* engine's fields, the channel's sender among them, are dropped.           *)
(*                                                                         *)
(* What a subscriber does with a fix is the parameter of Session; here it   *)
(* is only heard.  A foreign callback may throw, which ends the pump thread *)
(* with a panic that the join swallows (external: UniFFI's generated code). *)
(***************************************************************************)
EXTENDS Integers, Sequences, SequencesExt

CONSTANTS
  Subscribers,        \* every Arc<dyn FixSubscriber> there will be
  Sigmas,             \* the sigma_major_nm a fix may have
  MaxFixes,           \* bound: fixes published
  CallbacksMayThrow   \* TRUE iff a foreign on_fix may throw

ASSUME FixPumpConstants ==
  /\ Sigmas \subseteq Nat
  /\ MaxFixes \in Nat
  /\ CallbacksMayThrow \in BOOLEAN

VARIABLES
  published,     \* history: every fix sent on fix_tx, in order
  channel,       \* the fixes the pump has not received yet
  subscribers,   \* Engine::subscribers
  pump,          \* the pump thread: where it is, its fix, whom it still calls
  engine,        \* "held", "joining" (Engine::drop runs), "dropped"
  heard,         \* history: the fixes each subscriber's on_fix was called with
  closed,        \* history: how often its on_closed was called
  since          \* history: how many fixes were published before it subscribed

pvars == <<published, channel, subscribers, pump, engine, heard, closed, since>>

Idle == [pc |-> "recv", fix |-> <<>>, todo |-> <<>>]
Done == [Idle EXCEPT !.pc = "done"]

FInit ==
  /\ published = <<>> /\ channel = <<>> /\ subscribers = <<>>
  /\ pump = Idle
  /\ engine = "held"
  /\ heard = [s \in Subscribers |-> <<>>]
  /\ closed = [s \in Subscribers |-> 0]
  /\ since = [s \in Subscribers |-> 0]

-----------------------------------------------------------------------------
(* The callers of the engine: push_frame and subscribe_fixes.              *)

\* push_frame publishes a fix.  The send fails, and is only logged, once the
\* pump and with it the receiver is gone.
Publish(sigma) ==
  /\ engine = "held"
  /\ Len(published) < MaxFixes
  /\ LET fix == [number |-> Len(published) + 1, sigma |-> sigma]
     IN /\ published' = Append(published, fix)
        /\ channel' = IF pump.pc = "done" THEN channel ELSE Append(channel, fix)
  /\ UNCHANGED <<subscribers, pump, engine, heard, closed, since>>

Subscribe(s) ==
  /\ engine = "held"
  /\ ~ Contains(subscribers, s)
  /\ subscribers' = Append(subscribers, s)
  /\ since' = [since EXCEPT ![s] = Len(published)]
  /\ UNCHANGED <<published, channel, pump, engine, heard, closed>>

-----------------------------------------------------------------------------
(* The pump thread.                                                        *)

SenderDropped == engine = "dropped"

\* Mutant of Receive: only the newest fix in the channel is worth a call.
ReceiveNewest ==
  /\ pump.pc = "recv" /\ channel # <<>>
  /\ pump' = [Idle EXCEPT !.pc = "received", !.fix = Last(channel)]
  /\ channel' = <<>>
  /\ UNCHANGED <<published, subscribers, engine, heard, closed, since>>

\* recv() returns: the next fix, or None when nothing is left and the sender
\* is gone, and then the list is taken for the last calls.
Receive ==
  /\ pump.pc = "recv"
  /\ channel # <<>> \/ SenderDropped
  /\ IF channel # <<>>
       THEN /\ pump' = [Idle EXCEPT !.pc = "received", !.fix = Head(channel)]
            /\ channel' = Tail(channel)
            /\ UNCHANGED subscribers
       ELSE /\ pump' = [Idle EXCEPT !.pc = "closing", !.todo = subscribers]
            /\ subscribers' = <<>>
            /\ UNCHANGED channel
  /\ UNCHANGED <<published, engine, heard, closed, since>>

\* Mutant of Snapshot: the list is taken instead of cloned.
SnapshotByTake ==
  /\ pump.pc = "received"
  /\ pump' = [pump EXCEPT !.pc = "calling", !.todo = subscribers]
  /\ subscribers' = <<>>
  /\ UNCHANGED <<published, channel, engine, heard, closed, since>>

\* Clone the list of subscribers under its lock.
Snapshot ==
  /\ pump.pc = "received"
  /\ pump' = [pump EXCEPT !.pc = "calling", !.todo = subscribers]
  /\ UNCHANGED <<published, channel, subscribers, engine, heard, closed, since>>

\* The next subscriber of the snapshot is called, or the loop is over.
CallNext ==
  /\ pump.pc \in {"calling", "closing"}
  /\ IF pump.todo = <<>>
       THEN /\ pump' = IF pump.pc = "calling" THEN Idle ELSE Done
            /\ UNCHANGED <<heard, closed>>
       ELSE LET s == Head(pump.todo)
            IN /\ pump' = [pump EXCEPT !.todo = Tail(@)]
               /\ IF pump.pc = "calling"
                    THEN /\ heard' = [heard EXCEPT ![s] = Append(@, pump.fix)]
                         /\ UNCHANGED closed
                    ELSE /\ closed' = [closed EXCEPT ![s] = @ + 1]
                         /\ UNCHANGED heard
  /\ UNCHANGED <<published, channel, subscribers, engine, since>>

\* The callee of on_fix: the subscriber the pump calls in this step, if any.
Calls(s) == pump.pc = "calling" /\ pump.todo # <<>> /\ Head(pump.todo) = s

\* The callback throws: the thread ends, its receiver is dropped.
Throw(s) ==
  /\ CallbacksMayThrow
  /\ Calls(s)
  /\ pump' = Done
  /\ channel' = <<>>
  /\ UNCHANGED <<published, subscribers, engine, heard, closed, since>>

PumpStep == Receive \/ Snapshot \/ CallNext

-----------------------------------------------------------------------------
(* Engine::drop.                                                           *)

\* The join returns, and only then are the fields dropped.
JoinReturns ==
  /\ engine = "joining"
  /\ pump.pc = "done"
  /\ engine' = "dropped"
  /\ UNCHANGED <<published, channel, subscribers, pump, heard, closed, since>>

-----------------------------------------------------------------------------
(* Properties.                                                             *)

Fix == [number : 1 .. MaxFixes, sigma : Sigmas]

\* What a subscriber hears is a stretch of the stream, every fix once and in
\* the order of publication, that begins no later than with the first fix
\* published after it subscribed - however subscribing interleaves with the
\* pump's receive and its snapshot (lib.rs:820, 894-903).
StreamsAreWhole ==
  \A s \in Subscribers :
    \E first \in 1 .. since[s] + 1 :
      heard[s] = SubSeq(published, first, first + Len(heard[s]) - 1)

\* Every fix published after a subscription is heard by that subscriber, even
\* while the engine is being dropped, unless a callback threw.
EveryFixIsHeard ==
  \A s \in Subscribers, n \in 1 .. MaxFixes :
    (Contains(subscribers, s) /\ since[s] < n /\ n <= Len(published))
      ~> (pump.pc = "done" \/ \E k \in DOMAIN heard[s] : heard[s][k].number = n)

\* lib.rs:832-834 (doc of Engine): "Dropping the last reference stops the
\* engine and notifies every subscriber via [`FixSubscriber::on_closed`]".
DropNotifies ==
  \A s \in Subscribers :
    (engine = "joining" /\ Contains(subscribers, s)) ~> closed[s] = 1

=============================================================================
