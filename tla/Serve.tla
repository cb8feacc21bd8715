------------------------------- MODULE Serve -------------------------------
(***************************************************************************)
(* `bris serve`: the capture thread feeds the camera's frames to the        *)
(* engine, the main thread drains the engine's fix channel and offers each  *)
(* fix to every NMEA sink in turn, and a TCP sink keeps a list of clients   *)
(* that its own accept thread extends.  Ctrl-C sets a flag that the first   *)
(* two poll; the accept thread polls a flag of its own, set when the main   *)
(* thread drops the sinks.                                                  *)
(*                                                                          *)
(* A write to a UDP socket returns, one to a TCP client gives up after its  *)
(* write timeout; one to stdout or to a serial device (a "stream") has no   *)
(* timeout, and while its reader takes nothing the main thread is stuck.    *)
(*                                                                          *)
(* The engine is its channel (Engine.tla models it): once a frame has been  *)
(* pushed it may publish.  It lives as long as the main thread, so the      *)
(* channel never closes under the dispatch loop.  A client is one TCP       *)
(* stream; one that comes back is another client.                           *)
(***************************************************************************)
EXTENDS Integers, Sequences, SequencesExt

CONSTANTS
  Sinks,       \* the configured sinks, in order, by kind
  Clients,     \* TCP streams that may knock
  MaxFixes     \* bound: fixes the engine publishes

ASSUME SinksAssumption ==
  Sinks \in Seq({"stream", "udp", "tcp"}) /\ MaxFixes \in Nat

VARIABLES
  main,        \* the main thread: bind, poll, recv, write, stuck, join, done, failed
  at,          \* the sink it binds or writes to next
  shutdown,    \* the flag Ctrl-C sets
  dropped,     \* the flags that tell the accept threads their sinks are gone
  capture,     \* the capture thread: off, warmup, check, next, ended, failed
  fed,         \* a frame has reached the engine
  channel,     \* fixes published and not yet received
  published,   \* how many fixes were published
  offered,     \* for each sink, how many fixes it was offered
  acceptor,    \* each TCP sink's accept thread: off, check, accept, push, stopped
  held,        \* the stream it has accepted and not yet pushed
  clients,     \* each TcpServerSink.clients
  health,      \* what a stream's peer is doing
  heard,       \* the fixes a stream was sent in full
  since        \* how many fixes had gone out when the stream was pushed

cvars == <<capture, fed, channel, published>>
tvars == <<acceptor, held, clients, health, heard, since>>
vars  == <<main, at, shutdown, dropped, offered, cvars, tvars>>

Tcp == {i \in DOMAIN Sinks : Sinks[i] = "tcp"}

Alive == main \notin {"done", "failed"}

SInit ==
  /\ main = "bind" /\ at = 1 /\ shutdown = FALSE /\ dropped = FALSE
  /\ capture = "off" /\ fed = FALSE /\ channel = <<>> /\ published = 0
  /\ offered = [i \in DOMAIN Sinks |-> 0]
  /\ acceptor = [i \in Tcp |-> "off"]
  /\ held = [i \in Tcp |-> {}] /\ clients = [i \in Tcp |-> <<>>]
  /\ health = [c \in Clients |-> "away"]
  /\ heard = [c \in Clients |-> <<>>]
  /\ since = [c \in Clients |-> 0]

-----------------------------------------------------------------------------
(* The main thread.                                                         *)

\* Sinks are bound in order; one that cannot be ends the program.
Bind ==
  /\ main = "bind" /\ at <= Len(Sinks)
  /\ \/ main' = "failed" /\ UNCHANGED <<at, acceptor>>
     \/ /\ at' = at + 1
        /\ acceptor' = [i \in Tcp |-> IF i = at THEN "check" ELSE acceptor[i]]
        /\ UNCHANGED main
  /\ UNCHANGED <<shutdown, dropped, offered, cvars, held, clients, health,
                 heard, since>>

\* The Ctrl-C handler is installed and the capture thread spawned.
StartCapture ==
  /\ main = "bind" /\ at > Len(Sinks)
  /\ main' = "poll" /\ capture' = "warmup"
  /\ UNCHANGED <<at, shutdown, dropped, offered, fed, channel, published, tvars>>

\* Before the handler is installed an interrupt simply ends the process.
Interrupt ==
  /\ Alive /\ ~ shutdown
  /\ IF main = "bind" THEN main' = "failed" /\ UNCHANGED shutdown
                      ELSE shutdown' = TRUE /\ UNCHANGED main
  /\ UNCHANGED <<at, dropped, offered, cvars, tvars>>

\* One turn of the dispatch loop reads the flag first: a Ctrl-C that comes
\* after it still sees one more fix go out.
Poll ==
  /\ main = "poll" /\ ~ shutdown
  /\ main' = "recv"
  /\ UNCHANGED <<at, shutdown, dropped, offered, cvars, tvars>>

\* With nothing to receive it sleeps and polls again.
Receive ==
  /\ main = "recv"
  /\ \/ channel = <<>> /\ main' = "poll" /\ UNCHANGED <<at, channel>>
     \/ /\ channel # <<>> /\ channel' = Tail(channel) /\ at' = 1
        /\ main' = IF Sinks = <<>> THEN "poll" ELSE "write"
  /\ UNCHANGED <<shutdown, dropped, offered, capture, fed, published, tvars>>

SwapRemove(s, i) ==
  IF i = Len(s) THEN Front(s) ELSE [Front(s) EXCEPT ![i] = Last(s)]

\* A plausible bug: failed clients removed first to last, the others moving down.
RemovedInOrder(s, failed) ==
  FoldLeft(LAMBDA l, i : IF i <= Len(l) THEN RemoveAt(l, i) ELSE l,
           s, SetToSortSeq(failed, <))

\* The clients left once those at the failed indices are removed, last first.
Survivors(s, failed) ==
  LET after[n \in 0 .. Len(s)] ==
        IF n = 0 THEN s
        ELSE IF Len(s) + 1 - n \in failed
          THEN SwapRemove(after[n - 1], Len(s) + 1 - n)
          ELSE after[n - 1]
  IN after[Len(s)]

\* One fix to every client in the list, under its lock.  A write fails only
\* to a peer that has gone, or that has read nothing for the write timeout.
Broadcast(i, fix) ==
  \E failed \in SUBSET {n \in DOMAIN clients[i] :
                         health[clients[i][n]] # "reading"} :
    LET lost == {clients[i][n] : n \in failed}
    IN /\ clients' = [clients EXCEPT ![i] = Survivors(@, failed)]
       /\ heard' = [c \in Clients |->
                      IF c \in ToSet(clients[i]) \ lost
                      THEN Append(heard[c], fix) ELSE heard[c]]
       /\ health' = [c \in Clients |->
                       IF c \in lost THEN "gone" ELSE health[c]]

\* A plausible bug: a failing sink ends the round.
FirstErrorReturns(ok) ==
  /\ main' = IF at = Len(Sinks) \/ ~ ok THEN "poll" ELSE "write"
  /\ at' = at + 1

\* A sink whose write fails is logged; the next one is offered the fix all
\* the same.
AfterWrite(ok) ==
  /\ main' = IF at = Len(Sinks) THEN "poll" ELSE "write"
  /\ at' = at + 1

OneWrite ==
  /\ offered' = [offered EXCEPT ![at] = @ + 1]
  /\ IF Sinks[at] = "tcp"
     THEN AfterWrite(TRUE) /\ Broadcast(at, offered[at] + 1)
     ELSE /\ \E ok \in BOOLEAN : AfterWrite(ok)
          /\ UNCHANGED <<clients, heard, health>>
  /\ UNCHANGED <<shutdown, dropped, cvars, acceptor, held, since>>

Write == main = "write" /\ OneWrite

\* The pipe or the serial line is full, and the write blocks.
Stall ==
  /\ main = "write" /\ Sinks[at] = "stream"
  /\ main' = "stuck"
  /\ UNCHANGED <<at, shutdown, dropped, offered, cvars, tvars>>

\* Its reader takes what is there or goes away, when it likes.
Unblock == main = "stuck" /\ OneWrite

\* The loop sees the flag; returning from it drops the sinks, each of which
\* concerns its own accept thread only.  Fixes still in the channel are lost.
StopDispatch ==
  /\ main = "poll" /\ shutdown
  /\ main' = "join" /\ dropped' = TRUE
  /\ UNCHANGED <<at, shutdown, offered, cvars, tvars>>

Join ==
  /\ main = "join" /\ capture \in {"ended", "failed"}
  /\ main' = IF capture = "ended" THEN "done" ELSE "failed"
  /\ UNCHANGED <<at, shutdown, dropped, offered, cvars, tvars>>

Main ==
  Bind \/ StartCapture \/ Poll \/ Receive \/ Write \/ Stall \/ StopDispatch \/ Join

-----------------------------------------------------------------------------
(* The capture thread, and the engine behind it.                            *)

\* The first buffer is thrown away.
Warmup ==
  /\ Alive /\ capture = "warmup"
  /\ capture' \in {"check", "failed"}
  /\ UNCHANGED <<main, at, shutdown, dropped, offered, fed, channel, published,
                 tvars>>

\* A plausible bug: the capture loop polls only its callback's answer.
FlagUnread ==
  /\ Alive /\ capture = "check"
  /\ capture' = "next"
  /\ UNCHANGED <<main, at, shutdown, dropped, offered, fed, channel, published,
                 tvars>>

CheckFlag ==
  /\ Alive /\ capture = "check"
  /\ capture' = IF shutdown THEN "ended" ELSE "next"
  /\ UNCHANGED <<main, at, shutdown, dropped, offered, fed, channel, published,
                 tvars>>

\* The next buffer: a frame for the engine, one that does not convert and is
\* dropped, or a dequeue error, which ends the thread.
Dequeue ==
  /\ Alive /\ capture = "next"
  /\ \/ capture' = "check" /\ fed' = TRUE
     \/ capture' = "check" /\ UNCHANGED fed
     \/ capture' = "failed" /\ UNCHANGED fed
  /\ UNCHANGED <<main, at, shutdown, dropped, offered, channel, published, tvars>>

Capture == Warmup \/ CheckFlag \/ Dequeue

Publish ==
  /\ Alive /\ fed /\ published < MaxFixes
  /\ published' = published + 1
  /\ channel' = Append(channel, published + 1)
  /\ UNCHANGED <<main, at, shutdown, dropped, offered, capture, fed, tvars>>

-----------------------------------------------------------------------------
(* The accept thread and the peers.                                         *)

CheckDropped(i) ==
  /\ Alive /\ acceptor[i] = "check"
  /\ IF dropped
       THEN /\ acceptor' = [acceptor EXCEPT ![i] = "stopped"]
            /\ clients' = [clients EXCEPT ![i] = <<>>]
       ELSE /\ acceptor' = [acceptor EXCEPT ![i] = "accept"]
            /\ UNCHANGED clients
  /\ UNCHANGED <<main, at, shutdown, dropped, offered, cvars, held, health,
                 heard, since>>

\* A stream whose write timeout cannot be set is closed again.
Answered(i, c) ==
  /\ health[c] = "knocking"
  /\ \/ /\ acceptor' = [acceptor EXCEPT ![i] = "push"]
        /\ held' = [held EXCEPT ![i] = {c}]
        /\ health' = [health EXCEPT ![c] = "reading"]
     \/ /\ acceptor' = [acceptor EXCEPT ![i] = "check"] /\ UNCHANGED held
        /\ health' = [health EXCEPT ![c] = "gone"]

\* With nobody knocking, or after an accept error, the thread sleeps and polls
\* its flag.  Whose port a stream knocks at shows when it is accepted.
Accept(i) ==
  /\ Alive /\ acceptor[i] = "accept"
  /\ \/ \E c \in Clients : Answered(i, c)
     \/ acceptor' = [acceptor EXCEPT ![i] = "check"] /\ UNCHANGED <<held, health>>
  /\ UNCHANGED <<main, at, shutdown, dropped, offered, cvars, clients, heard,
                 since>>

\* What the newest listed client can expect: every fix the sink writes next.
Push(i) ==
  /\ Alive /\ acceptor[i] = "push"
  /\ \E c \in held[i] :
       /\ clients' = [clients EXCEPT ![i] = Append(@, c)]
       /\ since' = [since EXCEPT ![c] = offered[i]]
  /\ acceptor' = [acceptor EXCEPT ![i] = "check"]
  /\ held' = [held EXCEPT ![i] = {}]
  /\ UNCHANGED <<main, at, shutdown, dropped, offered, cvars, health, heard>>

Listener == \E i \in Tcp : CheckDropped(i) \/ Accept(i) \/ Push(i)

\* A peer knocks, stops reading, reads again, or goes away.
Peer ==
  /\ Alive /\ \E i \in Tcp : acceptor[i] \notin {"off", "stopped"}
  /\ \E c \in Clients, h \in {"knocking", "reading", "stalled", "gone"} :
       /\ <<health[c], h>> \in {<<"away", "knocking">>, <<"reading", "stalled">>,
                                <<"stalled", "reading">>, <<"stalled", "gone">>,
                                <<"knocking", "gone">>}
       /\ health' = [health EXCEPT ![c] = h]
  /\ UNCHANGED <<main, at, shutdown, dropped, offered, cvars, acceptor, held,
                 clients, heard, since>>

SNext == Main \/ Unblock \/ Capture \/ Interrupt \/ Publish \/ Listener \/ Peer

\* Threads are scheduled, and the camera's driver answers every dequeue; nobody
\* has to press Ctrl-C, publish, connect, or read what a blocked write waits on.
SFairness == WF_vars(Main) /\ WF_vars(Capture)

SSpec == SInit /\ [][SNext]_vars /\ SFairness

-----------------------------------------------------------------------------
\* A chartplotter in a sink's list has been sent every fix since it joined, in
\* order and without a gap, however many others came and went around it, and
\* none that reads is ever thrown out for another's failure
\* (nmea_transport.rs: TcpServerSink::write).
NoPlotterMissesAFix ==
  /\ \A i \in Tcp : \A c \in ToSet(clients[i]) :
       heard[c] = [k \in 1..(offered[i] - since[c]) |-> since[c] + k]
  /\ ~ dropped => \A c \in Clients :
       health[c] = "reading" => \E i \in Tcp : c \in ToSet(clients[i]) \union held[i]

\* What the two below rest on and the code cannot see to: no write to stdout or
\* to a serial device blocks for good.
WritesReturn == []<>(main # "stuck")

\* A sink whose writes fail, or block for a while, takes no other down with it:
\* every published fix is offered to every sink, unless the operator stops the
\* program first.  One that blocks for good does (nmea_transport.rs: "one bad
\* sink doesn't take down the others", of a sink that errors on write).
EverySinkGetsEveryFix ==
  WritesReturn =>
    \A i \in DOMAIN Sinks :
      offered[i] < published ~> (offered[i] = published \/ shutdown \/ ~ Alive)

\* Ctrl-C ends the program, whatever its three threads were doing, as long
\* as the camera keeps answering and no write to a pipe or a serial line blocks
\* for good (main.rs: run_serve joins the capture thread).
CtrlCEnds == WritesReturn => (shutdown ~> ~ Alive)

=============================================================================
