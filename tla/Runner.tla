------------------------------- MODULE Runner -------------------------------
(***************************************************************************)
(* A session's task and the application it serves: how a connection is     *)
(* made and its session started (babelfix-tokio/src/endpoint.rs), the loop *)
(* that runs it, and the bounded channels between the two                  *)
(* (babelfix-tokio/src/session.rs).                                        *)
(*                                                                         *)
(* What a session does with its input is in Session.tla and Link.tla; here *)
(* a pass over it emits any number of events, starts and completes writes, *)
(* and has any outcome.  The application may run on another thread, so it  *)
(* can act between any two events of a pass.                               *)
(*                                                                         *)
(* An event is its place in the order in which the session emitted them;   *)
(* 0 is SessionEvent::Disconnected.                                        *)
(***************************************************************************)
EXTENDS Integers, Sequences

CONSTANTS Depth,        \* EndpointConfig::channel_depth
          MaxInFlight,  \* the sequencer's limit on writes in flight
          MaxPass,      \* bound: events the session emits for one input
          MaxEvents,    \* bound: events the session emits in all
          Attentive     \* the application reads its events whatever else it does

ASSUME RunnerAssumption ==
  /\ Depth \in Nat
  /\ MaxInFlight \in Nat \ {0}
  /\ MaxPass \in Nat \ {0}
  /\ MaxEvents \in Nat
  /\ Attentive \in BOOLEAN

VARIABLES
  role,      \* "initiator" or "acceptor"
  pc,        \* where the task is: see Places
  then,      \* where it goes after the flush under way or to come
  todo,      \* events the session has yet to emit in this pass
  emitted,   \* events the session has emitted
  queue,     \* Delivery's events: those the channel could not take
  chan,      \* the channel of events
  heard,     \* the events the application has received
  cmds,      \* commands in the channel of commands
  inflight,  \* writes in flight
  app        \* what the application has: see Apps

vars ==
  <<role, pc, then, todo, emitted, queue, chan, heard, cmds, inflight, app>>

\* "connect": connecting, or listening.  "identify", "setup", "logon": the logon
\* exchange.  "pass": inside the session.  "settle": waiting for the writes of the
\* exchange.  "drain", "write": the two halves of a flush.  "start": the exchange is
\* over.  "run": the select of the loop.  "stopped": no session came of it.
\* "closed", "failed": one did, and it is over.
Over == {"closed", "failed"}
Before == {"connect", "backoff", "identify", "setup", "stopped"}
Places == Before \union Over \union
  {"logon", "pass", "settle", "drain", "write", "start", "run"}

\* "alone": no handle yet.  "offered": it is on its way.  "holding": the application
\* has it.  "listening": it has dropped `tx`.  "gone": it has dropped the handle.
Apps == {"alone", "offered", "holding", "listening", "gone"}

Disconnected == 0

Init ==
  /\ role \in {"initiator", "acceptor"}
  /\ pc = "connect"
  /\ then = "logon"
  /\ todo = 0
  /\ emitted = 0
  /\ queue = <<>>
  /\ chan = <<>>
  /\ heard = <<>>
  /\ cmds = 0
  /\ inflight = 0
  /\ app = IF role = "initiator" THEN "holding" ELSE "alone"

-----------------------------------------------------------------------------
\* The channels.  A futures channel gives every sender a slot of its own beyond the
\* depth: a sender can send while at most Depth messages are there.  The application
\* is the one sender of commands.  Of events, the Delivery is one and the
\* Disconnector, which sends once, another.
EventsFull == Len(chan) > Depth
CommandsFull == cmds > Depth

\* A wrong form: an event that fits overtakes those that are waiting.
DeliverAhead(e) ==
  IF EventsFull
    THEN queue' = Append(queue, e) /\ UNCHANGED chan
    ELSE chan' = Append(chan, e) /\ UNCHANGED queue

\* Delivery::event: once anything is queued, everything is until the queue drains.
Deliver(e) ==
  IF queue # <<>> \/ EventsFull
    THEN queue' = Append(queue, e) /\ UNCHANGED chan
    ELSE chan' = Append(chan, e) /\ UNCHANGED queue

\* A wrong form: the Disconnector has no sender of its own.
DisconnectorShares ==
  IF app = "gone" \/ EventsFull THEN chan ELSE Append(chan, Disconnected)

\* Disconnector::drop: try_send, on a sender that has sent nothing before.
Disconnector == IF app = "gone" THEN chan ELSE Append(chan, Disconnected)

\* The task ends.  The runner is dropped first, with whatever is still queued.
End(place) ==
  /\ pc' = place
  /\ todo' = 0
  /\ queue' = <<>>
  /\ chan' = Disconnector
  /\ inflight' = 0
  /\ UNCHANGED <<role, then, emitted, heard, cmds, app>>

-----------------------------------------------------------------------------
\* A pass over the session

\* The session is given an input, with w writes in flight after it; the task will go
\* on to `next`.
Begin(w, next) ==
  /\ pc' = "pass"
  /\ then' = next
  /\ todo' \in {k \in 0..MaxPass : emitted + k <= MaxEvents}
  /\ inflight' = w

\* The session emits an event.
Emit ==
  /\ pc = "pass"
  /\ todo > 0
  /\ IF app = "gone"
       THEN End("failed")
       ELSE /\ todo' = todo - 1
            /\ emitted' = emitted + 1
            /\ Deliver(emitted + 1)
            /\ UNCHANGED <<role, pc, then, heard, cmds, inflight, app>>

\* A wrong form: the application is not waited for.
FlushLater == "write"

\* SessionRunner::flush: the events that are queued, then the bytes.
Flush == IF queue = <<>> THEN "write" ELSE "drain"

\* The session returns.  The passes of the exchange are followed by settle, unless
\* the session is closing; the others by a flush.
PassContinues ==
  /\ pc = "pass"
  /\ todo = 0
  /\ pc' = IF then = "run" THEN Flush ELSE "settle"
  /\ UNCHANGED <<role, then, todo, emitted, queue, chan, heard, cmds, inflight, app>>

\* Nothing about sending our Logon can end the session.
PassCloses ==
  /\ pc = "pass"
  /\ todo = 0
  /\ then # "logon"
  /\ then' = "closed"
  /\ pc' = Flush
  /\ UNCHANGED <<role, todo, emitted, queue, chan, heard, cmds, inflight, app>>

\* An error goes up by `?`, past the flush.
PassFails ==
  /\ pc = "pass"
  /\ End("failed")

-----------------------------------------------------------------------------
\* Flushing

\* One queued event is sent.  The send is over once the channel has room again, and
\* only then does flush go on.
Drain ==
  /\ pc = "drain"
  /\ queue # <<>>
  /\ IF app = "gone"
       THEN End("failed")
       ELSE /\ ~EventsFull
            /\ chan' = Append(chan, Head(queue))
            /\ queue' = Tail(queue)
            /\ UNCHANGED <<role, pc, then, todo, emitted, heard, cmds, inflight, app>>

Drained ==
  /\ pc = "drain"
  /\ queue = <<>>
  /\ ~EventsFull
  /\ pc' = "write"
  /\ UNCHANGED <<role, then, todo, emitted, queue, chan, heard, cmds, inflight, app>>

\* The bytes are written.
Write ==
  /\ pc = "write"
  /\ IF then = "closed"
       THEN End("closed")
       ELSE /\ pc' = then
            /\ UNCHANGED <<role, then, todo, emitted, queue, chan, heard, cmds,
                           inflight, app>>

WriteFails ==
  /\ pc = "write"
  /\ End("failed")

-----------------------------------------------------------------------------
\* From a connection to a session

\* connect: an attempt fails; the backoff passes; Shutdown, heard in either.
ConnectFails ==
  /\ role = "initiator"
  /\ pc = "connect"
  /\ pc' = "backoff"
  /\ UNCHANGED <<role, then, todo, emitted, queue, chan, heard, cmds, inflight, app>>

Backoff ==
  /\ pc = "backoff"
  /\ pc' = "connect"
  /\ UNCHANGED <<role, then, todo, emitted, queue, chan, heard, cmds, inflight, app>>

\* Shutdown stops an endpoint that has no session; an acceptor's peer that names no
\* session, or takes too long; and the application that refuses one.
Stop ==
  /\ pc \in {"connect", "backoff", "identify", "setup"}
  /\ pc' = "stopped"
  /\ UNCHANGED <<role, then, todo, emitted, queue, chan, heard, cmds, inflight, app>>

\* initiate_connection: the Logon is asked for and its write started.
Connect ==
  /\ role = "initiator"
  /\ pc = "connect"
  /\ Begin(1, "logon")
  /\ UNCHANGED <<role, emitted, queue, chan, heard, cmds, app>>

\* The peer's Logon arrives, or does not.
LogonArrives ==
  /\ pc = "logon"
  /\ Begin(inflight, "start")
  /\ UNCHANGED <<role, emitted, queue, chan, heard, cmds, app>>

LogonFails ==
  /\ pc = "logon"
  /\ End("failed")

\* serve, accept_connection: a connection, and a Logon that names a session.
Listen ==
  /\ role = "acceptor"
  /\ pc = "connect"
  /\ pc' = "identify"
  /\ UNCHANGED <<role, then, todo, emitted, queue, chan, heard, cmds, inflight, app>>

Identify ==
  /\ pc = "identify"
  /\ pc' = "setup"
  /\ UNCHANGED <<role, then, todo, emitted, queue, chan, heard, cmds, inflight, app>>

\* A wrong form: the handle is kept until the session runs.
SetupKeeps ==
  /\ pc = "setup"
  /\ Begin(1, "start")
  /\ UNCHANGED <<role, emitted, queue, chan, heard, cmds, app>>

\* The application answers NewSession.  The handle is published before anything is
\* flushed, and the session accepted.
Setup ==
  /\ pc = "setup"
  /\ app' = "offered"
  /\ Begin(1, "start")
  /\ UNCHANGED <<role, emitted, queue, chan, heard, cmds>>

\* settle: no write is left.
Settled ==
  /\ pc = "settle"
  /\ inflight = 0
  /\ pc' = Flush
  /\ UNCHANGED <<role, then, todo, emitted, queue, chan, heard, cmds, inflight, app>>

\* EstablishedDriver::start: what came with the Logon is delivered.
Start ==
  /\ pc = "start"
  /\ \E w \in 0..1 : Begin(inflight + w, "run")
  /\ UNCHANGED <<role, emitted, queue, chan, heard, cmds, app>>

-----------------------------------------------------------------------------
\* The select of SessionRunner::run

\* The deadline passes, or bytes arrive: either may make the session send something.
Input ==
  /\ pc = "run"
  /\ \E w \in 0..1 : inflight + w <= MaxInFlight + 1 /\ Begin(inflight + w, "run")
  /\ UNCHANGED <<role, emitted, queue, chan, heard, cmds, app>>

\* A write completes: while settling, in the loop, or at the end of one of its passes
\* (complete_ready).  The session emits at most the message it sends.
Complete ==
  /\ inflight > 0
  /\ \/ pc \in {"settle", "run"}
     \/ pc = "pass" /\ todo = 0 /\ then = "run"
  /\ pc' = "pass"
  /\ then' = then
  /\ todo' \in {k \in 0..1 : emitted + k <= MaxEvents}
  /\ inflight' = inflight - 1
  /\ UNCHANGED <<role, emitted, queue, chan, heard, cmds, app>>

CompleteFails ==
  /\ inflight > 0
  /\ pc \in {"settle", "run"}
  /\ End("failed")

\* Commands are taken while the sequencer is not full.
Accepting == pc = "run" /\ inflight < MaxInFlight

TakeCommand ==
  /\ Accepting
  /\ cmds > 0
  /\ \E w \in 0..1 : Begin(inflight + w, "run")
  /\ cmds' = cmds - 1
  /\ UNCHANGED <<role, emitted, queue, chan, heard, app>>

CommandsClosed ==
  /\ Accepting
  /\ cmds = 0
  /\ app \in {"listening", "gone"}
  /\ End("closed")

\* The peer closes the connection; the session says so and is over.
PeerClosed ==
  /\ pc = "run"
  /\ IF app = "gone"
       THEN End("failed")
       ELSE /\ Deliver(Disconnected)
            /\ then' = "closed"
            /\ pc' = IF queue' = <<>> THEN "write" ELSE "drain"
            /\ UNCHANGED <<role, todo, emitted, heard, cmds, inflight, app>>

ReadFails ==
  /\ pc = "run"
  /\ End("closed")

-----------------------------------------------------------------------------
\* The application

TakeHandle ==
  /\ app = "offered"
  /\ app' = "holding"
  /\ UNCHANGED <<role, pc, then, todo, emitted, queue, chan, heard, cmds, inflight>>

\* An application that is one loop waits in a send while the channel of commands is
\* full and the session there to take them.
Stuck == ~Attentive /\ app = "holding" /\ CommandsFull /\ pc \notin Over

\* It receives an event.
Hear ==
  /\ app \in {"holding", "listening"}
  /\ chan # <<>>
  /\ ~Stuck
  /\ heard' = Append(heard, Head(chan))
  /\ chan' = Tail(chan)
  /\ UNCHANGED <<role, pc, then, todo, emitted, queue, cmds, inflight, app>>

\* A wrong form: a command is sent to a channel that is full.
SendOver ==
  /\ app = "holding"
  /\ pc \notin Over \union {"stopped"}
  /\ cmds' = cmds + 1
  /\ UNCHANGED <<role, pc, then, todo, emitted, queue, chan, heard, inflight, app>>

Send ==
  /\ app = "holding"
  /\ pc \notin Over \union {"stopped"}
  /\ ~CommandsFull
  /\ cmds' = cmds + 1
  /\ UNCHANGED <<role, pc, then, todo, emitted, queue, chan, heard, inflight, app>>

DropTx ==
  /\ app = "holding"
  /\ ~Stuck
  /\ app' = "listening"
  /\ UNCHANGED <<role, pc, then, todo, emitted, queue, chan, heard, cmds, inflight>>

DropHandle ==
  /\ ~Stuck
  /\ app \in {"offered", "holding", "listening"}
  /\ app' = "gone"
  /\ chan' = <<>>
  /\ UNCHANGED <<role, pc, then, todo, emitted, queue, heard, cmds, inflight>>

-----------------------------------------------------------------------------
Task ==
  \/ Emit \/ PassContinues \/ PassCloses \/ PassFails
  \/ Drain \/ Drained \/ Write \/ WriteFails
  \/ Settled \/ Start

Next ==
  \/ Task
  \/ ConnectFails \/ Backoff \/ Stop \/ Connect \/ LogonArrives \/ LogonFails
  \/ Listen \/ Identify \/ Setup
  \/ Input \/ Complete \/ CompleteFails \/ TakeCommand \/ CommandsClosed
  \/ PeerClosed \/ ReadFails
  \/ TakeHandle \/ Hear \/ Send \/ DropTx \/ DropHandle

Spec == Init /\ [][Next]_vars

\* The task goes on when it can; the peer's Logon has a deadline; a write that is
\* waited for completes; the application takes the handle and its events when it can.
Fairness ==
  /\ WF_vars(Task)
  /\ WF_vars(LogonFails)
  /\ WF_vars(Complete)
  /\ WF_vars(TakeHandle)
  /\ WF_vars(Hear)

FairSpec == Spec /\ Fairness

-----------------------------------------------------------------------------
\* The state is well formed, and neither channel holds more than its capacity.
TypeOK ==
  /\ role \in {"initiator", "acceptor"}
  /\ pc \in Places
  /\ then \in {"logon", "start", "run", "closed"}
  /\ todo \in 0..MaxPass
  /\ emitted \in 0..MaxEvents
  /\ queue \in Seq(0..MaxEvents)
  /\ chan \in Seq(0..MaxEvents) /\ Len(chan) <= Depth + 2
  /\ heard \in Seq(0..MaxEvents)
  /\ cmds \in 0..(Depth + 1)
  /\ inflight \in 0..(MaxInFlight + 1)
  /\ app \in Apps

\* Everything on its way to the application, oldest first.
Delivered == IF app = "gone" THEN heard ELSE heard \o chan \o queue

\* Delivery's ordering invariant, end to end: the application hears the session's
\* events in the order in which they were emitted, without gaps, and after
\* Disconnected nothing but a second Disconnected.  While the session lives, nothing
\* it emitted is missing.
InOrder ==
  /\ \A i \in DOMAIN Delivered :
       \/ Delivered[i] = i
       \/ /\ Delivered[i] = Disconnected
          /\ \A j \in i..Len(Delivered) : Delivered[j] = Disconnected
  /\ pc # "failed" /\ app # "gone" => Len(Delivered) >= emitted

\* "How far the session may run ahead of a slow consumer": the channel, and what one
\* trip round the loop emits, its completed writes included.  The flush at the end of
\* each pass waits for the application.
NotFarAhead ==
  app # "gone" => emitted - Len(heard) <= Depth + 1 + MaxPass + MaxInFlight + 1

\* A session that has begun always gets to its loop, and in the loop back to its
\* select, where heartbeats are sent and the socket is read; or it ends.
KeepsRunning == (pc \notin Before) ~> (pc \in Over \union {"run"})

\* However a session ends, an application that listens hears that it has; and if it
\* was not cut short, everything it emitted before.
EndIsHeard ==
  pc \in Over ~>
    \/ app = "gone"
    \/ /\ heard # <<>> /\ heard[Len(heard)] = Disconnected
       /\ pc = "closed" => Len(heard) > emitted
=============================================================================
