-------------------------------- MODULE Link --------------------------------
(***************************************************************************)
(* Two engines on one FIX session, over connection after connection: the   *)
(* logon exchange and the life of a session as the tokio endpoint runs     *)
(* them (babelfix-tokio/src/endpoint.rs, session.rs, store.rs), each end   *)
(* with its session, its sequencer and its durable store, resuming from    *)
(* that store every time.                                                  *)
(*                                                                         *)
(* The application is the one the documentation describes: it answers a    *)
(* ResendRequest from its store, and resumes one past the highest number   *)
(* stored and from the stored watermark.  A connection is a FIFO of        *)
(* messages each way.  It can be lost, and an end can fail, at any moment; *)
(* both stop, in either order, before the next connection is made.         *)
(*                                                                         *)
(* Heartbeats and timeouts are in Session.tla; here the only clock is the  *)
(* closing one, which may run out at any moment.                           *)
(***************************************************************************)
EXTENDS Sequenced, FiniteSetsExt

CONSTANTS Senders,         \* the ends whose application sends messages
          FirstMarks,      \* the watermarks the ends may start with
          MaxOut,          \* bound: messages each application sends
          MaxConnections,  \* bound: connections made
          Slow             \* the connections during which the stores take time

Ends == {"initiator", "acceptor"}
Peer(x) == IF x = "initiator" THEN "acceptor" ELSE "initiator"

VARIABLES
  end,          \* what each end runs: see Down and Running
  wire,         \* wire[x]: messages on their way from x
  stored,       \* stored[x]: the outbound messages in x's store
  mark,         \* mark[x]: the inbound watermark in x's store
  got,          \* got[x]: numbers of the messages handed to x's application
  given,        \* given[x]: how many messages x's application has sent
  connections   \* connections made so far

vars == <<end, wire, stored, mark, got, given, connections>>

\* phase: "down"; "waiting", an acceptor with no Logon yet; "logon", an initiator
\* in its handshake; "exchange", the Logons exchanged, writes settling; "live".
Down == [phase |-> "down"]
Waiting == [phase |-> "waiting"]
Running(phase, e, bytes, recovered) ==
  [phase |-> phase, s |-> e.s, q |-> e.q, bytes |-> bytes, recovered |-> recovered]

IsRunning(x) == end[x].phase \in {"logon", "exchange", "live"}
IsLive(x) == end[x].phase = "live"

\* SessionStore: resume one past the highest number stored, from the watermark.
Resume(x) ==
  NewSequencer("OnDelivery", Max({m.seq : m \in stored[x]} \union {0}) + 1, mark[x])

-----------------------------------------------------------------------------
\* One pass of an end's loop

\* What persist_outbound keeps of a message: all of it, or a placeholder for one
\* that a replay gap-fills anyway.
Kept(m) == IF GapFilled(m) THEN [Message("0") EXCEPT !.seq = m.seq] ELSE m

\* The end stops: each write still under way has landed or not.
Stop(x, q, kept, kept_mark) ==
  /\ end' = [end EXCEPT ![x] = Down]
  /\ \E landed \in SUBSET {Kept(m) : m \in OutboundWrites(q)} :
       stored' = [stored EXCEPT ![x] = kept \union landed]
  /\ \E m \in {kept_mark} \union WatermarkWrites(q) : mark' = [mark EXCEPT ![x] = m]

\* During the logon exchange nothing is flushed until all writes are settled,
\* and only then does the loop of a live session begin.
Flushes(phase, r) ==
  \/ r.res = "Close"
  \/ r.res = "Continue" /\ (phase = "live" \/ Settled(r.q))

NextPhase(phase, r) == IF phase = "exchange" /\ Settled(r.q) THEN "live" ELSE phase

\* A pass of the end x, which was in the given phase, produced r; wires is what
\* it left to read, kept and kept_mark what is in its store.
PassTo(x, phase, r, wires, kept, kept_mark) ==
  LET bytes == (IF IsRunning(x) THEN end[x].bytes ELSE << >>) \o Transmissions(r.out)
      recovered == Recovered(r.out) \/ (IsRunning(x) /\ end[x].recovered)
      unread == IF r.res = "Continue" THEN wires ELSE [wires EXCEPT ![Peer(x)] = << >>]
  IN  /\ wire' = [unread EXCEPT ![x] =
           IF Flushes(phase, r) /\ end[Peer(x)] # Down THEN @ \o bytes ELSE @]
      /\ got' = [got EXCEPT ![x] = @ \o Deliveries(r.out)]
      /\ IF r.res = "Continue"
         THEN /\ end' = [end EXCEPT ![x] =
                   Running(NextPhase(phase, r), r,
                           IF Flushes(phase, r) THEN << >> ELSE bytes, recovered)]
              /\ stored' = [stored EXCEPT ![x] = kept]
              /\ mark' = [mark EXCEPT ![x] = kept_mark]
         ELSE Stop(x, r.q, kept, kept_mark)
      /\ UNCHANGED connections

\* With a store that takes no time, what the pass asked to be written is written,
\* and fed back, before the pass ends.
Pass(x, phase, asked, wires, kept, kept_mark) ==
  \E r \in {asked} :
    \/ /\ connections \in Slow
       /\ PassTo(x, phase, r, wires, kept, kept_mark)
    \/ /\ connections \notin Slow
       /\ \E done \in {CompleteReady(r)} :
            PassTo(x, phase, done, wires,
                   kept \union {Kept(m) : m \in OutboundWrites(r.q)},
                   Max({kept_mark, r.q.watermark_in_flight,
                        done.q.watermark_persisted}))

\* A pass on a message from the peer, and one on anything else.
Reads(x, phase, r) ==
  Pass(x, phase, r, [wire EXCEPT ![Peer(x)] = Tail(@)], stored[x], mark[x])
Runs(x, r) == Pass(x, end[x].phase, r, wire, stored[x], mark[x])

-----------------------------------------------------------------------------
\* The logon exchange

Init ==
  /\ end = [x \in Ends |-> Down]
  /\ wire = [x \in Ends |-> << >>]
  /\ stored = [x \in Ends |-> {}]
  /\ mark \in FirstMarks
  /\ got = [x \in Ends |-> << >>]
  /\ given = [x \in Ends |-> 0]
  /\ connections = 0

\* initiate_connection and accept_connection begin: the initiator's Logon is asked
\* for, and numbered.
Connect ==
  /\ \A x \in Ends : end[x] = Down
  /\ connections < MaxConnections
  /\ connections' = connections + 1
  /\ wire' = [x \in Ends |-> << >>]
  /\ end' = [x \in Ends |->
       IF x = "acceptor" THEN Waiting
       ELSE Running("logon", Initiate(Resume(x), mark[x]), << >>, FALSE)]
  /\ UNCHANGED <<stored, mark, got, given>>

\* The acceptor reads the Logon that names the session, is given its set-up, and
\* accepts.
Accept ==
  /\ end["acceptor"] = Waiting
  /\ wire["initiator"] # << >>
  /\ Reads("acceptor", "exchange",
           AcceptLogon(Resume("acceptor"), mark["acceptor"], Head(wire["initiator"])))
  /\ UNCHANGED given

\* The initiator, its own Logon settled and sent, reads the answer.
OnPeerLogon ==
  LET e == end["initiator"]
  IN  /\ e.phase = "logon"
      /\ Settled(e.q)
      /\ wire["acceptor"] # << >>
      /\ Reads("initiator", "exchange",
               Through(e.q, Start(e.s, << >>, Head(wire["acceptor"]))))
      /\ UNCHANGED given

-----------------------------------------------------------------------------
\* The store

\* A write completes, in settle or in the loop.
Complete(x) ==
  /\ IsRunning(x)
  /\ \/ \E m \in OutboundWrites(end[x].q) :
          Pass(x, end[x].phase, CompleteOutbound(end[x].s, end[x].q, m.seq), wire,
               stored[x] \union {Kept(m)}, mark[x])
     \/ \E n \in WatermarkWrites(end[x].q) :
          Pass(x, end[x].phase, CompleteWatermark(end[x].s, end[x].q), wire,
               stored[x], n)
  /\ UNCHANGED given

-----------------------------------------------------------------------------
\* The loop of a live session

OnBytes(x) ==
  /\ IsLive(x)
  /\ wire[Peer(x)] # << >>
  /\ Reads(x, "live", Through(end[x].q, OnMessage(end[x].s, << >>, Head(wire[Peer(x)]))))
  /\ UNCHANGED given

\* Commands are taken while the sequencer is not full.
Accepting(x) == IsLive(x) /\ ~IsFull(end[x].q)

SendMessage(x) ==
  /\ Accepting(x)
  /\ given[x] < MaxOut
  /\ given' = [given EXCEPT ![x] = @ + 1]
  /\ Runs(x, [s |-> end[x].s, q |-> Assign(end[x].q, Message("D")), out |-> << >>,
              res |-> "Continue"])

\* The application answers a ResendRequest from its store: the messages of the
\* range, in order, and then that it is done.
Offered(x, r, n) ==
  LET found == {m \in stored[x] : m.seq = n}
  IN  IF found = {} THEN r
      ELSE Then(r, LAMBDA s, out : OnReplay(s, out, CHOOSE m \in found : TRUE))

AnswerResend(x) ==
  LET s == end[x].s
      begin == s.replay.begin_seq_no
      range == [i \in 1 .. s.replay.end_seq_no + 1 - begin |-> begin + i - 1]
      offered == FoldLeft(LAMBDA r, n : Offered(x, r, n), Continue(s, << >>), range)
  IN  /\ Accepting(x)
      /\ s.replay # None
      /\ Runs(x, Through(end[x].q, Then(offered, OnReplayComplete)))
      /\ UNCHANGED given

\* Endings by choice or by accident are bounded: the last connection has none.
MayEnd == connections < MaxConnections

Disconnect(x) ==
  /\ Accepting(x) /\ end[x].s.closing = None /\ MayEnd
  /\ Runs(x, Through(end[x].q, OnDisconnect(end[x].s, << >>)))
  /\ UNCHANGED given

\* The closing deadline passes before the Logout has gone out.
ClosingTimeout(x) ==
  /\ IsLive(x) /\ end[x].s.closing # None
  /\ Runs(x, OnTimeout([end[x].s EXCEPT !.closing = 0], << >>) @@ [q |-> end[x].q])
  /\ UNCHANGED given

-----------------------------------------------------------------------------
\* Endings

Ended(x) ==
  /\ IF IsRunning(x) THEN Stop(x, end[x].q, stored[x], mark[x])
     ELSE end' = [end EXCEPT ![x] = Down] /\ UNCHANGED <<stored, mark>>
  /\ wire' = [wire EXCEPT ![Peer(x)] = << >>]
  /\ UNCHANGED <<got, given, connections>>

\* The peer's end of the connection is gone; what it had sent may be lost.
PeerClosed(x) == end[x] # Down /\ end[Peer(x)] = Down /\ Ended(x)

\* The process dies, a write fails, the socket errs, the logon exchange times out.
Fail(x) == end[x] # Down /\ MayEnd /\ Ended(x)

Work(x) ==
  \/ Complete(x)
  \/ OnBytes(x)
  \/ AnswerResend(x)
  \/ ClosingTimeout(x)
  \/ PeerClosed(x)

Next ==
  \/ Connect
  \/ Accept
  \/ OnPeerLogon
  \/ \E x \in Ends : Work(x) \/ Disconnect(x) \/ Fail(x)
  \/ \E x \in Senders : SendMessage(x)

Spec == Init /\ [][Next]_vars

\* There is something to do that no application has to ask for.
Busy ==
  \/ \A x \in Ends : end[x] = Down /\ connections < MaxConnections
  \/ end["acceptor"] = Waiting /\ wire["initiator"] # << >>
  \/ \E x \in Ends :
       \/ IsRunning(x) /\ ~Settled(end[x].q)
       \/ end[x].phase \in {"logon", "live"} /\ wire[Peer(x)] # << >>
       \/ IsLive(x) /\ (end[x].s.replay # None \/ end[x].s.closing # None)
       \/ end[x] # Down /\ end[Peer(x)] = Down

\* An end's loop waits on everything at once, so it does not rest while there is
\* something to do: weak fairness of all such steps together.
Fairness == []<>~Busy \/ []<><<TRUE>>_vars

FairSpec == Spec /\ Fairness

-----------------------------------------------------------------------------
AppNumbers(x) == {m.seq : m \in {k \in stored[x] : k.type = "D"}}

\* End to end: what an application is handed is what the other end stored, in the
\* order of its numbers with none passed over, whatever was lost with earlier
\* connections.  Only a new connection goes back.
DeliveredAsStored ==
  \A x \in Ends :
    \A i \in DOMAIN got[x] :
      LET before == IF i = 1 THEN 0 ELSE got[x][i - 1]
      IN  /\ got[x][i] \in AppNumbers(Peer(x))
          /\ \A n \in AppNumbers(Peer(x)) : ~(before < n /\ n < got[x][i])

\* The watermark in one end's store never passes a message in the other's that has
\* not been handed over: resuming from it asks for everything still owed.
MarkMeansDelivered ==
  \A x \in Ends : \A n \in AppNumbers(Peer(x)) :
    n < mark[x] => n \in Range(got[x])

\* Because a message is stored before it is sent, two ends that resume from their
\* stores never see a number below the one they expect, which handle_session_message
\* answers with a fatal Logout.
NeverTooLow ==
  \A x \in Ends :
    wire[Peer(x)] # << >> =>
      LET n == Head(wire[Peer(x)]).seq
      IN  /\ IsLive(x) => n >= end[x].s.next_in_seq_num
          /\ end[x].phase \in {"waiting", "logon"} => n >= mark[x]

\* Both ends are live and told that recovery is over, each expects the number the
\* other uses next, has it stored, and has handed over all the other's messages.
Agreed ==
  /\ \A x \in Ends : IsLive(x)
  /\ \A x \in Ends :
       /\ end[x].recovered
       /\ end[x].s.next_in_seq_num = end[Peer(x)].q.next_out_seq_num
       /\ mark[x] = end[x].s.next_in_seq_num
       /\ AppNumbers(Peer(x)) \subseteq Range(got[x])

\* Once connections are no longer ended from outside, the two ends come to agree:
\* both gaps are filled, although each end may be asking the other at once, both
\* synchronisation TestRequests are answered, and no end refuses what the other sends.
ComesToAgree == <>[]Agreed

\* CONFORMANCE.md: a Logout is sent before the transport is closed.  So a closing end
\* with nothing left to write, and no replay to wait for, has sent its Logout.
LogoutGoesOut ==
  \A x \in Ends :
    IsLive(x) /\ end[x].s.closing # None /\ end[x].s.replay = None
      => ~Settled(end[x].q)
=============================================================================
