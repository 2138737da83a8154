---------------------------- MODULE SessionState ----------------------------
(***************************************************************************)
(* The FIX session state machine (babelfix-core/src/session/state.rs).     *)
(*                                                                         *)
(* A SessionState is a record.  Every method is an operator that takes the *)
(* state s and the output sink out (a sequence, to which transmissions and *)
(* events are appended) and returns                                        *)
(*                                                                         *)
(*   [s |-> new state, out |-> outputs so far, res |-> how it ended]       *)
(*                                                                         *)
(* where res is "Continue", "Close" or "Err": Rust's Result<Progress>.     *)
(*                                                                         *)
(* Instants are held as the number of ticks left until them, never below   *)
(* zero: the code only compares instants with the present.  RawMessage     *)
(* events, CompIDs, texts and times of day are left out; nothing in the    *)
(* protocol depends on them.                                               *)
(***************************************************************************)
EXTENDS Replay, SequencesExt

CONSTANTS Interval,  \* the heartbeat interval, in ticks
          None       \* Rust's None

ASSUME IntervalAssumption == Interval \in Nat \ {0}

MissedHeartbeatsBeforeLogout == 3

Admin == {"0", "1", "2", "3", "4", "5", "A", "n"}
IsAdmin(msg) == msg.type \in Admin

\* A message is its type and the fields the session reads.  A field that is not
\* there is 0, or None for the TestReqID; seq is the MsgSeqNum.
Message(type) ==
  [type |-> type, seq |-> 0, begin |-> 0, end |-> 0, new |-> 0,
   gap_fill |-> FALSE, id |-> None, timed |-> TRUE, poss_dup |-> FALSE]

\* Outputs: a message on the wire, or an event for the application.
Transmitted(msg) == [event |-> "Transmit", msg |-> msg]
AdminSendRequired(msg) == [event |-> "AdminSendRequired", msg |-> msg]
MessageReceived(n) == [event |-> "MessageReceived", seq |-> n]
InboundAdvanced(n) == [event |-> "InboundAdvanced", seq |-> n]
ResendRequested(b, e) == [event |-> "ResendRequest", begin |-> b, end |-> e]
Plain(event) == [event |-> event]

Continue(s, out) == [s |-> s, out |-> out, res |-> "Continue"]
Close(s, out) == [s |-> s, out |-> out, res |-> "Close"]
Err(s, out) == [s |-> s, out |-> out, res |-> "Err"]

\* Go on with F unless the call before it closed the session or failed.
Then(r, F(_, _)) == IF r.res = "Continue" THEN F(r.s, r.out) ELSE r

-----------------------------------------------------------------------------

NewSession(next_in_seq_num) ==
  [ next_in_seq_num       |-> next_in_seq_num,
    highest_sent          |-> 0,
    highest_accepted      |-> 0,
    logon_sent            |-> FALSE,
    peer_logon_received   |-> FALSE,
    heartbeat_requested   |-> FALSE,
    closing               |-> None,
    rerequest_in_progress |-> None,
    recovery_tr_id        |-> None,
    replay                |-> None,
    peer_logout_pending   |-> FALSE,
    next_out              |-> Interval,
    next_in               |-> Interval,
    missed_heartbeats     |-> 0,
    test_request_seq      |-> 0 ]

ResetOut(s) == [s EXCEPT !.next_out = Interval]
ResetIn(s) == [s EXCEPT !.next_in = Interval, !.missed_heartbeats = 0]

Earlier(a, b) == IF a <= b THEN a ELSE b
Later(a, b) == IF a >= b THEN a ELSE b

\* Ticks left until the driver is to call OnTimeout.
NextDeadline(s) ==
  LET heartbeat == Earlier(s.next_out, s.next_in)
  IN  IF s.closing = None THEN heartbeat ELSE Earlier(s.closing, heartbeat)

-----------------------------------------------------------------------------
\* Admin requests

Request(s, out, msg) == Continue(s, Append(out, AdminSendRequired(msg)))

RequestLogon(s, out) == Request(s, out, Message("A"))

\* The TestReqIDs of synchronisation TestRequests are told apart by their
\* number; those of the heartbeat timer only have to differ from them.
RequestSyncTestRequest(s, out) ==
  LET tr_id == <<"HELO", s.test_request_seq + 1>>
  IN  Request([s EXCEPT !.test_request_seq = @ + 1, !.recovery_tr_id = tr_id],
              out, [Message("1") EXCEPT !.id = tr_id])

RequestLogout(s, out) ==
  IF s.closing # None THEN Continue(s, out)
  ELSE Request([s EXCEPT !.closing = Interval], out, Message("5"))

-----------------------------------------------------------------------------
\* Transmission

Transmit(s, out, msg) ==
  Continue([s EXCEPT !.highest_sent = Later(@, msg.seq)],
           Append(out, Transmitted(msg)))

\* What sending a new message means for the session.
DispatchOutbound(s, out, msg) ==
  LET sent == Transmit(s, out, msg)
  IN  CASE msg.type = "A" ->
             Continue([sent.s EXCEPT !.logon_sent = TRUE],
                      IF s.peer_logon_received
                      THEN Append(sent.out, Plain("LoggedOn")) ELSE sent.out)
        [] msg.type = "0" ->
             Continue([sent.s EXCEPT !.heartbeat_requested = FALSE], sent.out)
        [] msg.type = "5" -> Close(sent.s, sent.out)
        [] OTHER -> sent

\* A wrong form: it compares with what was sent.
SendRefusedBySent(s, msg) ==
  \/ msg.seq = 0
  \/ msg.type = "A" /\ s.logon_sent
  \/ msg.type # "A" /\ ~(s.logon_sent /\ s.peer_logon_received)
  \/ msg.seq <= s.highest_sent

\* The messages Command::Send refuses.  The settings check_logon compares are
\* those of the Logon the session itself asked for.
SendRefused(s, msg) ==
  \/ msg.seq = 0
  \/ msg.type = "A" /\ s.logon_sent
  \/ msg.type # "A" /\ ~(s.logon_sent /\ s.peer_logon_received)
  \/ msg.seq <= s.highest_accepted

\* A wrong form: every message counts.
SendAcceptedResets(s, msg) == ResetOut([s EXCEPT !.highest_accepted = msg.seq])

\* Only an application message counts as keeping the line busy.
SendAccepted(s, msg) ==
  LET accepted == [s EXCEPT !.highest_accepted = msg.seq]
  IN  IF IsAdmin(msg) THEN accepted ELSE ResetOut(accepted)

\* A wrong form: a message is not held back for a replay.
SendAtOnce(s, out, msg) ==
  IF SendRefused(s, msg) THEN Err(s, out)
  ELSE DispatchOutbound(SendAccepted(s, msg), out, msg)

\* Command::Send: accepted, and transmitted unless a replay is running.
Send(s, out, msg) ==
  LET accepted == SendAccepted(s, msg)
  IN  IF SendRefused(s, msg) THEN Err(s, out)
      ELSE IF s.replay # None
           THEN Continue([accepted EXCEPT !.replay = Defer(@, msg)], out)
           ELSE DispatchOutbound(accepted, out, msg)

\* The bounds are inclusive, so NewSeqNo is one past the end.
SendGapFill(s, out, gap) ==
  IF gap = NoGapFill THEN Continue(s, out)
  ELSE Transmit(s, out, [Message("4") EXCEPT !.seq = gap[1], !.new = gap[2] + 1,
                                             !.gap_fill = TRUE])

-----------------------------------------------------------------------------
\* Answering a ResendRequest

\* Session messages other than Reject and XMLnonFIX are never retransmitted.
GapFilled(msg) == IsAdmin(msg) /\ msg.type \notin {"3", "n"}

\* Command::Replay.  The offer is accounted for before the message is found to
\* carry no time, and refused.
ReplayMessage(s, out, msg) ==
  LET offer == Offer(s.replay, msg.seq, GapFilled(msg))
      offered == [s EXCEPT !.replay = offer.replay]
      resent == [msg EXCEPT !.poss_dup = TRUE]
  IN  IF s.replay = None THEN Err(s, out)
      ELSE IF offer.step # "Retransmit" THEN Continue(offered, out)
      ELSE IF ~msg.timed THEN Err(offered, out)
      ELSE Then(SendGapFill(offered, out, offer.gap_fill),
                LAMBDA s1, out1 : Transmit(s1, out1, resent))

\* A wrong form: the rest of the queue is sent after a Logout.
FlushQueueWhole(s, out, queue) ==
  FoldLeft(LAMBDA r, msg : DispatchOutbound(r.s, r.out, msg), Continue(s, out), queue)

\* Send what waited for the replay, up to a Logout if there is one.
FlushQueue(s, out, queue) ==
  FoldLeft(LAMBDA r, msg : Then(r, LAMBDA s1, out1 : DispatchOutbound(s1, out1, msg)),
           Continue(s, out), queue)

\* Command::ReplayComplete.
CompleteReplay(s, out) ==
  LET filled == SendGapFill(s, out, TrailingGapFill(s.replay))
      done == [filled.s EXCEPT !.replay = None]
  IN  IF s.replay = None THEN Err(s, out)
      ELSE Then(FlushQueue(done, filled.out, TakeQueue(s.replay)),
                LAMBDA s1, out1 : IF s1.closing = None
                                  THEN RequestSyncTestRequest(s1, out1)
                                  ELSE Continue(s1, out1))
-----------------------------------------------------------------------------
\* Inbound messages

\* Act on a message; in_sequence is FALSE for the ResendRequest serviced from
\* inside a gap, which does not use up its number.
DispatchMessage(s, out, msg, in_sequence) ==
  LET replay == ReplayStart(msg.begin, msg.end, s.highest_sent + 1)
      acted ==
        CASE msg.type = "0" /\ msg.id # None /\ msg.id = s.recovery_tr_id ->
               Continue([s EXCEPT !.recovery_tr_id = None],
                        Append(out, Plain("RecoveryCompleted")))
          [] msg.type = "1" ->
               IF msg.id = None THEN Err(s, out)
               ELSE Request(s, out, [Message("0") EXCEPT !.id = msg.id])
          [] msg.type = "2" ->
               IF s.replay # None \/ ~ReplayStartOk(msg.begin, msg.end)
               THEN Err(s, out)
               ELSE Continue(
                      [s EXCEPT !.replay = replay,
                                !.highest_accepted = Later(@, replay.end_seq_no)],
                      Append(out, ResendRequested(replay.begin_seq_no,
                                                  replay.end_seq_no)))
          [] msg.type = "5" -> RequestLogout(s, out)
          [] msg.type = "3" \/ ~IsAdmin(msg) ->
               Continue(s, Append(out, MessageReceived(msg.seq)))
          [] OTHER -> Continue(s, out)
  IN  IF in_sequence /\ IsAdmin(msg) /\ msg.type # "3"
      THEN Then(acted, LAMBDA s1, out1 :
                  Continue(s1, Append(out1, InboundAdvanced(s1.next_in_seq_num))))
      ELSE acted

\* The number expected after an in-sequence message; a gap fill names it.
Advanced(s, msg) ==
  LET next == IF msg.type = "4" THEN msg.new ELSE s.next_in_seq_num + 1
      closed == s.rerequest_in_progress # None /\ next >= s.rerequest_in_progress
  IN  [s EXCEPT !.next_in_seq_num = next,
                !.rerequest_in_progress = IF closed THEN None ELSE @]

\* Wrong forms: everything beyond a gap waits, a ResendRequest too; a message
\* beyond a gap is acted on as well.
HandleGapWaits(s, out, msg) ==
  IF s.rerequest_in_progress # None THEN Continue(s, out)
  ELSE Request([s EXCEPT !.rerequest_in_progress = msg.seq], out,
               [Message("2") EXCEPT !.begin = s.next_in_seq_num])
HandleGapTakes(s, out, msg) ==
  Then(Request([s EXCEPT !.rerequest_in_progress = msg.seq], out,
               [Message("2") EXCEPT !.begin = s.next_in_seq_num]),
       LAMBDA s1, out1 : DispatchMessage(s1, out1, msg, FALSE))

\* A number beyond the one expected: ask for the gap once, and discard the
\* message unless it is one that will never be retransmitted.
HandleGap(s, out, msg) ==
  LET asked ==
        IF s.rerequest_in_progress # None THEN Continue(s, out)
        ELSE Request([s EXCEPT !.rerequest_in_progress = msg.seq], out,
                     [Message("2") EXCEPT !.begin = s.next_in_seq_num])
  IN  CASE msg.type = "2" -> DispatchMessage(asked.s, asked.out, msg, FALSE)
        [] msg.type = "5" ->
             Continue([asked.s EXCEPT !.peer_logout_pending = TRUE], asked.out)
        [] OTHER -> asked

\* The message expected: take it, and acknowledge a Logout that waited for it.
HandleInSequence(s, out, msg) ==
  IF msg.type = "4" /\ msg.new <= msg.seq THEN Err(s, out)
  ELSE Then(DispatchMessage(Advanced(s, msg), out, msg, TRUE),
            LAMBDA s1, out1 :
              IF s1.peer_logout_pending /\ s1.rerequest_in_progress = None
              THEN RequestLogout(s1, out1) ELSE Continue(s1, out1))

HandleSessionMessage(s, out, msg) ==
  IF msg.seq = 0 \/ (msg.type = "4" /\ ~msg.gap_fill) THEN Err(s, out)
  ELSE IF msg.seq = s.next_in_seq_num THEN HandleInSequence(s, out, msg)
  ELSE IF msg.seq > s.next_in_seq_num THEN HandleGap(s, out, msg)
  ELSE RequestLogout(s, out)

-----------------------------------------------------------------------------
\* What the driver calls.  Commands are Send, above, and those below.

\* Process the peer's Logon, and ask for the synchronisation TestRequest.
Start(s, out, logon) ==
  Then(HandleSessionMessage(s, out, logon),
       LAMBDA s1, out1 :
         LET s2 == [s1 EXCEPT !.peer_logon_received = TRUE]
             out2 == IF s2.logon_sent THEN Append(out1, Plain("LoggedOn")) ELSE out1
         IN  IF s2.closing # None THEN Continue(s2, out1)
             ELSE RequestSyncTestRequest(s2, out2))

\* A wrong form: frames are handled while closing.
OnMessageClosing(s, out, msg) == HandleSessionMessage(ResetIn(s), out, msg)

OnMessage(s, out, msg) ==
  IF s.closing # None THEN Continue(ResetIn(s), out)
  ELSE HandleSessionMessage(ResetIn(s), out, msg)

OnReplay(s, out, msg) == ReplayMessage(ResetOut(s), out, msg)
OnReplayComplete(s, out) == CompleteReplay(ResetOut(s), out)
OnDisconnect(s, out) == RequestLogout(s, out)

\* The heartbeat we owe the peer.
OutboundTimeout(s, out) ==
  IF s.next_out > 0 THEN Continue(s, out)
  ELSE IF s.heartbeat_requested THEN Continue(ResetOut(s), out)
  ELSE Request([ResetOut(s) EXCEPT !.heartbeat_requested = TRUE], out, Message("0"))

\* A wrong form: the deadline is not moved on.
InboundTimeoutStuck(s, out) ==
  LET missed == s.missed_heartbeats + 1
      s1 == [s EXCEPT !.missed_heartbeats = missed]
  IN  IF s.next_in > 0 THEN Continue(s, out)
      ELSE IF missed < MissedHeartbeatsBeforeLogout THEN Continue(s1, out)
      ELSE RequestLogout(s1, out)

\* The heartbeat the peer owes us.
InboundTimeout(s, out) ==
  LET missed == s.missed_heartbeats + 1
      s1 == [s EXCEPT !.next_in = Interval, !.missed_heartbeats = missed]
  IN  IF s.next_in > 0 THEN Continue(s, out)
      ELSE CASE missed = 1 -> Continue(s1, out)
             [] missed = 2 ->
                  Request(s1, out, [Message("1") EXCEPT !.id = <<"HB", 0>>])
             [] missed >= MissedHeartbeatsBeforeLogout -> RequestLogout(s1, out)

\* A wrong form: the session waits for its Logout for ever.
OnTimeoutWaits(s, out) ==
  IF s.closing # None THEN Continue(s, out)
  ELSE Then(OutboundTimeout(s, out), LAMBDA s1, out1 : InboundTimeout(s1, out1))

OnTimeout(s, out) ==
  IF s.closing # None
  THEN IF s.closing = 0 THEN Close(s, out) ELSE Continue(s, out)
  ELSE Then(OutboundTimeout(s, out), LAMBDA s1, out1 : InboundTimeout(s1, out1))

OnPeerClosed(s, out) == Close(s, Append(out, Plain("Disconnected")))
=============================================================================
