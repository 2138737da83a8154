------------------------------ MODULE Session -------------------------------
(***************************************************************************)
(* One end of a FIX connection: the logon exchange                         *)
(* (babelfix-core/src/session/handshake.rs) and then the session of        *)
(* SessionState.tla, called by a driver, an application and a clock.       *)
(*                                                                         *)
(* The peer's side is its numbered stream of messages.  Any of them may    *)
(* arrive at any time or never, what may be retransmitted any number of    *)
(* times, and a gap fill may stand in for any run of them: what is lost,   *)
(* repeated, reordered or resent is all there.                             *)
(* The application sends back what the session asks for, numbered as it    *)
(* likes, and sends, replays and disconnects when it likes.                *)
(***************************************************************************)
EXTENDS SessionState, FiniteSets

CONSTANTS Roles,         \* the roles tried, of "initiator" and "acceptor"
          Stream,        \* the peer's messages, by MsgSeqNum
          GapFills,      \* the gap fills it may send: pairs <<MsgSeqNum, NewSeqNo>>
          MaxPending,    \* frames stop while this many requests wait to be sent
          FirstIn,       \* the inbound numbers the session may resume from
          OutSeqNums,    \* the numbers the application puts on messages
          LogonTimeout,  \* ticks allowed for the logon exchange
          Timed,         \* whether time passes
          Punctual,      \* the drivers tried: TRUE is never late with a timeout
          Clocked        \* whether idle and silence are counted

ASSUME SessionAssumption ==
  /\ Roles \subseteq {"initiator", "acceptor"}
  /\ FirstIn \subseteq Nat \ {0}
  /\ OutSeqNums \subseteq Nat \ {0}
  /\ LogonTimeout \in Nat
  /\ Punctual \subseteq BOOLEAN
  /\ {Timed, Clocked} \subseteq BOOLEAN

VARIABLES
  phase,     \* "waiting", "identified", "logon", "live", "closed" or "failed"
  s,         \* the SessionState; None before the acceptor has one
  deadline,  \* ticks left for the logon exchange
  logon,     \* AcceptorHandshake's pending Logon, or None
  pending,   \* admin messages asked of the application and not sent yet
  out,       \* what the last call put out
  peer,      \* "talking", or "silent" for good
  spent,     \* the peer's admin messages that have arrived
  setup,     \* the role, the inbound number to resume from, the driver
  \* Observations, which guard nothing:
  delivered, \* the numbers handed to the application, in order
  skipped,   \* the numbers the peer gap-filled
  top,       \* the highest number a new message carried on the wire
  deferred,  \* the number of a Logout received inside a gap, or 0
  idle,      \* ticks since the application last kept the line busy
  silence    \* ticks since the peer was last heard

vars == <<phase, s, deadline, logon, pending, out, peer, spent, setup,
          delivered, skipped, top, deferred, idle, silence>>

-----------------------------------------------------------------------------
\* Reading an output

IsTransmit(o) == o.event = "Transmit"
IsPiece(o) == IsTransmit(o) /\ (o.msg.type = "4" \/ o.msg.poss_dup)
IsNew(o) == IsTransmit(o) /\ ~IsPiece(o)
Emits(os, event) == \E i \in DOMAIN os : os[i].event = event

Requests(os) ==
  LET asked == SelectSeq(os, LAMBDA o : o.event = "AdminSendRequired")
  IN  [i \in DOMAIN asked |-> asked[i].msg]

Received(os) ==
  LET got == SelectSeq(os, LAMBDA o : o.event = "MessageReceived")
  IN  [i \in DOMAIN got |-> got[i].seq]

NewNumbers(os) ==
  LET new == SelectSeq(os, IsNew) IN [i \in DOMAIN new |-> new[i].msg.seq]

IsScheduledHeartbeat(msg) == msg.type = "0" /\ msg.id = None

-----------------------------------------------------------------------------

Ended == phase \in {"closed", "failed"}

\* A call into the session returned r; left is what the application still has
\* to send, and an error of a failing call is the end of the session.
Call(r, left, failing) ==
  /\ s' = r.s
  /\ out' = r.out
  /\ pending' = left \o Requests(r.out)
  /\ delivered' = delivered \o Received(r.out)
  /\ top' = IF NewNumbers(r.out) = << >> THEN top ELSE Last(NewNumbers(r.out))
  /\ phase' = CASE r.res = "Close" -> "closed"
                [] r.res = "Err" /\ failing -> "failed"
                [] OTHER -> IF phase = "logon" /\ ~r.s.peer_logon_received
                            THEN "logon" ELSE "live"
  /\ UNCHANGED <<setup, peer>>

\* The observations of a call that receives nothing.
NothingReceived == UNCHANGED <<deadline, logon, spent, skipped, deferred, silence>>

-----------------------------------------------------------------------------
\* The logon exchange

\* InitiatorHandshake::start, or AcceptorHandshake::new.
Init ==
  /\ setup \in [role : Roles, first_in : FirstIn, punctual : Punctual]
  /\ deadline = LogonTimeout
  /\ IF setup.role = "initiator"
     THEN LET r == RequestLogon(NewSession(setup.first_in), << >>)
          IN  phase = "logon" /\ s = r.s /\ out = r.out /\ pending = Requests(r.out)
     ELSE phase = "waiting" /\ s = None /\ out = << >> /\ pending = << >>
  /\ logon = None
  /\ peer = "talking" /\ spent = {}
  /\ delivered = << >> /\ skipped = {} /\ top = 0 /\ deferred = 0
  /\ idle = 0 /\ silence = 0

PeerMessage(n) == [Stream[n] EXCEPT !.seq = n]
PeerGapFill(n, new) ==
  [Message("4") EXCEPT !.seq = n, !.new = new, !.gap_fill = TRUE]

Fail ==
  /\ phase' = "failed"
  /\ out' = << >>
  /\ UNCHANGED <<s, deadline, logon, pending, peer, spent, setup, delivered,
                 skipped, top, deferred, idle, silence>>

\* InitiatorHandshake::on_peer_logon.
OnPeerLogon(n) ==
  LET msg == PeerMessage(n)
  IN  /\ phase = "logon" /\ peer = "talking"
      /\ IF msg.type # "A" \/ s.highest_sent = 0 THEN Fail
         ELSE /\ Call(Start(s, << >>, msg), pending, TRUE)
              /\ idle' = 0 /\ silence' = 0
              /\ UNCHANGED <<deadline, logon, spent, skipped, deferred>>

\* AcceptorHandshake::identify.
Identify(n) ==
  /\ phase \in {"waiting", "identified"} /\ peer = "talking"
  /\ IF phase = "identified" \/ PeerMessage(n).type # "A" THEN Fail
     ELSE /\ phase' = "identified"
          /\ logon' = PeerMessage(n)
          /\ out' = << >>
          /\ UNCHANGED <<s, deadline, pending, peer, spent, setup, delivered,
                         skipped, top, deferred, idle, silence>>

\* AcceptorHandshake::accept, once the application has settled on the session.
Accept ==
  LET asked == RequestLogon(NewSession(setup.first_in), << >>)
  IN  /\ phase = "identified"
      /\ Call(Start(asked.s, asked.out, logon), << >>, TRUE)
      /\ logon' = None
      /\ idle' = 0 /\ silence' = 0
      /\ UNCHANGED <<deadline, spent, skipped, deferred>>

\* The logon exchange took too long (handshake.rs, expired).
LogonExpires ==
  /\ phase \in {"waiting", "identified", "logon"}
  /\ Timed /\ deadline = 0
  /\ Fail
-----------------------------------------------------------------------------
\* The driver: a frame, the end of the connection, a deadline

\* A peer retransmits no admin message but a Reject, logs on once, and asks for
\* no resend before our Logon has told it what to expect.
Once(msg) == IsAdmin(msg) /\ msg.type \notin {"3", "4"}

Receivable(msg) ==
  /\ msg.type # "A"
  /\ msg.type = "2" => s.logon_sent
  /\ Once(msg) => msg.seq \notin spent

OnFrame(msg) ==
  LET gap == s.closing = None /\ msg.seq > s.next_in_seq_num
      taken == s.closing = None /\ msg.seq = s.next_in_seq_num
  IN  /\ phase = "live" /\ peer = "talking"
      /\ Len(pending) < MaxPending
      /\ Receivable(msg)
      /\ Call(OnMessage(s, << >>, msg), pending, TRUE)
      /\ skipped' = IF taken /\ msg.type = "4"
                    THEN skipped \union (msg.seq .. msg.new - 1) ELSE skipped
      /\ deferred' = IF gap /\ msg.type = "5" THEN Later(deferred, msg.seq)
                     ELSE deferred
      /\ spent' = IF Once(msg) THEN spent \union {msg.seq} ELSE spent
      /\ silence' = 0
      /\ UNCHANGED <<deadline, logon, idle>>

OnPeerEnds ==
  /\ phase = "live" /\ peer = "talking"
  /\ Call(OnPeerClosed(s, << >>), pending, TRUE)
  /\ NothingReceived /\ UNCHANGED idle

\* The driver calls on_timeout once the deadline it was told has passed.
Timeout ==
  /\ phase = "live" /\ Timed
  /\ NextDeadline(s) = 0
  /\ Call(OnTimeout(s, << >>), pending, TRUE)
  /\ NothingReceived /\ UNCHANGED idle

\* A punctual driver lets no time pass while a deadline has work waiting.
Overdue == phase = "live" /\ IF s.closing # None THEN s.closing = 0
                             ELSE NextDeadline(s) = 0

CountDown(t) == IF t > 0 THEN t - 1 ELSE 0

Tick ==
  /\ Timed /\ ~Ended
  /\ ~(setup.punctual /\ Overdue)
  /\ s' = IF s = None THEN None
          ELSE [s EXCEPT !.next_out = CountDown(@), !.next_in = CountDown(@),
                         !.closing = IF @ = None THEN None ELSE CountDown(@)]
  /\ deadline' = CountDown(deadline)
  /\ out' = << >>
  /\ idle' = IF Clocked THEN Earlier(idle + 1, Interval + 1) ELSE 0
  /\ silence' = IF Clocked
                THEN Earlier(silence + 1, MissedHeartbeatsBeforeLogout * Interval + 1)
                ELSE 0
  /\ UNCHANGED <<phase, logon, pending, peer, spent, setup, delivered, skipped,
                 top, deferred>>

\* The peer is never heard again, and its connection is not closed either.
PeerFallsSilent ==
  /\ Timed /\ peer = "talking"
  /\ peer' = "silent"
  /\ out' = << >>
  /\ UNCHANGED <<phase, s, deadline, logon, pending, spent, setup, delivered,
                 skipped, top, deferred, idle, silence>>

-----------------------------------------------------------------------------
\* The application's commands

Commanding == phase \in {"logon", "live"}

\* The admin message asked for first is given the next number and sent back.
SendAdmin ==
  LET free == {n \in OutSeqNums : n > s.highest_accepted}
      msg == [Head(pending) EXCEPT !.seq = Min(free)]
  IN  /\ Commanding /\ pending # << >> /\ free # {}
      /\ ~SendRefused(s, msg)
      /\ Call(Send(s, << >>, msg), Tail(pending), FALSE)
      /\ idle' = IF IsScheduledHeartbeat(msg) THEN 0 ELSE idle
      /\ NothingReceived

\* An application message numbered n: refused if n will not do.
SendApp(n) ==
  LET msg == [Message("D") EXCEPT !.seq = n]
  IN  /\ Commanding
      /\ Call(Send(s, << >>, msg), pending, FALSE)
      /\ idle' = IF SendRefused(s, msg) THEN idle ELSE 0
      /\ NothingReceived

\* What the application may have stored under n, sent or waiting for the replay:
\* an order with or without a time, or one of the session's own messages.
Stored(n) ==
  IF \/ n <= s.highest_sent
     \/ /\ s.replay # None
        /\ \E i \in DOMAIN s.replay.queue : s.replay.queue[i].seq = n
  THEN {[Message("D") EXCEPT !.seq = n], [Message("0") EXCEPT !.seq = n],
        [Message("D") EXCEPT !.seq = n, !.timed = FALSE]}
  ELSE {}

\* A stored message offered for retransmission.
OfferReplay(msg) ==
  /\ Commanding
  /\ Call(OnReplay(s, << >>, msg), pending, FALSE)
  /\ idle' = 0
  /\ NothingReceived

FinishReplay ==
  /\ Commanding
  /\ Call(OnReplayComplete(s, << >>), pending, FALSE)
  /\ idle' = 0
  /\ NothingReceived

\* Before the peer has answered, a disconnect just ends the exchange
\* (InitiatorHandshake::on_command).
Disconnect ==
  /\ Commanding
  /\ Call(IF phase = "logon" THEN Close(s, << >>) ELSE OnDisconnect(s, << >>),
          pending, FALSE)
  /\ NothingReceived /\ UNCHANGED idle

-----------------------------------------------------------------------------

PeerSends ==
  \/ \E n \in DOMAIN Stream :
       \/ OnPeerLogon(n)
       \/ Identify(n)
       \/ OnFrame(PeerMessage(n))
  \/ \E gap \in GapFills : OnFrame(PeerGapFill(gap[1], gap[2]))

AppCommands ==
  \/ \E n \in OutSeqNums :
       \/ SendApp(n)
       \/ Commanding /\ \E msg \in Stored(n) : OfferReplay(msg)
  \/ SendAdmin
  \/ FinishReplay
  \/ Disconnect

Next ==
  \/ PeerSends
  \/ AppCommands
  \/ Accept
  \/ OnPeerEnds
  \/ LogonExpires
  \/ Timeout
  \/ Tick
  \/ PeerFallsSilent

Spec == Init /\ [][Next]_vars
-----------------------------------------------------------------------------
\* Properties

Deliverable(msg) == msg.type = "3" \/ ~IsAdmin(msg)

\* The application is handed exactly the application messages and Rejects
\* between the number it resumed from and the one expected next, each once and
\* in order, except those the peer gap-filled -- however frames are lost,
\* repeated or reordered (handle_session_message, dispatch_message).
DeliveredExactly ==
  s # None =>
    delivered = SelectSeq(
      [i \in 1 .. s.next_in_seq_num - setup.first_in |-> setup.first_in + i - 1],
      LAMBDA n : n \in DOMAIN Stream \ skipped /\ Deliverable(Stream[n]))

\* Every new message goes out numbered beyond every new message before it, also
\* when some of them waited for a replay (send, dispatch_outbound,
\* complete_replay).
NewNumbersIncrease ==
  [][LET new == NewNumbers(out')
     IN  \A i \in DOMAIN new : new[i] > IF i = 1 THEN top ELSE new[i - 1]]_vars

\* A new message never carries a number a retransmission or a gap fill used:
\* whatever answers a resend goes out while the replay is in progress, and
\* nothing new goes out until it is over -- in the call that ends it, not before
\* the last of the answer (send, replay_message, complete_replay).
ResendUninterrupted ==
  [][\A i \in DOMAIN out' :
       /\ IsPiece(out'[i]) => s.replay # None
       /\ IsNew(out'[i]) => /\ s'.replay = None
                            /\ \A j \in i .. Len(out') : ~IsPiece(out'[j])]_vars

\* Once a Logout has been asked for, no frame has any effect, nothing more is
\* asked of the application, and it is handed nothing more (on_message,
\* request_logout, complete_replay).
ClosingIsQuiet ==
  [][s # None /\ s.closing # None =>
       /\ pending' # pending => pending' = Tail(pending)
       /\ UNCHANGED <<delivered, skipped>>
       /\ ~Emits(out', "InboundAdvanced") /\ ~Emits(out', "ResendRequest")]_vars

\* A Logout is the last thing on the wire and ends the session, including one
\* that waited for a replay with other messages behind it (dispatch_outbound,
\* complete_replay).
LogoutIsLast ==
  \A i \in DOMAIN out :
    IsTransmit(out[i]) /\ out[i].msg.type = "5" => i = Len(out) /\ phase = "closed"

\* A scheduled heartbeat is with the application, or behind a replay.
HeartbeatWaiting ==
  LET scheduled(q) == \E i \in DOMAIN q : IsScheduledHeartbeat(q[i])
  IN  scheduled(pending) \/ (s.replay # None /\ scheduled(s.replay.queue))

\* With a punctual driver no heartbeat interval goes by in which neither the
\* application nor a scheduled heartbeat kept the line busy, unless a heartbeat
\* asked for is still waiting to be sent.  Answering the peer's TestRequests does not
\* count: a peer that polls cannot suppress our heartbeats.  And a peer that stays
\* silent for MISSED_HEARTBEATS_BEFORE_LOGOUT intervals is being logged out (send,
\* on_timeout).
KeepsTime ==
  setup.punctual /\ phase = "live" /\ s.closing = None =>
    /\ idle <= Interval \/ HeartbeatWaiting
    /\ silence <= MissedHeartbeatsBeforeLogout * Interval

\* However late the driver is, a peer is not given up on before it has been
\* silent for two whole intervals: a late timeout counts once, not once for each
\* deadline it passed (Timers, on_timeout).
PatientWithPeer ==
  [][Timeout /\ s.closing = None /\ s'.closing # None
       => silence >= (MissedHeartbeatsBeforeLogout - 1) * Interval]_vars

\* The driver keeps calling and the clock keeps going.
Fairness == WF_vars(Tick) /\ WF_vars(Timeout) /\ WF_vars(LogonExpires)

FairSpec == Spec /\ Fairness

\* A session that has asked for a Logout ends, sent or not (closing's deadline); and
\* so does one whose peer is never heard again, whatever the application does
\* (on_timeout, request_logout).
SessionEnds == (peer = "silent" \/ (s # None /\ s.closing # None)) ~> Ended

-----------------------------------------------------------------------------
\* What comments in the source say of the session, and it does not do

\* A Logout received inside a gap is acknowledged only once every message that
\* precedes it has been recovered (state.rs, handle_session_message: "Recover
\* first, acknowledge afterwards").
RecoverFirst ==
  [][s # None /\ s.peer_logout_pending /\ s.closing = None /\ s'.closing # None
       /\ s'.next_in_seq_num > s.next_in_seq_num
       => s'.next_in_seq_num >= deferred]_vars
=============================================================================
