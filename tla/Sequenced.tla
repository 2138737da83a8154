----------------------------- MODULE Sequenced -----------------------------
(***************************************************************************)
(* A session with a sequencer in front of it, as one end of a connection   *)
(* runs them: Sequencer::on_session_event and release                      *)
(* (babelfix-core/src/sequencer.rs) joined to the SessionState, and the    *)
(* feeding back of completed writes by Sequenced                           *)
(* (babelfix-tokio/src/store.rs).                                          *)
(*                                                                         *)
(* An engine is [s |-> session, q |-> sequencer].  Every operator returns  *)
(*                                                                         *)
(*   [s, q, out |-> what the session put out, res |-> how it ended]        *)
(*                                                                         *)
(* as those of SessionState do.  The writes under way are the messages in  *)
(* q.in_flight not marked persisted, and q.watermark_in_flight.            *)
(***************************************************************************)
EXTENDS SessionState, SequencerState

\* on_session_event: what the sequencer makes of one output of the session.
OnSessionEvent(q, o) ==
  CASE o.event = "AdminSendRequired" -> Assign(q, o.msg)
    [] o.event = "LoggedOn" -> OnLoggedOn(q)
    [] o.event = "MessageReceived" -> PersistWatermark(OnMessageReceived(q, o.seq))
    [] o.event = "InboundAdvanced" -> PersistWatermark(OnInboundAdvanced(q, o.seq))
    [] OTHER -> q

\* A session call that returned r, its outputs passed through the sequencer.
Through(q, r) ==
  [s |-> r.s, q |-> FoldLeft(OnSessionEvent, q, r.out), out |-> r.out, res |-> r.res]

\* One turn of release's loop.
ReleaseOne(e) ==
  LET r == Through(Popped(e.q), Send(e.s, << >>, Head(e.q.ready)))
  IN  [r EXCEPT !.out = e.out \o @]

\* release: send what is ready, until it may not go or the session ends.
Release(e) ==
  FoldLeft(LAMBDA r, i : IF r.res = "Continue" /\ MayPop(r.q)
                         THEN ReleaseOne(r) ELSE r,
           e, [i \in 1 .. Len(e.q.ready) |-> i])

\* Sequenced::complete, for the write of the message numbered n ...
CompleteOutbound(s, q, n) ==
  LET marked == MarkPersisted(q, n)
      k == CHOOSE k \in 0 .. Len(q.in_flight) : DrainsTo(marked, k)
  IN  Release([s |-> s, q |-> Drained(marked, k), out |-> << >>, res |-> "Continue"])

\* ... and for that of the watermark.
CompleteWatermark(s, q) ==
  [s |-> s, q |-> PersistWatermark(WatermarkPersisted(q, q.watermark_in_flight)),
   out |-> << >>, res |-> "Continue"]

\* The writes under way.
OutboundWrites(q) ==
  {q.in_flight[i].msg : i \in {j \in DOMAIN q.in_flight : ~q.in_flight[j].persisted}}
WatermarkWrites(q) == {q.watermark_in_flight} \ {0}

\* Writes::is_empty: what the logon exchange waits for.
Settled(q) == OutboundWrites(q) = {} /\ WatermarkWrites(q) = {}

\* complete_ready and settle, with a store whose writes complete at once: feed
\* them all back, unless one ends the session.
CompleteOne(e) ==
  LET oldest == CHOOSE m \in OutboundWrites(e.q) :
                  \A k \in OutboundWrites(e.q) : m.seq <= k.seq
      r == IF OutboundWrites(e.q) # {} THEN CompleteOutbound(e.s, e.q, oldest.seq)
           ELSE CompleteWatermark(e.s, e.q)
  IN  [r EXCEPT !.out = e.out \o @]

CompleteReady(e) ==
  FoldLeft(LAMBDA r, i : IF r.res = "Continue" /\ ~Settled(r.q)
                         THEN CompleteOne(r) ELSE r,
           e, [i \in 1 .. Len(e.q.in_flight) + 2 |-> i])

-----------------------------------------------------------------------------
\* The logon exchange

\* InitiatorHandshake::start.
Initiate(q, next_in_seq_num) ==
  Through(q, RequestLogon(NewSession(next_in_seq_num), << >>))

\* AcceptorHandshake::accept: our reply is asked for before the Logon is acted on.
AcceptLogon(q, next_in_seq_num, logon) ==
  LET asked == RequestLogon(NewSession(next_in_seq_num), << >>)
  IN  Through(q, Start(asked.s, asked.out, logon))

-----------------------------------------------------------------------------
\* What the outputs of a call hold

Transmissions(out) ==
  LET sent == SelectSeq(out, LAMBDA o : o.event = "Transmit")
  IN  [i \in DOMAIN sent |-> sent[i].msg]

Deliveries(out) ==
  LET received == SelectSeq(out, LAMBDA o : o.event = "MessageReceived")
  IN  [i \in DOMAIN received |-> received[i].seq]

Recovered(out) == \E i \in DOMAIN out : out[i].event = "RecoveryCompleted"
=============================================================================
