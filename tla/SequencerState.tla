--------------------------- MODULE SequencerState ---------------------------
(***************************************************************************)
(* The message-centric sequencing policy                                   *)
(* (babelfix-core/src/sequencer.rs): number each outbound message, have it *)
(* persisted, and only then send it; follow which inbound messages have    *)
(* been handled, and have the number to resume from persisted.             *)
(*                                                                         *)
(* A Sequencer is a record, q, and its methods are operators on it.  What  *)
(* a method asks to be written is read off the record: the message just    *)
(* put in flight, or the watermark of NewMarks.  A message is any record   *)
(* with a type and a seq.  CompIDs and SendingTime are left out.           *)
(*                                                                         *)
(* SequencerOut.tla and SequencerIn.tla run the two halves of it against a *)
(* store that is slow, fails, and survives a crash; Sequenced.tla puts all *)
(* of it in front of a session, and Link.tla runs two of those.            *)
(***************************************************************************)
EXTENDS Integers, Sequences, FiniteSets

CONSTANT MaxInFlight  \* max_in_flight

ASSUME MaxInFlightAssumption == MaxInFlight \in Nat

\* InboundPolicy: what moves the watermark.
Policies == {"OnDelivery", "Contiguous", "Highest"}

Greater(a, b) == IF a >= b THEN a ELSE b

\* Sequencer::new, from a Resume.  Sequence numbers start at 1, so a
\* watermark_in_flight of 0 is Rust's None.
NewSequencer(policy, next_out_seq_num, next_in_seq_num) ==
  [ next_out_seq_num    |-> next_out_seq_num,
    in_flight           |-> << >>,
    ready               |-> << >>,
    logged_on           |-> FALSE,
    failed              |-> FALSE,
    policy              |-> policy,
    session_next_in     |-> next_in_seq_num,
    unhandled           |-> {},
    highest_handled     |-> next_in_seq_num,
    watermark_persisted |-> next_in_seq_num,
    watermark_in_flight |-> 0 ]

-----------------------------------------------------------------------------
\* Outbound

\* A wrong form: a failure is not remembered.
CheckLiveNot(q) == TRUE

\* check_live: no write has failed.
CheckLive(q) == ~q.failed

IsFull(q) == Len(q.in_flight) >= MaxInFlight

RequestWrite(q, msg) ==
  [q EXCEPT !.in_flight = Append(@, [msg |-> msg, persisted |-> FALSE])]

Numbered(q, msg) == [msg EXCEPT !.seq = q.next_out_seq_num]

\* A wrong form: the number is not used up.
AssignAgain(q, msg) == RequestWrite(q, Numbered(q, msg))

\* assign: number a message and ask for it to be written.
Assign(q, msg) ==
  RequestWrite([q EXCEPT !.next_out_seq_num = @ + 1], Numbered(q, msg))

\* A wrong form: numbering does not continue right after the message.
SendRawSkips(q, msg) ==
  RequestWrite([q EXCEPT !.next_out_seq_num = msg.seq + 2], msg)

\* send_raw: the message keeps its number, which may not go back.
SendRaw(q, msg) ==
  RequestWrite([q EXCEPT !.next_out_seq_num = msg.seq + 1], msg)

\* persisted: the write of n has completed ...
MarkPersisted(q, n) ==
  [q EXCEPT !.in_flight =
     [i \in DOMAIN @ |->
        IF @[i].msg.seq = n THEN [@[i] EXCEPT !.persisted = TRUE] ELSE @[i]]]

\* Wrong forms: the order is not kept; only the front is looked at.
DrainsToAll(q, k) == k = Len(q.in_flight)
DrainsToFirst(q, k) == k = IF q.in_flight[1].persisted THEN 1 ELSE 0

\* ... and the first k in flight are the ones that are now persisted in order.
DrainsTo(q, k) ==
  /\ \A i \in 1 .. k : q.in_flight[i].persisted
  /\ k < Len(q.in_flight) => ~q.in_flight[k + 1].persisted

Drained(q, k) ==
  [q EXCEPT !.ready = @ \o [i \in 1 .. k |-> q.in_flight[i].msg],
            !.in_flight = SubSeq(@, k + 1, Len(@))]

PersistFailed(q) == [q EXCEPT !.failed = TRUE]

\* pop_ready: before the session has logged on, only our Logon may go.
MayPop(q) ==
  /\ q.ready # << >>
  /\ q.logged_on \/ Head(q.ready).type = "A"

Popped(q) == [q EXCEPT !.ready = Tail(@)]

OnLoggedOn(q) == [q EXCEPT !.logged_on = TRUE]

-----------------------------------------------------------------------------
\* Inbound

FirstUnhandled(q) ==
  CHOOSE n \in q.unhandled : \A m \in q.unhandled : n <= m

\* A wrong form: messages in progress are forgotten.
WatermarkReceived(q) == q.session_next_in

\* watermark: the number to resume from, as things stand in memory.
Watermark(q) ==
  CASE q.policy = "OnDelivery" -> q.session_next_in
    [] q.policy = "Contiguous" -> IF q.unhandled = {} THEN q.session_next_in
                                                    ELSE FirstUnhandled(q)
    [] q.policy = "Highest" -> q.highest_handled

\* A wrong form: a write is started while another is in flight.
WatermarkDueAlways(q) == Watermark(q) > q.watermark_persisted

\* persist_watermark: one write at a time, and only forwards.
WatermarkDue(q) ==
  Watermark(q) > q.watermark_persisted /\ q.watermark_in_flight = 0

PersistWatermark(q) ==
  IF WatermarkDue(q) THEN [q EXCEPT !.watermark_in_flight = Watermark(q)] ELSE q

\* The watermark writes PersistWatermark(q) starts.
NewMarks(q) == IF WatermarkDue(q) THEN {Watermark(q)} ELSE {}

\* A wrong form: the next number expected is one too far.
OnMessageReceivedSkips(q, n) ==
  [q EXCEPT !.session_next_in = Greater(@, n + 2),
            !.unhandled = IF q.policy = "Contiguous" THEN @ \union {n} ELSE @]

\* on_session_event, handled and watermark_persisted, up to the call of
\* persist_watermark that ends each of them.
OnMessageReceived(q, n) ==
  [q EXCEPT !.session_next_in = Greater(@, n + 1),
            !.unhandled = IF q.policy = "Contiguous" THEN @ \union {n} ELSE @]

OnInboundAdvanced(q, n) ==
  [q EXCEPT !.session_next_in = Greater(@, n),
            !.highest_handled = IF q.policy = "Highest" THEN Greater(@, n) ELSE @]

Handled(q, n) ==
  [q EXCEPT !.unhandled = IF q.policy = "Contiguous" THEN @ \ {n} ELSE @,
            !.highest_handled = IF q.policy = "Highest" THEN Greater(@, n + 1) ELSE @]

\* A wrong form: the write in flight is not over.
WatermarkPersistedStuck(q, n) ==
  [q EXCEPT !.watermark_persisted = Greater(@, n)]

WatermarkPersisted(q, n) ==
  [q EXCEPT !.watermark_persisted = Greater(@, n),
            !.watermark_in_flight = IF @ = n THEN 0 ELSE @]
=============================================================================
