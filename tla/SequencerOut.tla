---------------------------- MODULE SequencerOut ----------------------------
(***************************************************************************)
(* The outbound half of the sequencer, over the connections of a session:  *)
(* number, write, send.  Its writes are run by babelfix-tokio/src/store.rs *)
(* and become durable in any order; any of them may fail, and the process  *)
(* may stop at any moment and resume from the store.                       *)
(*                                                                         *)
(* The session it sends through is what the sequencer sees of it           *)
(* (session/state.rs, handshake.rs): it asks for a Logon first, logs on    *)
(* once both Logons have been exchanged, closes at a Logout, and may       *)
(* refuse a message.  Sequenced.tla has the real one.               *)
(***************************************************************************)
EXTENDS SequencerState

CONSTANTS MaxOut,           \* the largest number that is given out
          MaxConnections    \* how many connections there are

ASSUME SequencerOutAssumption ==
  /\ MaxOut \in Nat \ {0}
  /\ MaxConnections \in Nat

VARIABLES
  q,           \* the Sequencer
  releasing,   \* what called release, while it runs and nothing else can be called
  ended,       \* the session closed, or failed
  peer_logon,  \* the session has the peer's Logon
  logon_sent,  \* it has sent ours
  writes,      \* the messages being written, Writes::in_flight and done
  landed,      \* those of them that are durable by now
  stored,      \* the store: the messages in it,
  highest,     \*   and the highest of their numbers
  sent,        \* the messages handed to the session, over all connections
  connections  \* how many connections there have been

vars == <<q, releasing, ended, peer_logon, logon_sent, writes, landed, stored,
          highest, sent, connections>>

Releasing == {"no", "persisted", "explicit"}

Types == {"A", "1", "5", "D"}
Messages == [type : Types, seq : 1 .. MaxOut]

\* A message not numbered yet.
Unnumbered(type) == [type |-> type, seq |-> 1]

\* The message a call has just put in flight.
Newest(q1) == q1.in_flight[Len(q1.in_flight)].msg

-----------------------------------------------------------------------------
\* A connection: a new Sequencer resumes one past what is stored, and the first
\* thing the session asks for is our Logon.  An acceptor has the peer's Logon
\* by then, and asks for the synchronisation TestRequest (or, the peer's number
\* being too low, the Logout) at once.
Logon(q1) == Assign(q1, Unnumbered("A"))

Connection ==
  LET first == Logon(NewSequencer("OnDelivery", highest + 1, 1))
  IN  \/ /\ q' = first
         /\ peer_logon' = FALSE
         /\ writes' = {Newest(first)}
      \/ \E type \in {"1", "5"} :
           /\ highest + 2 <= MaxOut
           /\ q' = Assign(first, Unnumbered(type))
           /\ peer_logon' = TRUE
           /\ writes' = {Newest(first), Newest(q')}

\* The first connection is an initiator's.
Init ==
  /\ q = Logon(NewSequencer("OnDelivery", 1, 1))
  /\ releasing = "no" /\ ended = FALSE /\ peer_logon = FALSE /\ logon_sent = FALSE
  /\ writes = {Newest(q)} /\ landed = {}
  /\ stored = {} /\ highest = 0
  /\ sent = {}
  /\ connections = 1

\* The process stops, or the session is over, and there is a new connection.
\* The writes that were not durable never will be.
Restart ==
  /\ connections < MaxConnections /\ highest < MaxOut
  /\ Connection
  /\ releasing' = "no" /\ ended' = FALSE /\ logon_sent' = FALSE
  /\ landed' = {}
  /\ connections' = connections + 1
  /\ UNCHANGED <<stored, highest, sent>>

-----------------------------------------------------------------------------
\* Numbering

\* A call can be made: the sequencer is not inside another.
Callable == releasing = "no" /\ ~ended

\* Number a message q1 is to send, and start its write (StoreSink::event).
Number(q1, msg) ==
  /\ q1.next_out_seq_num <= MaxOut
  /\ q' = Assign(q1, msg)
  /\ writes' = writes \union {Newest(q')}
  /\ UNCHANGED <<releasing, landed, stored, highest, sent, connections>>

\* Sequencer::send.  A full or a failed sequencer refuses the message.
SendApp ==
  /\ Callable /\ CheckLive(q) /\ ~IsFull(q)
  /\ Number(q, Unnumbered("D"))
  /\ UNCHANGED <<ended, peer_logon, logon_sent>>

\* Sequencer::send_raw, under the message's own number.
SendAppRaw(n) ==
  LET msg == [Unnumbered("D") EXCEPT !.seq = n]
  IN  /\ Callable /\ CheckLive(q)
      /\ n >= q.next_out_seq_num
      /\ q' = SendRaw(q, msg)
      /\ writes' = writes \union {msg}
      /\ UNCHANGED <<releasing, ended, peer_logon, logon_sent, landed, stored,
                     highest, sent, connections>>

\* Event::AdminSendRequired from an established session: an error, which ends
\* it, once a write has failed.
AdminSendRequired(type) ==
  /\ Callable /\ peer_logon
  /\ \/ /\ CheckLive(q)
        /\ Number(q, Unnumbered(type))
        /\ UNCHANGED ended
     \/ /\ ~CheckLive(q)
        /\ ended' = TRUE
        /\ UNCHANGED <<q, releasing, writes, landed, stored, highest, sent, connections>>
  /\ UNCHANGED <<peer_logon, logon_sent>>

\* An initiator's session takes the peer's Logon (InitiatorHandshake and
\* SessionState::start): LoggedOn and the TestRequest, or only the Logout when
\* its number is too low.  It is an error before ours has gone out.
PeerLogon(type) ==
  /\ Callable /\ ~peer_logon
  /\ \/ /\ logon_sent /\ CheckLive(q)
        /\ peer_logon' = TRUE
        /\ Number(IF type = "1" THEN OnLoggedOn(q) ELSE q, Unnumbered(type))
        /\ UNCHANGED ended
     \/ /\ ~logon_sent \/ ~CheckLive(q)
        /\ ended' = TRUE
        /\ UNCHANGED <<q, releasing, peer_logon, writes, landed, stored, highest, sent,
                       connections>>
  /\ UNCHANGED logon_sent

-----------------------------------------------------------------------------
\* Writing

\* The store makes a message durable.  Nobody knows yet.
Land(m) ==
  /\ m \in writes \ landed
  /\ landed' = landed \union {m}
  /\ stored' = stored \union {m}
  /\ highest' = Greater(highest, m.seq)
  /\ UNCHANGED <<q, releasing, ended, peer_logon, logon_sent, writes, sent, connections>>

\* A completion fed back (Sequenced::complete, Sequencer::persisted): what is
\* now persisted in order is ready, and release begins.
Persisted(m) ==
  LET marked == MarkPersisted(q, m.seq)
  IN  /\ Callable
      /\ m \in landed
      /\ writes' = writes \ {m} /\ landed' = landed \ {m}
      /\ \/ /\ ~CheckLive(q)
            /\ ended' = TRUE
            /\ UNCHANGED <<q, releasing>>
         \/ /\ CheckLive(q)
            /\ \E k \in 0 .. Len(q.in_flight) :
                 DrainsTo(marked, k) /\ q' = Drained(marked, k)
            /\ releasing' = "persisted"
            /\ UNCHANGED ended
      /\ UNCHANGED <<peer_logon, logon_sent, stored, highest, sent, connections>>

\* A failure fed back (Sequencer::persist_failed).  The write may be durable
\* all the same.
WriteFailed(m) ==
  /\ Callable
  /\ m \in writes
  /\ q' = PersistFailed(q)
  /\ writes' = writes \ {m} /\ landed' = landed \ {m}
  /\ UNCHANGED <<releasing, ended, peer_logon, logon_sent, stored, highest, sent,
                 connections>>

-----------------------------------------------------------------------------
\* Sending: release is a loop, one message at a time

\* A driver may also call it by itself.
Release ==
  /\ Callable
  /\ releasing' = "explicit"
  /\ UNCHANGED <<q, ended, peer_logon, logon_sent, writes, landed, stored, highest,
                 sent, connections>>

\* The session takes the message: our Logon may complete the exchange, and a
\* Logout closes the session.
ReleaseNext ==
  LET msg == Head(q.ready)
      popped == Popped(q)
  IN  /\ releasing # "no" /\ MayPop(q)
      /\ sent' = sent \union {msg}
      /\ logon_sent' = (logon_sent \/ msg.type = "A")
      /\ q' = IF msg.type = "A" /\ peer_logon THEN OnLoggedOn(popped) ELSE popped
      /\ ended' = (msg.type = "5")
      /\ releasing' = IF msg.type = "5" THEN "no" ELSE releasing
      /\ UNCHANGED <<peer_logon, writes, landed, stored, highest, connections>>

\* The session refuses the message, and the error ends it.
ReleaseRefused ==
  /\ releasing # "no" /\ MayPop(q)
  /\ q' = Popped(q)
  /\ ended' = TRUE /\ releasing' = "no"
  /\ UNCHANGED <<peer_logon, logon_sent, writes, landed, stored, highest, sent,
                 connections>>

ReleaseDone ==
  /\ releasing # "no" /\ ~MayPop(q)
  /\ releasing' = "no"
  /\ UNCHANGED <<q, ended, peer_logon, logon_sent, writes, landed, stored, highest,
                 sent, connections>>

-----------------------------------------------------------------------------

Next ==
  \/ SendApp
  \/ \E n \in 1 .. MaxOut : SendAppRaw(n)
  \/ \E type \in {"1", "5"} : AdminSendRequired(type) \/ PeerLogon(type)
  \/ \E m \in writes : Land(m) \/ Persisted(m) \/ WriteFailed(m)
  \/ Release \/ ReleaseNext \/ ReleaseRefused \/ ReleaseDone
  \/ Restart

Spec == Init /\ [][Next]_vars

-----------------------------------------------------------------------------
\* Properties

\* The type invariant.
TypeOK ==
  /\ q.next_out_seq_num \in 1 .. MaxOut + 1
  /\ q.in_flight \in Seq([msg : Messages, persisted : BOOLEAN])
  /\ q.ready \in Seq(Messages)
  /\ releasing \in Releasing
  /\ {q.logged_on, q.failed, ended, peer_logon, logon_sent} \subseteq BOOLEAN
  /\ writes \subseteq Messages /\ landed \subseteq writes
  /\ stored \subseteq Messages /\ sent \subseteq Messages
  /\ highest \in 0 .. MaxOut
  /\ connections \in Nat

\* What was sent under a number, on any connection, is the one message the store
\* has under it, however the writes finish and whenever the process stops: a
\* replay of a number can never differ from what first went out under it
\* (assign, persisted, Resume).
SentAsStored ==
  /\ sent \subseteq stored
  /\ \A a, b \in stored : a.seq = b.seq => a = b

\* Once a write has failed nothing more is sent, unless the driver calls release
\* by itself, which does not ask (check_live).
FailureStops ==
  [][q.failed /\ sent' # sent => releasing = "explicit"]_vars

Promise == INSTANCE PersistFirst WITH stored <- stored, sent <- sent

\* The sequencer keeps its promise (PersistFirst).
PersistsFirst == Promise!Spec

\* The store makes writes durable; the runner feeds their completions back in
\* the end, whatever else it calls in between; release runs to its end.
Fairness ==
  /\ WF_vars(\E m \in writes : Land(m))
  /\ SF_vars(\E m \in writes : Persisted(m))
  /\ WF_vars(ReleaseNext \/ ReleaseRefused \/ ReleaseDone)

FairSpec == Spec /\ Fairness

\* On a logged-on session everything numbered goes out in the end, unless a write
\* fails or the connection ends first.
EverythingGoesOut ==
  (q.logged_on /\ q.ready \o q.in_flight # << >>)
    ~> \/ q.ready = << >> /\ q.in_flight = << >>
       \/ ended \/ q.failed \/ ~q.logged_on
=============================================================================
