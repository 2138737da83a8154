------------------------- MODULE SequencerOutProofs -------------------------
(***************************************************************************)
(* Proofs about the outbound sequencer, for every number of messages and   *)
(* of connections: what is sent is what is stored, and the sequencer       *)
(* implements PersistFirst.                                                *)
(*                                                                         *)
(* The inductive invariant IInv says that the messages not sent yet form   *)
(* one line; SequencerOutLemmas shows that the operations keep it so.      *)
(***************************************************************************)
EXTENDS SequencerOutLemmas

\* The inductive invariant

\* A step that keeps the line keeps the invariant.
LEMMA StepKeeps ==
  ASSUME NEW r \in Sequencers,
         NEW ws \in SUBSET Messages, NEW land \in SUBSET ws,
         NEW st \in SUBSET Messages, NEW sn \in SUBSET Messages,
         q' = r, writes' = ws, landed' = land, stored' = st, sent' = sn,
         Line(r, st, sn), Store(r, st, sn), Pending(r, ws, land, st),
         releasing' \in Releasing, ended' \in BOOLEAN,
         peer_logon' \in BOOLEAN, logon_sent' \in BOOLEAN,
         highest' \in 0 .. MaxOut, connections' \in Nat,
         \A m \in st : m.seq <= highest'
  PROVE  IInv'
<1>1. Typed'
  BY DEF Typed
<1>2. Line(q, stored, sent)' /\ Store(q, stored, sent)' /\ Pending(q, writes, landed, stored)'
  BY Zenon
<1> QED
  BY <1>1, <1>2 DEF IInv

LEMMA InitIInv == Init => IInv
<1> SUFFICES ASSUME Init PROVE IInv
  OBVIOUS
<1> DEFINE r == NewSequencer("OnDelivery", 1, 1)
           r2 == Assign(r, Unnumbered("A"))
<1>1. /\ r \in Sequencers /\ r.next_out_seq_num = 1
      /\ Line(r, {}, {}) /\ Store(r, {}, {}) /\ Pending(r, {}, {}, {})
  <2>1. 0 \in 0 .. MaxOut /\ 0 + 1 = 1
    BY SequencerOutAssumption
  <2> QED
    BY <2>1, NewSequencerKeeps
<1> HIDE DEF r
<1>2. "A" \in Types /\ r.next_out_seq_num <= MaxOut
  BY <1>1, SequencerOutAssumption DEF Types
<1>3. /\ r2 \in Sequencers
      /\ Newest(r2) \in Messages
      /\ Line(r2, {}, {}) /\ Store(r2, {}, {})
      /\ Pending(r2, {} \union {Newest(r2)}, {}, {})
  BY <1>1, <1>2, AssignKeeps
<1>4. /\ q = r2 /\ writes = {} \union {Newest(r2)} /\ landed = {} /\ stored = {}
      /\ sent = {} /\ highest = 0
  BY DEF Init, Logon, r
<1> HIDE DEF r2
<1>5. Typed
  <2>1. q \in Sequencers
    BY <1>3, <1>4
  <2>2. writes \in SUBSET Messages /\ landed \in SUBSET writes
    BY <1>3, <1>4
  <2>3. stored \in SUBSET Messages /\ sent \in SUBSET Messages /\ highest \in 0 .. MaxOut
    BY <1>4, SequencerOutAssumption
  <2>4. /\ releasing \in Releasing /\ ended \in BOOLEAN /\ peer_logon \in BOOLEAN
        /\ logon_sent \in BOOLEAN /\ connections \in Nat
    BY DEF Init, Releasing
  <2> QED
    BY <2>1, <2>2, <2>3, <2>4 DEF Typed
<1> QED
  BY <1>3, <1>4, <1>5 DEF IInv

\* The number a call gives a message is new.
LEMMA NumberIInv ==
  ASSUME IInv, NEW r \in Sequencers, NEW type \in Types,
         Line(r, stored, sent), Store(r, stored, sent), Pending(r, writes, landed, stored),
         Number(r, Unnumbered(type)),
         ended' \in BOOLEAN, peer_logon' \in BOOLEAN, logon_sent' \in BOOLEAN
  PROVE  IInv'
<1> DEFINE r2 == Assign(r, Unnumbered(type))
           ws == writes \union {Newest(r2)}
<1>1. /\ r.next_out_seq_num <= MaxOut /\ q' = r2 /\ writes' = ws
      /\ UNCHANGED <<releasing, landed, stored, highest, sent, connections>>
  BY DEF Number
<1>2. /\ Typed /\ writes \in SUBSET Messages /\ landed \in SUBSET writes
      /\ stored \in SUBSET Messages /\ sent \in SUBSET Messages
      /\ \A m \in stored : m.seq <= highest
  BY DEF IInv, Typed
<1>3. /\ r2 \in Sequencers /\ Newest(r2) \in Messages
      /\ Line(r2, stored, sent) /\ Store(r2, stored, sent)
      /\ Pending(r2, ws, landed, stored)
  BY <1>1, <1>2, AssignKeeps
<1> HIDE DEF r2
<1>4. ws \in SUBSET Messages /\ landed \in SUBSET ws
  BY <1>2, <1>3
<1> HIDE DEF ws
<1>5. /\ releasing' \in Releasing /\ highest' \in 0 .. MaxOut /\ connections' \in Nat
      /\ \A m \in stored : m.seq <= highest'
  BY <1>1, <1>2 DEF Typed
<1>6. landed' = landed /\ stored' = stored /\ sent' = sent
  BY <1>1
<1> QED
  BY <1>1, <1>2, <1>3, <1>4, <1>5, <1>6, StepKeeps

\* Sequencer::send.
LEMMA SendAppIInv == IInv /\ SendApp => IInv'
<1> SUFFICES ASSUME IInv, SendApp PROVE IInv'
  OBVIOUS
<1>1. /\ q \in Sequencers /\ "D" \in Types
      /\ Line(q, stored, sent) /\ Store(q, stored, sent) /\ Pending(q, writes, landed, stored)
  BY DEF IInv, Typed, Types
<1>2. ended' \in BOOLEAN /\ peer_logon' \in BOOLEAN /\ logon_sent' \in BOOLEAN
  BY DEF IInv, Typed, SendApp
<1>3. Number(q, Unnumbered("D"))
  BY DEF SendApp
<1> QED
  BY <1>1, <1>2, <1>3, NumberIInv

\* Sequencer::send_raw.
LEMMA SendAppRawIInv ==
  ASSUME NEW n \in 1 .. MaxOut
  PROVE  IInv /\ SendAppRaw(n) => IInv'
<1> SUFFICES ASSUME IInv, SendAppRaw(n) PROVE IInv'
  OBVIOUS
<1> DEFINE msg == [Unnumbered("D") EXCEPT !.seq = n]
           r == Joined(q, msg)
<1>1. msg \in Messages /\ msg.seq = n
  BY DEF Messages, Types, Unnumbered
<1>2. /\ n >= q.next_out_seq_num
      /\ q' = r /\ writes' = writes \union {msg}
      /\ UNCHANGED <<releasing, ended, peer_logon, logon_sent, landed, stored,
                     highest, sent, connections>>
  BY DEF SendAppRaw, SendRaw, Joined
<1> HIDE DEF msg
<1>3. /\ Typed /\ q \in Sequencers /\ writes \in SUBSET Messages /\ landed \in SUBSET writes
      /\ stored \in SUBSET Messages /\ sent \in SUBSET Messages
      /\ Line(q, stored, sent) /\ Store(q, stored, sent) /\ Pending(q, writes, landed, stored)
      /\ \A m \in stored : m.seq <= highest
  BY DEF IInv, Typed
<1>4. /\ r \in Sequencers /\ Line(r, stored, sent) /\ Store(r, stored, sent)
      /\ Pending(r, writes \union {msg}, landed, stored)
  BY <1>1, <1>2, <1>3, JoinedKeeps
<1> HIDE DEF r
<1>5. /\ releasing' \in Releasing /\ ended' \in BOOLEAN
      /\ peer_logon' \in BOOLEAN /\ logon_sent' \in BOOLEAN
      /\ highest' \in 0 .. MaxOut /\ connections' \in Nat
      /\ \A m \in stored : m.seq <= highest'
      /\ landed' = landed /\ stored' = stored /\ sent' = sent
  BY <1>2, <1>3 DEF Typed
<1>6. writes \union {msg} \in SUBSET Messages /\ landed \in SUBSET (writes \union {msg})
  BY <1>1, <1>3
<1> QED
  BY <1>2, <1>3, <1>4, <1>5, <1>6, StepKeeps

\* Event::AdminSendRequired.
LEMMA AdminSendRequiredIInv ==
  ASSUME NEW type \in {"1", "5"}
  PROVE  IInv /\ AdminSendRequired(type) => IInv'
<1> SUFFICES ASSUME IInv, AdminSendRequired(type) PROVE IInv'
  OBVIOUS
<1>1. /\ Typed /\ q \in Sequencers /\ type \in Types
      /\ Line(q, stored, sent) /\ Store(q, stored, sent) /\ Pending(q, writes, landed, stored)
      /\ \A m \in stored : m.seq <= highest
  BY DEF IInv, Typed, Types
<1>2. CASE Number(q, Unnumbered(type)) /\ UNCHANGED ended
  <2>1. ended' \in BOOLEAN /\ peer_logon' \in BOOLEAN /\ logon_sent' \in BOOLEAN
    BY <1>1, <1>2 DEF Typed, AdminSendRequired
  <2> QED
    BY <1>1, <1>2, <2>1, NumberIInv
<1>3. CASE /\ ended' = TRUE
           /\ UNCHANGED <<q, releasing, writes, landed, stored, highest, sent, connections>>
  BY <1>1, <1>3, StepKeeps DEF Typed, AdminSendRequired
<1> QED
  BY <1>2, <1>3 DEF AdminSendRequired

\* The peer's Logon.
LEMMA PeerLogonIInv ==
  ASSUME NEW type \in {"1", "5"}
  PROVE  IInv /\ PeerLogon(type) => IInv'
<1> SUFFICES ASSUME IInv, PeerLogon(type) PROVE IInv'
  OBVIOUS
<1> DEFINE r == IF type = "1" THEN OnLoggedOn(q) ELSE q
<1>1. /\ Typed /\ q \in Sequencers /\ type \in Types
      /\ writes \in SUBSET Messages /\ landed \in SUBSET writes
      /\ stored \in SUBSET Messages /\ sent \in SUBSET Messages
      /\ Line(q, stored, sent) /\ Store(q, stored, sent) /\ Pending(q, writes, landed, stored)
      /\ \A m \in stored : m.seq <= highest
  BY DEF IInv, Typed, Types
<1>2. /\ r \in Sequencers
      /\ Line(r, stored, sent) /\ Store(r, stored, sent) /\ Pending(r, writes, landed, stored)
  BY <1>1, FlagKeeps
<1>3. CASE Number(r, Unnumbered(type)) /\ peer_logon' = TRUE /\ UNCHANGED ended
  <2>1. ended' \in BOOLEAN /\ peer_logon' \in BOOLEAN /\ logon_sent' \in BOOLEAN
    BY <1>1, <1>3 DEF Typed, PeerLogon
  <2> HIDE DEF r
  <2> QED
    BY <1>1, <1>2, <1>3, <2>1, NumberIInv
<1>4. CASE /\ ended' = TRUE
           /\ UNCHANGED <<q, releasing, peer_logon, writes, landed, stored, highest, sent,
                          connections>>
  BY <1>1, <1>4, StepKeeps DEF Typed, PeerLogon
<1> QED
  BY <1>3, <1>4 DEF PeerLogon

\* A message becomes durable.
LEMMA LandIInv ==
  ASSUME NEW m \in writes
  PROVE  IInv /\ Land(m) => IInv'
<1> SUFFICES ASSUME IInv, Land(m) PROVE IInv'
  OBVIOUS
<1> DEFINE land == landed \union {m}
           st == stored \union {m}
<1>1. /\ m \in writes \ landed /\ landed' = land /\ stored' = st
      /\ highest' = Greater(highest, m.seq)
      /\ UNCHANGED <<q, releasing, ended, peer_logon, logon_sent, writes, sent, connections>>
  BY DEF Land
<1>2. /\ Typed /\ q \in Sequencers /\ m \in Messages /\ m.seq \in 1 .. MaxOut
      /\ Line(q, stored, sent) /\ Store(q, stored, sent) /\ Pending(q, writes, landed, stored)
      /\ stored \in SUBSET Messages /\ \A o \in Messages : o.seq \in 1 .. MaxOut
  BY DEF IInv, Typed, Messages
<1>3. /\ highest' \in 0 .. MaxOut
      /\ \A o \in st : o.seq <= highest'
  BY SMTT(30), <1>1, <1>2, SequencerOutAssumption DEF IInv, Typed, Greater
<1>4. PICK i \in 1 .. Len(q.in_flight) : q.in_flight[i].msg = m
  BY SMTT(30), <1>2 DEF Pending
<1>5. Line(q, st, sent)
  BY SMTT(30), <1>2 DEF Line
<1>6. Store(q, st, sent)
  BY SMTT(30), <1>1, <1>2, <1>4 DEF Store, Line, Pending
<1>7. Pending(q, writes, land, st)
  <2>1. ASSUME NEW w \in writes \ land PROVE w.seq # m.seq
    <3>1. PICK j \in 1 .. Len(q.in_flight) : q.in_flight[j].msg = w
      BY SMTT(30), <1>2, <2>1 DEF Pending
    <3>2. i # j /\ w.seq \in Nat /\ Len(q.in_flight) \in Nat
      BY SMTT(30), <1>2, <1>4, <2>1, <3>1, SequencerFields, LenProperties
    <3> QED
      BY SMTT(30), <1>2, <1>4, <3>1, <3>2 DEF Line
  <2> QED
    BY SMTT(30), <1>1, <1>2, <2>1 DEF Pending
<1>8. st \in SUBSET Messages /\ land \in SUBSET writes /\ writes \in SUBSET Messages
  BY <1>1, <1>2 DEF Typed
<1> HIDE DEF st, land
<1> QED
  BY <1>1, <1>2, <1>3, <1>5, <1>6, <1>7, <1>8, StepKeeps DEF Typed

\* Sequencer::persisted.
LEMMA PersistedIInv ==
  ASSUME NEW m \in writes
  PROVE  IInv /\ Persisted(m) => IInv'
<1> SUFFICES ASSUME IInv, Persisted(m) PROVE IInv'
  OBVIOUS
<1> DEFINE marked == MarkPersisted(q, m.seq)
           ws == writes \ {m}
           land == landed \ {m}
<1>1. /\ Typed /\ q \in Sequencers /\ m \in landed
      /\ writes \in SUBSET Messages /\ landed \in SUBSET writes
      /\ stored \in SUBSET Messages /\ sent \in SUBSET Messages
      /\ Line(q, stored, sent) /\ Store(q, stored, sent) /\ Pending(q, writes, landed, stored)
      /\ \A o \in stored : o.seq <= highest
      /\ writes' = ws /\ landed' = land
      /\ UNCHANGED <<peer_logon, logon_sent, stored, highest, sent, connections>>
  BY DEF IInv, Typed, Persisted
<1>2. ws \in SUBSET Messages /\ land \in SUBSET ws
  BY <1>1
<1>3. Pending(q, ws, land, stored)
  BY <1>1 DEF Pending
<1>4. /\ marked \in Sequencers /\ Line(marked, stored, sent) /\ Store(marked, stored, sent)
      /\ Pending(marked, ws, land, stored)
  BY <1>1, MarkKeeps
<1>5. Len(marked.in_flight) = Len(q.in_flight)
  BY <1>1, MarkedFields DEF Messages
<1> HIDE DEF ws, land, marked
<1>6. CASE ended' = TRUE /\ UNCHANGED <<q, releasing>>
  BY <1>1, <1>2, <1>3, <1>6, StepKeeps DEF Typed
<1>7. CASE /\ \E k \in 0 .. Len(q.in_flight) : DrainsTo(marked, k) /\ q' = Drained(marked, k)
           /\ releasing' = "persisted" /\ UNCHANGED ended
  <2>1. PICK k \in 0 .. Len(marked.in_flight) : DrainsTo(marked, k) /\ q' = Drained(marked, k)
    BY SMTT(30), <1>5, <1>7
  <2> DEFINE d == Drained(marked, k)
  <2>2. /\ d \in Sequencers /\ Line(d, stored, sent) /\ Store(d, stored, sent)
        /\ Pending(d, ws, land, stored)
    BY <1>1, <1>2, <1>4, <2>1, DrainKeeps
  <2> HIDE DEF d
  <2>3. q' = d
    BY <2>1 DEF d
  <2> QED
    BY <1>1, <1>2, <1>7, <2>2, <2>3, StepKeeps DEF Typed, Releasing
<1> QED
  BY <1>6, <1>7 DEF Persisted, marked

\* Sequencer::persist_failed.
LEMMA WriteFailedIInv ==
  ASSUME NEW m \in writes
  PROVE  IInv /\ WriteFailed(m) => IInv'
<1> SUFFICES ASSUME IInv, WriteFailed(m) PROVE IInv'
  OBVIOUS
<1> DEFINE r == PersistFailed(q)
           ws == writes \ {m}
           land == landed \ {m}
<1>1. /\ Typed /\ q \in Sequencers
      /\ writes \in SUBSET Messages /\ landed \in SUBSET writes
      /\ stored \in SUBSET Messages /\ sent \in SUBSET Messages
      /\ Line(q, stored, sent) /\ Store(q, stored, sent) /\ Pending(q, writes, landed, stored)
      /\ \A o \in stored : o.seq <= highest
      /\ q' = r /\ writes' = ws /\ landed' = land
      /\ UNCHANGED <<releasing, ended, peer_logon, logon_sent, stored, highest, sent,
                     connections>>
  BY SMTT(30) DEF IInv, Typed, WriteFailed
<1>2. ws \in SUBSET Messages /\ land \in SUBSET ws /\ Pending(q, ws, land, stored)
  BY <1>1 DEF Pending
<1>3. /\ r \in Sequencers /\ Line(r, stored, sent) /\ Store(r, stored, sent)
      /\ Pending(r, ws, land, stored)
  BY SMTT(30), <1>1, <1>2, FlagKeeps
<1> HIDE DEF r, ws, land
<1> QED
  BY SMTT(30), <1>1, <1>2, <1>3, StepKeeps DEF Typed

\* release: the session takes the message.
LEMMA ReleaseNextIInv == IInv /\ ReleaseNext => IInv'
<1> SUFFICES ASSUME IInv, ReleaseNext PROVE IInv'
  OBVIOUS
<1> DEFINE msg == Head(q.ready)
           popped == Popped(q)
           r == IF msg.type = "A" /\ peer_logon THEN OnLoggedOn(popped) ELSE popped
           sn == sent \union {msg}
<1>1. /\ Typed /\ q \in Sequencers /\ q.ready # << >>
      /\ writes \in SUBSET Messages /\ landed \in SUBSET writes
      /\ stored \in SUBSET Messages /\ sent \in SUBSET Messages
      /\ Line(q, stored, sent) /\ Store(q, stored, sent) /\ Pending(q, writes, landed, stored)
      /\ \A o \in stored : o.seq <= highest
      /\ q' = r /\ sent' = sn
      /\ logon_sent' = (logon_sent \/ msg.type = "A")
      /\ ended' = (msg.type = "5")
      /\ releasing' = IF msg.type = "5" THEN "no" ELSE releasing
      /\ UNCHANGED <<peer_logon, writes, landed, stored, highest, connections>>
  BY SMTT(30) DEF IInv, Typed, ReleaseNext, MayPop
<1>2. /\ popped \in Sequencers /\ msg \in stored
      /\ Line(popped, stored, sn) /\ Store(popped, stored, sn)
      /\ Pending(popped, writes, landed, stored)
  BY <1>1, PoppedKeeps
<1>3. sn \in SUBSET Messages
  BY <1>1, <1>2
<1> HIDE DEF sn, popped
<1>4. /\ r \in Sequencers /\ Line(r, stored, sn) /\ Store(r, stored, sn)
      /\ Pending(r, writes, landed, stored)
  BY <1>1, <1>2, <1>3, FlagKeeps
<1> HIDE DEF msg, r
<1> QED
  BY SMTT(30), <1>1, <1>3, <1>4, StepKeeps DEF Typed, Releasing

\* release: the session refuses the message.
LEMMA ReleaseRefusedIInv == IInv /\ ReleaseRefused => IInv'
<1> SUFFICES ASSUME IInv, ReleaseRefused PROVE IInv'
  OBVIOUS
<1> DEFINE r == Popped(q)
<1>1. /\ Typed /\ q \in Sequencers /\ q.ready # << >>
      /\ writes \in SUBSET Messages /\ landed \in SUBSET writes
      /\ stored \in SUBSET Messages /\ sent \in SUBSET Messages
      /\ Line(q, stored, sent) /\ Store(q, stored, sent) /\ Pending(q, writes, landed, stored)
      /\ \A o \in stored : o.seq <= highest
      /\ q' = r /\ ended' = TRUE /\ releasing' = "no"
      /\ UNCHANGED <<peer_logon, logon_sent, writes, landed, stored, highest, sent,
                     connections>>
  BY SMTT(30) DEF IInv, Typed, ReleaseRefused, MayPop
<1>2. /\ r \in Sequencers /\ Line(r, stored, sent) /\ Store(r, stored, sent)
      /\ Pending(r, writes, landed, stored)
  BY <1>1, PoppedKeeps
<1> HIDE DEF r
<1> QED
  BY SMTT(30), <1>1, <1>2, StepKeeps DEF Typed, Releasing

\* A new connection resumes from the store.
LEMMA RestartIInv == IInv /\ Restart => IInv'
<1> SUFFICES ASSUME IInv, Restart PROVE IInv'
  OBVIOUS
<1> DEFINE fresh == NewSequencer("OnDelivery", highest + 1, 1)
           first == Assign(fresh, Unnumbered("A"))
<1>1. /\ Typed /\ highest \in 0 .. MaxOut /\ highest < MaxOut
      /\ stored \in SUBSET Messages /\ sent \in SUBSET Messages /\ sent \in SUBSET stored
      /\ \A a, b \in stored : a.seq = b.seq => a = b
      /\ \A o \in stored : o.seq <= highest
      /\ releasing' = "no" /\ ended' = FALSE /\ logon_sent' = FALSE /\ landed' = {}
      /\ connections' = connections + 1
      /\ UNCHANGED <<stored, highest, sent>>
  BY DEF IInv, Typed, Store, Restart
<1>2. /\ fresh \in Sequencers /\ fresh.next_out_seq_num = highest + 1
      /\ Line(fresh, stored, sent) /\ Store(fresh, stored, sent)
      /\ Pending(fresh, {}, {}, stored)
  BY <1>1, NewSequencerKeeps
<1> HIDE DEF fresh
<1>3. "A" \in Types /\ fresh.next_out_seq_num <= MaxOut
  BY SMTT(30), <1>1, <1>2, SequencerOutAssumption DEF Types
<1>4. /\ first \in Sequencers /\ first.next_out_seq_num = fresh.next_out_seq_num + 1
      /\ Newest(first) \in Messages
      /\ Line(first, stored, sent) /\ Store(first, stored, sent)
      /\ Pending(first, {} \union {Newest(first)}, {}, stored)
  BY <1>1, <1>2, <1>3, AssignKeeps
<1> HIDE DEF first
<1>5. Logon(NewSequencer("OnDelivery", highest + 1, 1)) = first
  BY DEF Logon, first, fresh
<1>6. connections' \in Nat /\ stored' = stored /\ sent' = sent /\ highest' \in 0 .. MaxOut
  BY <1>1 DEF Typed
<1>7. CASE q' = first /\ peer_logon' = FALSE /\ writes' = {Newest(first)}
  <2>1. {} \union {Newest(first)} = {Newest(first)}
    OBVIOUS
  <2> QED
    BY <1>1, <1>4, <1>6, <1>7, <2>1, StepKeeps DEF Releasing
<1>8. ASSUME NEW type \in {"1", "5"}, highest + 2 <= MaxOut,
             q' = Assign(first, Unnumbered(type)), peer_logon' = TRUE,
             writes' = {Newest(first), Newest(q')}
      PROVE  IInv'
  <2> DEFINE r == Assign(first, Unnumbered(type))
             ws == {} \union {Newest(first)}
  <2>1. type \in Types /\ first.next_out_seq_num <= MaxOut
    BY <1>1, <1>2, <1>4, <1>8, SequencerOutAssumption DEF Types
  <2>2. ws \in SUBSET Messages /\ {} \in SUBSET ws
    BY <1>4
  <2>3. /\ r \in Sequencers /\ Newest(r) \in Messages
        /\ Line(r, stored, sent) /\ Store(r, stored, sent)
        /\ Pending(r, ws \union {Newest(r)}, {}, stored)
    BY <1>1, <1>4, <2>1, <2>2, AssignKeeps
  <2> HIDE DEF r
  <2>4. q' = r /\ writes' = ws \union {Newest(r)}
    BY <1>8 DEF r
  <2>5. ws \union {Newest(r)} \in SUBSET Messages /\ {} \in SUBSET (ws \union {Newest(r)})
    BY <2>2, <2>3
  <2> HIDE DEF ws
  <2> QED
    BY <1>1, <1>6, <1>8, <2>3, <2>4, <2>5, StepKeeps DEF Releasing
<1> QED
  BY <1>5, <1>7, <1>8 DEF Restart, Connection

LEMMA NextIInv == IInv /\ [Next]_vars => IInv'
<1> SUFFICES ASSUME IInv, [Next]_vars PROVE IInv'
  OBVIOUS
<1>1. CASE SendApp
  BY <1>1, SendAppIInv
<1>2. CASE \E n \in 1 .. MaxOut : SendAppRaw(n)
  BY <1>2, SendAppRawIInv
<1>3. CASE \E type \in {"1", "5"} : AdminSendRequired(type) \/ PeerLogon(type)
  BY <1>3, AdminSendRequiredIInv, PeerLogonIInv
<1>4. CASE \E m \in writes : Land(m) \/ Persisted(m) \/ WriteFailed(m)
  BY <1>4, LandIInv, PersistedIInv, WriteFailedIInv
<1>5. CASE ReleaseNext \/ ReleaseRefused
  BY SMTT(30), <1>5, ReleaseNextIInv, ReleaseRefusedIInv
<1>6. CASE Restart
  BY <1>6, RestartIInv
<1>7. CASE Release \/ ReleaseDone \/ UNCHANGED vars
  <2>1. /\ releasing' \in Releasing
        /\ UNCHANGED <<q, ended, peer_logon, logon_sent, writes, landed, stored, highest,
                       sent, connections>>
    BY <1>7 DEF Release, ReleaseDone, Releasing, vars, IInv, Typed
  <2> QED
    BY SMTT(30), <2>1, StepKeeps DEF IInv, Typed
<1> QED
  BY <1>1, <1>2, <1>3, <1>4, <1>5, <1>6, <1>7 DEF Next

-----------------------------------------------------------------------------
\* The theorems

LEMMA InvariantHolds == Spec => []IInv
  BY InitIInv, NextIInv, PTL DEF Spec

\* TypeOK always holds, for every number of messages and of connections (the
\* Sequencer's outbound fields and the writes in flight).
THEOREM SequencerOutTypeCorrect == Spec => []TypeOK
<1>1. IInv => TypeOK
  <2> SUFFICES ASSUME IInv PROVE TypeOK
    BY SMTT(30)
  <2>1. /\ q.next_out_seq_num \in 1 .. MaxOut + 1
        /\ q.in_flight \in Seq([msg : Messages, persisted : BOOLEAN])
        /\ q.ready \in Seq(Messages)
        /\ q.logged_on \in BOOLEAN /\ q.failed \in BOOLEAN
    BY SequencerFields DEF IInv, Typed, Entries
  <2> QED
    BY <2>1, Zenon DEF IInv, Typed, TypeOK
<1> QED
  BY <1>1, InvariantHolds, PTL

\* What was sent under a number is the one message stored under it, on every
\* connection and wherever the process stopped (assign, persisted, Resume).
THEOREM SentAsStoredAlways == Spec => []SentAsStored
<1>1. IInv => SentAsStored
  BY DEF IInv, Store, SentAsStored
<1> QED
  BY <1>1, InvariantHolds, PTL

\* The sequencer keeps the promise of PersistFirst: a message becoming durable
\* is its Store, release handing one to the session its Send, and every other
\* step of the sequencer is invisible.
THEOREM SequencerPersistsFirst == Spec => PersistsFirst
<1>1. Init => Promise!Init
  BY DEF Init, Promise!Init
<1>2. IInv /\ [Next]_vars => [Promise!Next]_<<stored, sent>>
  <2> SUFFICES ASSUME IInv, [Next]_vars PROVE [Promise!Next]_<<stored, sent>>
    OBVIOUS
  <2>1. ASSUME NEW m \in writes, Land(m) PROVE Promise!Next
    <3>1. /\ m \in Messages /\ stored' = stored \union {m} /\ UNCHANGED sent
          /\ m \in writes \ landed
      BY <2>1 DEF Land, IInv, Typed
    <3>2. \A o \in stored : o.seq # m.seq
      BY <3>1 DEF IInv, Pending
    <3>3. \A o \in sent : o.seq < m.seq
      BY SMTT(30), <3>1 DEF IInv, Pending, Line
    <3> QED
      BY <3>1, <3>2, <3>3 DEF Promise!Next, Promise!Store
  <2>2. CASE ReleaseNext
    <3> DEFINE m == Head(q.ready)
    <3>1. /\ q \in Sequencers /\ q.ready # << >>
          /\ writes \in SUBSET Messages /\ landed \in SUBSET writes
          /\ stored \in SUBSET Messages /\ sent \in SUBSET Messages
          /\ Line(q, stored, sent) /\ Store(q, stored, sent)
          /\ Pending(q, writes, landed, stored)
          /\ sent' = sent \union {m} /\ UNCHANGED stored
      BY SMTT(30), <2>2 DEF IInv, Typed, ReleaseNext, MayPop
    <3>2. m \in stored /\ \A o \in sent : o.seq < m.seq
      BY <3>1, PoppedKeeps
    <3> HIDE DEF m
    <3> QED
      BY SMTT(30), <3>1, <3>2 DEF Promise!Next, Promise!Send
  <2>3. CASE ~ReleaseNext /\ ~\E m \in writes : Land(m)
    <3>1. UNCHANGED <<stored, sent>>
      BY <2>3 DEF Next, vars, SendApp, SendAppRaw, AdminSendRequired, PeerLogon, Number,
                  Persisted, WriteFailed, Release, ReleaseRefused, ReleaseDone, Restart
    <3> QED
      BY <3>1
  <2> QED
    BY <2>1, <2>2, <2>3
<1> QED
  BY <1>1, <1>2, InvariantHolds, PTL DEF Spec, PersistsFirst, Promise!Spec

\* Nothing is sent once a write has failed, unless the driver calls release itself
\* (check_live, persist_failed).
THEOREM FailureStopsAlways == Spec => FailureStops
<1> DEFINE Stopped == ~(q.failed /\ releasing = "persisted")
<1>1. Init => Stopped
  BY DEF Init
<1>2. IInv /\ Stopped /\ [Next]_vars => Stopped'
  <2> SUFFICES ASSUME IInv, Stopped, [Next]_vars PROVE Stopped'
    OBVIOUS
  <2>1. CASE \E m \in writes : Persisted(m)
    <3>1. PICK m \in writes : Persisted(m)
      BY <2>1
    <3>2. q \in Sequencers /\ m.seq \in Nat
      BY DEF IInv, Typed, Messages
    <3>3. MarkPersisted(q, m.seq).failed = q.failed
      BY <3>2 DEF MarkPersisted, Sequencers
    <3>4. MarkPersisted(q, m.seq) \in Sequencers
      BY <3>2, MarkedFields
    <3>5. \A r \in Sequencers, k \in Nat : Drained(r, k).failed = r.failed
      BY DEF Drained, Sequencers
    <3>6. CASE UNCHANGED q /\ UNCHANGED releasing
      BY <3>6
    <3>7. CASE /\ CheckLive(q)
               /\ \E k \in 0 .. Len(q.in_flight) : q' = Drained(MarkPersisted(q, m.seq), k)
      <4>1. Len(q.in_flight) \in Nat
        BY <3>2, SequencerFields, LenProperties
      <4> QED
        BY <3>3, <3>4, <3>5, <3>7, <4>1 DEF CheckLive
    <3> QED
      BY <3>1, <3>6, <3>7 DEF Persisted
  <2>2. CASE UNCHANGED releasing /\ UNCHANGED q
    BY <2>2
  <2>3. CASE releasing' # "persisted"
    BY <2>3
  <2>4. CASE ReleaseNext
    <3>1. q \in Sequencers
      BY DEF IInv, Typed
    <3>2. Popped(q).failed = q.failed /\ OnLoggedOn(Popped(q)).failed = q.failed
      BY <3>1 DEF Popped, OnLoggedOn, Sequencers
    <3>3. q'.failed = q.failed
      BY <2>4, <3>2 DEF ReleaseNext
    <3> QED
      BY <2>4, <3>3 DEF ReleaseNext
  <2>5. CASE \/ SendApp \/ \E n \in 1 .. MaxOut : SendAppRaw(n)
             \/ \E type \in {"1", "5"} : AdminSendRequired(type) \/ PeerLogon(type)
             \/ \E m \in writes : WriteFailed(m)
    BY <2>3, <2>5 DEF SendApp, SendAppRaw, AdminSendRequired, PeerLogon, Number,
                      WriteFailed, Callable
  <2>6. CASE ReleaseRefused \/ ReleaseDone \/ Restart
    BY <2>3, <2>6 DEF ReleaseRefused, ReleaseDone, Restart
  <2>7. CASE (\E m \in writes : Land(m)) \/ UNCHANGED vars
    BY <2>2, <2>7 DEF Land, vars
  <2> QED
    BY <2>1, <2>4, <2>5, <2>6, <2>7 DEF Next, Release
<1>3. IInv /\ Stopped /\ [Next]_vars
        => [q.failed /\ sent' # sent => releasing = "explicit"]_vars
  <2> SUFFICES ASSUME IInv, Stopped, [Next]_vars, q.failed, sent' # sent
               PROVE  releasing = "explicit"
    OBVIOUS
  <2>1. ReleaseNext
    BY DEF Next, vars, SendApp, SendAppRaw, AdminSendRequired, PeerLogon, Number, Land,
           Persisted, WriteFailed, Release, ReleaseRefused, ReleaseDone, Restart
  <2>2. releasing \in Releasing /\ releasing # "no"
    BY <2>1 DEF ReleaseNext, IInv, Typed
  <2> QED
    BY <2>2 DEF Releasing
<1> QED
  BY <1>1, <1>2, <1>3, InvariantHolds, PTL DEF Spec, FailureStops
=============================================================================
