------------------------- MODULE SequencerOutLemmas -------------------------
(***************************************************************************)
(* What the operations of the outbound sequencer do to the messages not    *)
(* sent yet, for SequencerOutProofs.  They form one line, in number order: *)
(* first those ready, all of them stored, then those in flight.            *)
(* Everything sent or stored is behind the number given out next, and a    *)
(* message being written has its number to itself.                         *)
(***************************************************************************)
EXTENDS SequencerOut, SequenceTheorems, TLAPS

Entries == [msg : Messages, persisted : BOOLEAN]

Sequencers ==
  [ next_out_seq_num : 1 .. MaxOut + 1, in_flight : Seq(Entries),
    ready : Seq(Messages), logged_on : BOOLEAN, failed : BOOLEAN,
    policy : Policies, session_next_in : {1}, unhandled : {{}},
    highest_handled : {1}, watermark_persisted : {1}, watermark_in_flight : {0} ]

Typed ==
  /\ q \in Sequencers
  /\ releasing \in Releasing /\ ended \in BOOLEAN
  /\ peer_logon \in BOOLEAN /\ logon_sent \in BOOLEAN
  /\ writes \in SUBSET Messages /\ landed \in SUBSET writes
  /\ stored \in SUBSET Messages /\ sent \in SUBSET Messages
  /\ highest \in 0 .. MaxOut
  /\ connections \in Nat

\* What waits to be sent, in number order and beyond everything sent.
Line(r, st, sn) ==
  /\ \A i, j \in 1 .. Len(r.in_flight) :
       i < j => r.in_flight[i].msg.seq < r.in_flight[j].msg.seq
  /\ \A i \in 1 .. Len(r.in_flight) :
       /\ r.in_flight[i].msg.seq < r.next_out_seq_num
       /\ r.in_flight[i].persisted => r.in_flight[i].msg \in st
       /\ \A o \in sn : o.seq < r.in_flight[i].msg.seq
  /\ \A i, j \in 1 .. Len(r.ready) : i < j => r.ready[i].seq < r.ready[j].seq
  /\ \A i \in 1 .. Len(r.ready) :
       /\ r.ready[i] \in st
       /\ \A o \in sn : o.seq < r.ready[i].seq
       /\ \A j \in 1 .. Len(r.in_flight) : r.ready[i].seq < r.in_flight[j].msg.seq

\* What was sent is stored; a number is stored once, and not given out again.
Store(r, st, sn) ==
  /\ sn \subseteq st
  /\ \A m \in st : m.seq < r.next_out_seq_num
  /\ \A a, b \in st : a.seq = b.seq => a = b

\* What is being written is in flight, not known to be durable yet, and has its
\* number to itself.
Pending(r, ws, land, st) ==
  /\ \A m \in ws : \E i \in 1 .. Len(r.in_flight) :
       r.in_flight[i].msg = m /\ ~r.in_flight[i].persisted
  /\ land \subseteq st
  /\ \A m \in ws \ land : \A o \in st : o.seq # m.seq

IInv ==
  /\ Typed
  /\ Line(q, stored, sent)
  /\ Store(q, stored, sent)
  /\ Pending(q, writes, landed, stored)
  /\ \A m \in stored : m.seq <= highest

-----------------------------------------------------------------------------
\* The sequencer's operations

\* The fields of a sequencer, and the elements of its queues, have their types.
LEMMA SequencerFields ==
  ASSUME NEW r \in Sequencers
  PROVE  /\ r.next_out_seq_num \in 1 .. MaxOut + 1
         /\ r.in_flight \in Seq(Entries)
         /\ r.ready \in Seq(Messages)
         /\ r.logged_on \in BOOLEAN /\ r.failed \in BOOLEAN
         /\ \A i \in 1 .. Len(r.in_flight) :
              /\ r.in_flight[i] \in Entries
              /\ r.in_flight[i].msg \in Messages
              /\ r.in_flight[i].msg.seq \in 1 .. MaxOut
              /\ r.in_flight[i].persisted \in BOOLEAN
         /\ \A i \in 1 .. Len(r.ready) :
              /\ r.ready[i] \in Messages
              /\ r.ready[i].seq \in 1 .. MaxOut
<1>1. /\ r.next_out_seq_num \in 1 .. MaxOut + 1
      /\ r.in_flight \in Seq(Entries)
      /\ r.ready \in Seq(Messages)
      /\ r.logged_on \in BOOLEAN /\ r.failed \in BOOLEAN
  BY DEF Sequencers
<1>2. \A m \in Messages : m.seq \in 1 .. MaxOut
  BY DEF Messages
<1>3. \A e \in Entries : e.msg \in Messages /\ e.persisted \in BOOLEAN
  BY DEF Entries
<1>4. \A i \in 1 .. Len(r.in_flight) : r.in_flight[i] \in Entries
  BY <1>1, ElementOfSeq
<1>5. \A i \in 1 .. Len(r.ready) : r.ready[i] \in Messages
  BY <1>1, ElementOfSeq
<1> QED
  BY <1>1, <1>2, <1>3, <1>4, <1>5

\* The number of a message that joins the line.
Joined(r, msg) ==
  RequestWrite([r EXCEPT !.next_out_seq_num = msg.seq + 1], msg)

\* request_write, under the next number or one beyond it, extends the line.
LEMMA JoinedKeeps ==
  ASSUME NEW r \in Sequencers, NEW msg \in Messages,
         msg.seq >= r.next_out_seq_num,
         NEW ws \in SUBSET Messages, NEW land \in SUBSET ws,
         NEW st \in SUBSET Messages, NEW sn \in SUBSET Messages,
         Line(r, st, sn), Store(r, st, sn), Pending(r, ws, land, st)
  PROVE  /\ Joined(r, msg) \in Sequencers
         /\ Joined(r, msg).next_out_seq_num = msg.seq + 1
         /\ Newest(Joined(r, msg)) = msg
         /\ Line(Joined(r, msg), st, sn)
         /\ Store(Joined(r, msg), st, sn)
         /\ Pending(Joined(r, msg), ws \union {msg}, land, st)
<1> DEFINE e == [msg |-> msg, persisted |-> FALSE]
           r2 == Joined(r, msg)
           F == r.in_flight
           F2 == r2.in_flight
<1> USE SequencerOutAssumption
<1>1. msg.seq \in 1 .. MaxOut /\ e \in Entries /\ e.msg = msg /\ e.persisted = FALSE
  BY DEF Messages, Entries
<1>2. /\ r2 \in Sequencers
      /\ F2 = Append(F, e)
      /\ r2.next_out_seq_num = msg.seq + 1
      /\ r2.ready = r.ready
  <2>1. msg.seq + 1 \in 1 .. MaxOut + 1
    BY <1>1
  <2>2. Append(F, e) \in Seq(Entries)
    BY <1>1, SequencerFields
  <2> HIDE DEF e
  <2> QED
    BY <2>1, <2>2 DEF Joined, RequestWrite, Sequencers, e
<1> HIDE DEF e, r2
<1>3. /\ Len(F2) = Len(F) + 1 /\ Len(F) \in Nat
      /\ F2[Len(F) + 1] = e
      /\ \A i \in 1 .. Len(F) : F2[i] = F[i]
  BY <1>1, <1>2, SequencerFields, AppendProperties
<1>4. Newest(r2) = msg
  BY <1>1, <1>3 DEF Newest
<1> HIDE DEF F, F2
<1>5. \A o \in st : o.seq < msg.seq
  BY <1>1, SequencerFields DEF Store, Messages
<1>6. \A i \in 1 .. Len(F) : F[i].msg.seq < msg.seq
  BY <1>1, SequencerFields DEF Line, F
<1>7. sn \subseteq st
  BY DEF Store
<1>8. Line(r2, st, sn)
  <2> DEFINE n == Len(F)
  <2>0. \A i \in 1 .. Len(F2) : i = n + 1 \/ i \in 1 .. n
    BY <1>3
  <2>1. ASSUME NEW i \in 1 .. Len(F2), NEW j \in 1 .. Len(F2), i < j
        PROVE  F2[i].msg.seq < F2[j].msg.seq
    <3>1. i \in 1 .. n
      BY <1>3, <2>1
    <3>2. CASE j \in 1 .. n
      BY <1>3, <2>1, <3>1, <3>2 DEF Line, F
    <3>3. CASE j = n + 1
      BY <1>1, <1>3, <1>6, <3>1, <3>3
    <3> QED
      BY <2>0, <3>2, <3>3
  <2>2. ASSUME NEW i \in 1 .. Len(F2)
        PROVE  /\ F2[i].msg.seq < r2.next_out_seq_num
               /\ F2[i].persisted => F2[i].msg \in st
               /\ \A o \in sn : o.seq < F2[i].msg.seq
    <3>1. CASE i \in 1 .. n
      BY SMTT(30), <1>1, <1>2, <1>3, <1>6, <3>1, SequencerFields DEF Line, F
    <3>2. CASE i = n + 1
      BY <1>1, <1>2, <1>3, <1>5, <1>7, <3>2
    <3> QED
      BY <2>0, <3>1, <3>2
  <2>3. ASSUME NEW i \in 1 .. Len(r.ready), NEW j \in 1 .. Len(F2)
        PROVE  r.ready[i].seq < F2[j].msg.seq
    <3>1. CASE j \in 1 .. n
      BY SMTT(30), <1>3, <3>1 DEF Line, F
    <3>2. CASE j = n + 1
      BY <1>1, <1>3, <1>5, <3>2 DEF Line
    <3> QED
      BY <2>0, <3>1, <3>2
  <2> QED
    BY <1>2, <2>1, <2>2, <2>3 DEF Line, F2
<1>9. Store(r2, st, sn)
  BY <1>1, <1>2, <1>5 DEF Store, Messages
<1>10. Pending(r2, ws \union {msg}, land, st)
  <2>1. \A m \in ws \union {msg} :
          \E i \in 1 .. Len(F2) : F2[i].msg = m /\ ~F2[i].persisted
    <3>1. ASSUME NEW m \in ws
          PROVE  \E i \in 1 .. Len(F2) : F2[i].msg = m /\ ~F2[i].persisted
      <4>1. PICK i \in 1 .. Len(F) : F[i].msg = m /\ ~F[i].persisted
        BY <1>1 DEF Pending, F
      <4>2. i \in 1 .. Len(F2) /\ F2[i] = F[i]
        BY <1>3
      <4> QED
        BY <4>1, <4>2
    <3>2. Len(F2) \in 1 .. Len(F2) /\ F2[Len(F2)].msg = msg /\ ~F2[Len(F2)].persisted
      BY <1>3 DEF e
    <3> QED
      BY <3>1, <3>2
  <2>2. \A m \in (ws \union {msg}) \ land : \A o \in st : o.seq # m.seq
    BY <1>1, <1>5 DEF Pending, Messages
  <2> QED
    BY <2>1, <2>2 DEF Pending, F2
<1> QED
  BY <1>2, <1>4, <1>8, <1>9, <1>10 DEF r2

\* assign gives a message the next number, and it joins the line.
LEMMA AssignIsJoined ==
  ASSUME NEW r \in Sequencers, NEW type \in Types, r.next_out_seq_num <= MaxOut
  PROVE  LET msg == Numbered(r, Unnumbered(type))
         IN  /\ msg \in Messages
             /\ msg.seq = r.next_out_seq_num
             /\ Assign(r, Unnumbered(type)) = Joined(r, msg)
<1> DEFINE msg == Numbered(r, Unnumbered(type))
<1>1. msg = [type |-> type, seq |-> r.next_out_seq_num]
  BY DEF Numbered, Unnumbered
<1>2. r.next_out_seq_num \in 1 .. MaxOut
  BY SequencerFields, SequencerOutAssumption
<1>3. msg \in Messages /\ msg.seq = r.next_out_seq_num
  BY <1>1, <1>2 DEF Messages
<1> HIDE DEF msg
<1>4. [r EXCEPT !.next_out_seq_num = @ + 1] = [r EXCEPT !.next_out_seq_num = msg.seq + 1]
  BY <1>3
<1>5. Assign(r, Unnumbered(type)) = Joined(r, msg)
  BY <1>4 DEF Assign, Joined, msg
<1> QED
  BY <1>3, <1>5 DEF msg

\* Marking a message persisted changes nothing else.
LEMMA MarkedFields ==
  ASSUME NEW r \in Sequencers, NEW n \in Nat
  PROVE  LET r2 == MarkPersisted(r, n)
         IN  /\ r2 \in Sequencers
             /\ r2.next_out_seq_num = r.next_out_seq_num /\ r2.ready = r.ready
             /\ Len(r2.in_flight) = Len(r.in_flight)
             /\ \A i \in 1 .. Len(r.in_flight) :
                  /\ r2.in_flight[i].msg = r.in_flight[i].msg
                  /\ r2.in_flight[i].persisted =
                       (r.in_flight[i].persisted \/ r.in_flight[i].msg.seq = n)
<1> DEFINE F == r.in_flight
           mark(e) == IF e.msg.seq = n THEN [e EXCEPT !.persisted = TRUE] ELSE e
           F2 == [i \in 1 .. Len(F) |-> mark(F[i])]
           r2 == MarkPersisted(r, n)
<1>1. F \in Seq(Entries) /\ Len(F) \in Nat /\ DOMAIN F = 1 .. Len(F)
  BY SequencerFields, LenProperties
<1>2. \A e \in Entries : /\ mark(e) \in Entries
                         /\ mark(e).msg = e.msg
                         /\ mark(e).persisted = (e.persisted \/ e.msg.seq = n)
  BY DEF Entries
<1>3. \A i \in 1 .. Len(F) : F[i] \in Entries
  BY SequencerFields
<1>4. r2 = [r EXCEPT !.in_flight = F2]
  BY <1>1 DEF MarkPersisted, Sequencers
<1> HIDE DEF mark
<1>5. F2 \in Seq(Entries) /\ Len(F2) = Len(F)
  <2>1. \A i \in 1 .. Len(F) : mark(F[i]) \in Entries
    BY <1>2, <1>3
  <2> QED
    BY <1>1, <2>1, IsASeq
<1>6. \A i \in 1 .. Len(F) :
        /\ F2[i].msg = F[i].msg
        /\ F2[i].persisted = (F[i].persisted \/ F[i].msg.seq = n)
  BY <1>2, <1>3
<1> HIDE DEF F2, r2
<1>7. /\ r2 \in Sequencers /\ r2.in_flight = F2
      /\ r2.next_out_seq_num = r.next_out_seq_num /\ r2.ready = r.ready
  BY <1>4, <1>5 DEF Sequencers
<1> QED
  BY <1>5, <1>6, <1>7 DEF r2

\* What is persisted in order moves from the messages in flight to the ready.
LEMMA DrainedFields ==
  ASSUME NEW r \in Sequencers, NEW k \in 0 .. Len(r.in_flight)
  PROVE  LET d == Drained(r, k)
         IN  /\ d \in Sequencers
             /\ d.next_out_seq_num = r.next_out_seq_num
             /\ Len(d.in_flight) = Len(r.in_flight) - k
             /\ \A i \in 1 .. Len(d.in_flight) : d.in_flight[i] = r.in_flight[i + k]
             /\ Len(d.ready) = Len(r.ready) + k
             /\ \A i \in 1 .. Len(r.ready) : d.ready[i] = r.ready[i]
             /\ \A i \in 1 .. k : d.ready[Len(r.ready) + i] = r.in_flight[i].msg
<1> DEFINE F == r.in_flight
           P == [i \in 1 .. k |-> F[i].msg]
           d == Drained(r, k)
<1>1. /\ F \in Seq(Entries) /\ Len(F) \in Nat
      /\ r.ready \in Seq(Messages) /\ Len(r.ready) \in Nat
  BY SequencerFields, LenProperties
<1>2. P \in Seq(Messages) /\ Len(P) = k
  <2>1. \A i \in 1 .. k : F[i].msg \in Messages
    BY SMTT(30), <1>1, SequencerFields
  <2> QED
    BY <1>1, <2>1, IsASeq
<1>3. \A i \in 1 .. k : P[i] = F[i].msg
  OBVIOUS
<1> HIDE DEF P
<1>4. /\ r.ready \o P \in Seq(Messages)
      /\ Len(r.ready \o P) = Len(r.ready) + k
      /\ \A i \in 1 .. Len(r.ready) + k :
           (r.ready \o P)[i] = IF i <= Len(r.ready) THEN r.ready[i] ELSE P[i - Len(r.ready)]
  BY <1>1, <1>2, ConcatProperties
<1>5. /\ SubSeq(F, k + 1, Len(F)) \in Seq(Entries)
      /\ Len(SubSeq(F, k + 1, Len(F))) = Len(F) - k
      /\ \A i \in 1 .. Len(F) - k : SubSeq(F, k + 1, Len(F))[i] = F[i + k]
  <2>1. \A i \in k + 1 .. Len(F) : F[i] \in Entries
    BY <1>1, SequencerFields
  <2>2. /\ SubSeq(F, k + 1, Len(F)) \in Seq(Entries)
        /\ Len(SubSeq(F, k + 1, Len(F))) =
             IF k + 1 <= Len(F) THEN Len(F) - (k + 1) + 1 ELSE 0
        /\ \A i \in 1 .. Len(F) - (k + 1) + 1 :
             SubSeq(F, k + 1, Len(F))[i] = F[(k + 1) + i - 1]
    BY <1>1, <2>1, SubSeqProperties
  <2> QED
    BY <1>1, <2>2
<1>6. d = [r EXCEPT !.ready = r.ready \o P, !.in_flight = SubSeq(F, k + 1, Len(F))]
  BY DEF Drained, P
<1>7. /\ d \in Sequencers /\ d.next_out_seq_num = r.next_out_seq_num
      /\ d.ready = r.ready \o P /\ d.in_flight = SubSeq(F, k + 1, Len(F))
  BY <1>4, <1>5, <1>6 DEF Sequencers
<1> HIDE DEF d
<1>8. /\ \A i \in 1 .. Len(r.ready) : d.ready[i] = r.ready[i]
      /\ \A i \in 1 .. k : d.ready[Len(r.ready) + i] = F[i].msg
  <2>1. ASSUME NEW i \in 1 .. k PROVE d.ready[Len(r.ready) + i] = P[i]
    BY <1>1, <1>4, <1>7
  <2> QED
    BY <1>1, <1>3, <1>4, <1>7, <2>1
<1> QED
  BY <1>4, <1>5, <1>7, <1>8 DEF d

\* persisted: marking a durable message keeps the line, and its write is over.
LEMMA MarkKeeps ==
  ASSUME NEW r \in Sequencers,
         NEW ws \in SUBSET Messages, NEW land \in SUBSET ws,
         NEW st \in SUBSET Messages, NEW sn \in SUBSET Messages,
         Line(r, st, sn), Store(r, st, sn), Pending(r, ws, land, st),
         NEW m \in land
  PROVE  LET r2 == MarkPersisted(r, m.seq)
         IN  /\ r2 \in Sequencers
             /\ Line(r2, st, sn) /\ Store(r2, st, sn)
             /\ Pending(r2, ws \ {m}, land \ {m}, st)
<1> DEFINE r2 == MarkPersisted(r, m.seq)
           F == r.in_flight
           F2 == r2.in_flight
<1>1. m \in Messages /\ m.seq \in Nat
  BY DEF Messages
<1>2. /\ r2 \in Sequencers
      /\ r2.next_out_seq_num = r.next_out_seq_num /\ r2.ready = r.ready
      /\ Len(F2) = Len(F)
      /\ \A i \in 1 .. Len(F) :
           /\ F2[i].msg = F[i].msg
           /\ F2[i].persisted = (F[i].persisted \/ F[i].msg.seq = m.seq)
  BY SMTT(30), <1>1, MarkedFields
<1> HIDE DEF r2
<1>3. PICK j \in 1 .. Len(F) : F[j].msg = m
  BY DEF Pending
<1>4. Len(F) \in Nat /\ \A i \in 1 .. Len(F) : F[i].msg \in Messages /\ F[i].msg.seq \in Nat
  BY SequencerFields, LenProperties
<1>5. \A i \in 1 .. Len(F) : F[i].msg.seq = m.seq => i = j
  <2>1. \A i \in 1 .. Len(F) : (i < j => F[i].msg.seq < m.seq) /\ (j < i => m.seq < F[i].msg.seq)
    BY <1>3 DEF Line
  <2> QED
    BY <1>1, <1>4, <2>1
<1>6. Line(r2, st, sn)
  <2>1. ASSUME NEW i \in 1 .. Len(F), F2[i].persisted PROVE F2[i].msg \in st
    <3>1. CASE F[i].persisted
      BY <1>2, <3>1 DEF Line
    <3>2. CASE F[i].msg.seq = m.seq
      BY <1>2, <1>3, <1>5, <3>2 DEF Pending
    <3> QED
      BY <1>2, <2>1, <3>1, <3>2
  <2> QED
    BY <1>2, <2>1 DEF Line
<1>7. Store(r2, st, sn)
  BY <1>2 DEF Store
<1>8. Pending(r2, ws \ {m}, land \ {m}, st)
  <2>1. ASSUME NEW w \in ws \ {m}
        PROVE  \E i \in 1 .. Len(F2) : F2[i].msg = w /\ ~F2[i].persisted
    <3>1. PICK i \in 1 .. Len(F) : F[i].msg = w /\ ~F[i].persisted
      BY DEF Pending
    <3>2. F[i].msg.seq # m.seq
      BY <1>3, <1>5, <3>1
    <3> QED
      BY <1>2, <3>1, <3>2
  <2> QED
    BY <2>1 DEF Pending
<1> QED
  BY <1>2, <1>6, <1>7, <1>8 DEF r2

\* persisted: moving the persisted front of the line to the ready keeps the line.
LEMMA DrainKeeps ==
  ASSUME NEW r \in Sequencers, NEW k \in 0 .. Len(r.in_flight), DrainsTo(r, k),
         NEW ws \in SUBSET Messages, NEW land \in SUBSET ws,
         NEW st \in SUBSET Messages, NEW sn \in SUBSET Messages,
         Line(r, st, sn), Store(r, st, sn), Pending(r, ws, land, st)
  PROVE  LET d == Drained(r, k)
         IN  /\ d \in Sequencers
             /\ Line(d, st, sn) /\ Store(d, st, sn) /\ Pending(d, ws, land, st)
<1> DEFINE d == Drained(r, k)
           F == r.in_flight
           R == r.ready
<1>1. /\ d \in Sequencers
      /\ d.next_out_seq_num = r.next_out_seq_num
      /\ Len(d.in_flight) = Len(F) - k
      /\ \A i \in 1 .. Len(d.in_flight) : d.in_flight[i] = F[i + k]
      /\ Len(d.ready) = Len(R) + k
      /\ \A i \in 1 .. Len(R) : d.ready[i] = R[i]
      /\ \A i \in 1 .. k : d.ready[Len(R) + i] = F[i].msg
  BY DrainedFields
<1> HIDE DEF d
<1>2. Len(F) \in Nat /\ Len(R) \in Nat
  BY SequencerFields, LenProperties
<1>3. \A i \in 1 .. k : F[i].persisted
  BY DEF DrainsTo
<1>4. \A i \in 1 .. Len(d.in_flight) : i + k \in 1 .. Len(F) /\ d.in_flight[i] = F[i + k]
  BY <1>1, <1>2
<1>5. \A i \in 1 .. Len(d.ready) :
        \/ i \in 1 .. Len(R) /\ d.ready[i] = R[i]
        \/ /\ i > Len(R) /\ i - Len(R) \in 1 .. k /\ i - Len(R) \in 1 .. Len(F)
           /\ d.ready[i] = F[i - Len(R)].msg
  <2>1. ASSUME NEW i \in 1 .. Len(d.ready), i > Len(R)
        PROVE  i - Len(R) \in 1 .. k /\ i = Len(R) + (i - Len(R))
    BY <1>1, <1>2, <2>1
  <2>2. ASSUME NEW i \in 1 .. Len(d.ready), i > Len(R)
        PROVE  d.ready[i] = F[i - Len(R)].msg
    BY SMTT(30), <1>1, <2>1, <2>2
  <2> QED
    BY <1>1, <1>2, <2>1, <2>2
<1>6. Line(d, st, sn)
  <2>1. ASSUME NEW i \in 1 .. Len(d.in_flight), NEW j \in 1 .. Len(d.in_flight), i < j
        PROVE  d.in_flight[i].msg.seq < d.in_flight[j].msg.seq
    <3>1. i + k < j + k
      BY <1>1, <1>2, <2>1
    <3> QED
      BY <1>4, <3>1 DEF Line
  <2>2. ASSUME NEW i \in 1 .. Len(d.in_flight)
        PROVE  /\ d.in_flight[i].msg.seq < d.next_out_seq_num
               /\ d.in_flight[i].persisted => d.in_flight[i].msg \in st
               /\ \A o \in sn : o.seq < d.in_flight[i].msg.seq
    BY <1>1, <1>4 DEF Line
  <2>3. ASSUME NEW i \in 1 .. Len(d.ready), NEW j \in 1 .. Len(d.ready), i < j
        PROVE  d.ready[i].seq < d.ready[j].seq
    <3>1. CASE j \in 1 .. Len(R) /\ d.ready[j] = R[j]
      <4>1. i \in 1 .. Len(R) /\ d.ready[i] = R[i]
        BY <1>2, <1>5, <2>3, <3>1
      <4> QED
        BY <2>3, <3>1, <4>1 DEF Line
    <3>2. CASE /\ j - Len(R) \in 1 .. Len(F)
               /\ d.ready[j] = F[j - Len(R)].msg
      <4>1. CASE i \in 1 .. Len(R) /\ d.ready[i] = R[i]
        BY SMTT(30), <3>2, <4>1 DEF Line
      <4>2. CASE /\ i - Len(R) \in 1 .. Len(F)
                 /\ d.ready[i] = F[i - Len(R)].msg
        <5>1. i - Len(R) < j - Len(R)
          BY <1>1, <1>2, <2>3
        <5> QED
          BY SMTT(30), <3>2, <4>2, <5>1 DEF Line
      <4> QED
        BY <1>5, <4>1, <4>2
    <3> QED
      BY SMTT(30), <1>5, <3>1, <3>2
  <2>4. ASSUME NEW i \in 1 .. Len(d.ready)
        PROVE  /\ d.ready[i] \in st
               /\ \A o \in sn : o.seq < d.ready[i].seq
               /\ \A j \in 1 .. Len(d.in_flight) : d.ready[i].seq < d.in_flight[j].msg.seq
    <3>1. CASE i \in 1 .. Len(R) /\ d.ready[i] = R[i]
      BY SMTT(30), <1>4, <3>1 DEF Line
    <3>2. CASE /\ i - Len(R) \in 1 .. k /\ i - Len(R) \in 1 .. Len(F)
               /\ d.ready[i] = F[i - Len(R)].msg
      <4>1. \A j \in 1 .. Len(d.in_flight) : i - Len(R) < j + k
        BY <1>1, <1>2, <3>2
      <4> QED
        BY <1>3, <1>4, <3>2, <4>1 DEF Line
    <3> QED
      BY <1>5, <3>1, <3>2
  <2> QED
    BY <2>1, <2>2, <2>3, <2>4 DEF Line
<1>7. Store(d, st, sn)
  BY <1>1 DEF Store
<1>8. Pending(d, ws, land, st)
  <2>1. ASSUME NEW w \in ws
        PROVE  \E i \in 1 .. Len(d.in_flight) :
                 d.in_flight[i].msg = w /\ ~d.in_flight[i].persisted
    <3>1. PICK i \in 1 .. Len(F) : F[i].msg = w /\ ~F[i].persisted
      BY DEF Pending
    <3>2. i - k \in 1 .. Len(d.in_flight) /\ (i - k) + k = i
      BY <1>1, <1>2, <1>3, <3>1
    <3> QED
      BY <1>4, <3>1, <3>2
  <2> QED
    BY <2>1 DEF Pending
<1> QED
  BY <1>1, <1>6, <1>7, <1>8 DEF d

\* pop_ready: the front of the line leaves it, and may have been sent.
LEMMA PoppedKeeps ==
  ASSUME NEW r \in Sequencers, r.ready # << >>,
         NEW ws \in SUBSET Messages, NEW land \in SUBSET ws,
         NEW st \in SUBSET Messages, NEW sn \in SUBSET Messages,
         NEW sn2 \in {sn, sn \union {Head(r.ready)}},
         Line(r, st, sn), Store(r, st, sn), Pending(r, ws, land, st)
  PROVE  /\ Popped(r) \in Sequencers
         /\ Head(r.ready) \in st /\ \A o \in sn : o.seq < Head(r.ready).seq
         /\ Line(Popped(r), st, sn2) /\ Store(Popped(r), st, sn2)
         /\ Pending(Popped(r), ws, land, st)
<1> DEFINE d == Popped(r)
           R == r.ready
<1>1. /\ R \in Seq(Messages) /\ R # << >>
      /\ Len(R) \in Nat /\ Len(R) >= 1 /\ Head(R) = R[1]
      /\ Tail(R) \in Seq(Messages)
      /\ Len(Tail(R)) = Len(R) - 1
      /\ \A i \in 1 .. Len(Tail(R)) : Tail(R)[i] = R[i + 1]
  BY SequencerFields, HeadTailProperties, LenProperties, EmptySeq
<1>2. /\ d \in Sequencers /\ d.ready = Tail(R)
      /\ d.in_flight = r.in_flight /\ d.next_out_seq_num = r.next_out_seq_num
  BY <1>1 DEF Popped, Sequencers
<1> HIDE DEF d
<1>3. 1 \in 1 .. Len(R) /\ \A i \in 1 .. Len(d.ready) : i + 1 \in 1 .. Len(R) /\ 1 < i + 1
  BY <1>1, <1>2
<1>4. Head(R) \in st /\ \A o \in sn : o.seq < Head(R).seq
  BY <1>1, <1>3 DEF Line
<1>5. \A o \in sn2 : o \in sn \/ o = R[1]
  BY <1>1
<1>6. Line(d, st, sn2)
  <2>1. ASSUME NEW i \in 1 .. Len(d.in_flight), NEW o \in sn2
        PROVE  o.seq < d.in_flight[i].msg.seq
    BY <1>2, <1>3, <1>5 DEF Line
  <2>2. ASSUME NEW i \in 1 .. Len(d.ready)
        PROVE  /\ d.ready[i] \in st
               /\ \A o \in sn2 : o.seq < d.ready[i].seq
               /\ \A j \in 1 .. Len(d.in_flight) : d.ready[i].seq < d.in_flight[j].msg.seq
    BY <1>1, <1>2, <1>3, <1>5 DEF Line
  <2>3. ASSUME NEW i \in 1 .. Len(d.ready), NEW j \in 1 .. Len(d.ready), i < j
        PROVE  d.ready[i].seq < d.ready[j].seq
    <3>1. i + 1 < j + 1
      BY <1>1, <1>2, <2>3
    <3> QED
      BY <1>1, <1>2, <1>3, <3>1 DEF Line
  <2> QED
    BY SMTT(30), <1>2, <2>1, <2>2, <2>3 DEF Line
<1>7. Store(d, st, sn2)
  BY <1>2, <1>4 DEF Store
<1>8. Pending(d, ws, land, st)
  BY SMTT(30), <1>2 DEF Pending
<1> QED
  BY SMTT(30), <1>2, <1>4, <1>6, <1>7, <1>8 DEF d

\* The flags are not part of the argument.
LEMMA FlagKeeps ==
  ASSUME NEW r \in Sequencers, NEW r2 \in {OnLoggedOn(r), PersistFailed(r)},
         NEW ws \in SUBSET Messages, NEW land \in SUBSET ws,
         NEW st \in SUBSET Messages, NEW sn \in SUBSET Messages,
         Line(r, st, sn), Store(r, st, sn), Pending(r, ws, land, st)
  PROVE  /\ r2 \in Sequencers /\ r2.next_out_seq_num = r.next_out_seq_num
         /\ Line(r2, st, sn) /\ Store(r2, st, sn) /\ Pending(r2, ws, land, st)
<1>1. /\ r2 \in Sequencers /\ r2.ready = r.ready
      /\ r2.in_flight = r.in_flight /\ r2.next_out_seq_num = r.next_out_seq_num
  BY DEF OnLoggedOn, PersistFailed, Sequencers
<1> QED
  BY <1>1 DEF Line, Store, Pending

\* assign keeps the line.
LEMMA AssignKeeps ==
  ASSUME NEW r \in Sequencers, NEW type \in Types, r.next_out_seq_num <= MaxOut,
         NEW ws \in SUBSET Messages, NEW land \in SUBSET ws,
         NEW st \in SUBSET Messages, NEW sn \in SUBSET Messages,
         Line(r, st, sn), Store(r, st, sn), Pending(r, ws, land, st)
  PROVE  LET r2 == Assign(r, Unnumbered(type))
         IN  /\ r2 \in Sequencers
             /\ r2.next_out_seq_num = r.next_out_seq_num + 1
             /\ Newest(r2) \in Messages
             /\ Line(r2, st, sn) /\ Store(r2, st, sn)
             /\ Pending(r2, ws \union {Newest(r2)}, land, st)
<1> DEFINE msg == Numbered(r, Unnumbered(type))
<1>1. /\ msg \in Messages /\ msg.seq = r.next_out_seq_num
      /\ Assign(r, Unnumbered(type)) = Joined(r, msg)
  BY AssignIsJoined
<1> HIDE DEF msg
<1>2. msg.seq >= r.next_out_seq_num
  BY <1>1, SequencerFields
<1>3. /\ Joined(r, msg) \in Sequencers
      /\ Joined(r, msg).next_out_seq_num = msg.seq + 1
      /\ Newest(Joined(r, msg)) = msg
      /\ Line(Joined(r, msg), st, sn)
      /\ Store(Joined(r, msg), st, sn)
      /\ Pending(Joined(r, msg), ws \union {msg}, land, st)
  BY <1>1, <1>2, JoinedKeeps
<1> QED
  BY <1>1, <1>3

\* A new sequencer that resumes beyond everything stored has an empty line.
LEMMA NewSequencerKeeps ==
  ASSUME NEW high \in 0 .. MaxOut,
         NEW st \in SUBSET Messages, NEW sn \in SUBSET st,
         \A m \in st : m.seq <= high,
         \A a, b \in st : a.seq = b.seq => a = b
  PROVE  LET r == NewSequencer("OnDelivery", high + 1, 1)
         IN  /\ r \in Sequencers /\ r.next_out_seq_num = high + 1
             /\ Line(r, st, sn) /\ Store(r, st, sn) /\ Pending(r, {}, {}, st)
<1> DEFINE r == NewSequencer("OnDelivery", high + 1, 1)
<1>1. /\ r.next_out_seq_num = high + 1 /\ r.in_flight = << >> /\ r.ready = << >>
      /\ r \in Sequencers
  <2>1. high + 1 \in 1 .. MaxOut + 1
    BY SequencerOutAssumption
  <2>2. << >> \in Seq(Entries) /\ << >> \in Seq(Messages)
    BY EmptySeq
  <2> QED
    BY <2>1, <2>2 DEF NewSequencer, Sequencers, Policies
<1> HIDE DEF r
<1>2. Len(r.in_flight) = 0 /\ Len(r.ready) = 0
  BY <1>1
<1>3. Line(r, st, sn)
  BY <1>2 DEF Line
<1>4. Store(r, st, sn)
  BY <1>1 DEF Store, Messages
<1>5. Pending(r, {}, {}, st)
  BY DEF Pending
<1> QED
  BY <1>1, <1>3, <1>4, <1>5 DEF r

=============================================================================
