-------------------------- MODULE SequencerInProofs --------------------------
(***************************************************************************)
(* Proofs about the inbound watermark, for every stream length and number  *)
(* of connections.  ResumeLosesNothing is not inductive: what is written   *)
(* next has to be safe to resume from as well, and so has the watermark in *)
(* memory.  IInv says that of all three, and how they are ordered.         *)
(***************************************************************************)
EXTENDS SequencerIn, WellFoundedInduction, TLAPS

-----------------------------------------------------------------------------
\* The inductive invariant.  Its parts are operators of the sequencer r and of
\* what surrounds it, so that they can be said of the middle of a call too.

\* A number w that is safe to resume from.
Safe(policy, w, rec, don) ==
  /\ 1 .. w - 1 \subseteq rec
  /\ policy = "Contiguous" => 1 .. w - 1 \subseteq don
  /\ policy = "Highest" /\ w > 1 => w - 1 \in don

Sequencers ==
  [ next_out_seq_num : {1}, in_flight : {<< >>}, ready : {<< >>},
    logged_on : BOOLEAN, failed : BOOLEAN, policy : Policies,
    session_next_in : 1 .. MaxIn + 1, unhandled : SUBSET (1 .. MaxIn),
    highest_handled : 1 .. MaxIn + 1, watermark_persisted : 1 .. MaxIn + 1,
    watermark_in_flight : 0 .. MaxIn + 1 ]

Types ==
  /\ q \in Sequencers
  /\ resume \in 1 .. MaxIn + 1
  /\ expected \in 1 .. MaxIn + 1
  /\ unfinished \in SUBSET (1 .. MaxIn)
  /\ received \in SUBSET (1 .. MaxIn)
  /\ done \in SUBSET (1 .. MaxIn)
  /\ ended \in BOOLEAN
  /\ marks \in SUBSET (1 .. MaxIn + 1)
  /\ landed \in SUBSET marks
  /\ connections \in Nat

\* The sequencer follows the session, and every number the session has passed
\* is done with or on its way to the application.
Follows(r, exp, rec, don) ==
  /\ r.session_next_in = exp
  /\ 1 .. exp - 1 \subseteq rec
  /\ r.unhandled \subseteq 1 .. exp - 1
  /\ r.policy = "Contiguous" => 1 .. exp - 1 \subseteq don \union r.unhandled
  /\ r.highest_handled <= exp
  /\ r.policy = "Highest" /\ r.highest_handled > 1 => r.highest_handled - 1 \in don

\* At most one write ms is in flight, between the store res and the memory; the
\* store is where the last completion left it, or at the write that has just
\* become durable.
InFlight(r, ms, land, res, end) ==
  /\ ms \subseteq {r.watermark_in_flight}
  /\ ~end /\ r.watermark_in_flight # 0 => r.watermark_in_flight \in ms
  /\ res >= r.watermark_persisted
  /\ \A w \in ms : w \in land => res = w
  /\ \A w \in ms : w \notin land => res = r.watermark_persisted /\ w > res
  /\ ~end /\ ms = {} => res = r.watermark_persisted
  /\ \A w \in ms : w <= Watermark(r)
  /\ res <= Watermark(r)

IInv ==
  /\ Types
  /\ Follows(q, expected, received, done)
  /\ unfinished \subseteq 1 .. expected - 1
  /\ InFlight(q, marks, landed, resume, ended)
  /\ ~ended /\ marks = {} => Watermark(q) <= resume
  /\ Safe(q.policy, resume, received, done)
  /\ \A w \in marks : Safe(q.policy, w, received, done)

-----------------------------------------------------------------------------
\* The watermark

\* Every set of naturals that is not empty has a least element.
LEMMA LeastElement ==
  ASSUME NEW S \in SUBSET Nat, S # {}
  PROVE  \E n \in S : \A m \in S : n <= m
<1> DEFINE R == {p \in Nat \X Nat : p[1] < p[2]}
<1>1. IsWellFoundedOn(R, Nat)
  BY NatLessThanWellFounded DEF OpToRel
<1>2. PICK n \in S : \A m \in S : ~(<<m, n>> \in R)
  <2> HIDE DEF R
  <2> QED
    BY <1>1, WFMin
<1>3. \A m \in S : ~(m < n)
  BY <1>2
<1> QED
  BY <1>3

\* The fields of a sequencer have their types.
LEMMA SequencerFields ==
  ASSUME NEW r \in Sequencers
  PROVE  /\ r.policy \in Policies
         /\ r.session_next_in \in 1 .. MaxIn + 1
         /\ r.highest_handled \in 1 .. MaxIn + 1
         /\ r.watermark_persisted \in 1 .. MaxIn + 1
         /\ r.watermark_in_flight \in 0 .. MaxIn + 1
         /\ r.unhandled \in SUBSET (1 .. MaxIn)
  BY DEF Sequencers

\* What the watermark is under each policy.
LEMMA WatermarkIs ==
  ASSUME NEW r \in Sequencers
  PROVE  /\ r.policy = "OnDelivery" => Watermark(r) = r.session_next_in
         /\ r.policy = "Highest" => Watermark(r) = r.highest_handled
         /\ r.policy = "Contiguous" /\ r.unhandled = {} =>
              Watermark(r) = r.session_next_in
         /\ r.policy = "Contiguous" /\ r.unhandled # {} =>
              Watermark(r) \in r.unhandled /\ \A m \in r.unhandled : Watermark(r) <= m
         /\ Watermark(r) \in 1 .. MaxIn + 1
<1>1. r.unhandled # {} =>
        /\ FirstUnhandled(r) \in r.unhandled
        /\ \A m \in r.unhandled : FirstUnhandled(r) <= m
  <2> SUFFICES ASSUME r.unhandled # {}
               PROVE  /\ FirstUnhandled(r) \in r.unhandled
                      /\ \A m \in r.unhandled : FirstUnhandled(r) <= m
    OBVIOUS
  <2>1. r.unhandled \in SUBSET Nat
    BY SequencerFields, SequencerInAssumption
  <2>2. \E n \in r.unhandled : \A m \in r.unhandled : n <= m
    BY <2>1, LeastElement
  <2> QED
    BY <2>2 DEF FirstUnhandled
<1>2. r.policy \in Policies
  BY SequencerFields
<1>3. CASE r.policy = "OnDelivery"
  BY <1>3, SequencerFields DEF Watermark
<1>4. CASE r.policy = "Highest"
  BY <1>4, SequencerFields DEF Watermark
<1>5. CASE r.policy = "Contiguous"
  BY <1>1, <1>5, SequencerFields, SequencerInAssumption DEF Watermark
<1> QED
  BY <1>2, <1>3, <1>4, <1>5 DEF Policies

\* A sequencer that follows the session has a watermark safe to resume from.
LEMMA WatermarkSafe ==
  ASSUME NEW r \in Sequencers, NEW exp \in 1 .. MaxIn + 1, NEW rec, NEW don,
         Follows(r, exp, rec, don)
  PROVE  Safe(r.policy, Watermark(r), rec, don) /\ Watermark(r) <= exp
<1> USE SequencerFields, WatermarkIs, SequencerInAssumption
<1>1. CASE r.policy = "OnDelivery"
  BY <1>1 DEF Follows, Safe
<1>2. CASE r.policy = "Highest"
  BY <1>2 DEF Follows, Safe
<1>3. CASE r.policy = "Contiguous" /\ r.unhandled = {}
  BY <1>3 DEF Follows, Safe
<1>4. CASE r.policy = "Contiguous" /\ r.unhandled # {}
  BY <1>4 DEF Follows, Safe
<1> QED
  BY <1>1, <1>2, <1>3, <1>4 DEF Policies

\* More received and more done keep a number safe.
LEMMA SafeMonotone ==
  ASSUME NEW policy, NEW w, NEW rec1, NEW rec2, NEW don1, NEW don2,
         Safe(policy, w, rec1, don1), rec1 \subseteq rec2, don1 \subseteq don2
  PROVE  Safe(policy, w, rec2, don2)
  BY DEF Safe

\* persist_watermark: at most the watermark in memory joins the writes in
\* flight, and afterwards nothing in memory is waiting for a write to start.
LEMMA PersistWatermarkKeeps ==
  ASSUME NEW r \in Sequencers, NEW ms \in SUBSET (1 .. MaxIn + 1),
         NEW land \in SUBSET ms, NEW res \in 1 .. MaxIn + 1,
         NEW exp, NEW rec, NEW don,
         Follows(r, exp, rec, don),
         InFlight(r, ms, land, res, FALSE)
  PROVE  /\ PersistWatermark(r) \in Sequencers
         /\ PersistWatermark(r).policy = r.policy
         /\ ms \union NewMarks(r) \in SUBSET (1 .. MaxIn + 1)
         /\ ms \union NewMarks(r) \subseteq ms \union {Watermark(r)}
         /\ Follows(PersistWatermark(r), exp, rec, don)
         /\ InFlight(PersistWatermark(r), ms \union NewMarks(r), land, res, FALSE)
         /\ ms \union NewMarks(r) = {} => Watermark(PersistWatermark(r)) <= res
<1> DEFINE due == [r EXCEPT !.watermark_in_flight = Watermark(r)]
<1>1. Watermark(r) \in 1 .. MaxIn + 1
  BY WatermarkIs
<1>2. CASE WatermarkDue(r)
  <2>1. PersistWatermark(r) = due /\ NewMarks(r) = {Watermark(r)}
    BY <1>2 DEF PersistWatermark, NewMarks
  <2>2. due \in Sequencers
    <3>1. Watermark(r) \in 0 .. MaxIn + 1
      BY <1>1, SequencerInAssumption
    <3> QED
      BY <3>1, Zenon DEF Sequencers
  <2>3. /\ due.policy = r.policy /\ due.session_next_in = r.session_next_in
        /\ due.unhandled = r.unhandled /\ due.highest_handled = r.highest_handled
        /\ due.watermark_persisted = r.watermark_persisted
        /\ due.watermark_in_flight = Watermark(r)
    BY DEF Sequencers
  <2> HIDE DEF due
  <2>4. Watermark(due) = Watermark(r)
    <3>1. FirstUnhandled(due) = FirstUnhandled(r)
      BY <2>3, Zenon DEF FirstUnhandled
    <3> QED
      BY <2>3, <3>1, Zenon DEF Watermark
  <2>5. Follows(due, exp, rec, don)
    BY <2>3 DEF Follows
  <2>6. ms = {} /\ land = {}
    BY <1>2, SequencerInAssumption DEF InFlight, WatermarkDue
  <2>7. InFlight(due, {Watermark(r)}, land, res, FALSE)
    BY <1>1, <1>2, <2>3, <2>4, <2>6, SequencerFields, SequencerInAssumption
    DEF InFlight, WatermarkDue
  <2> QED
    BY <1>1, <2>1, <2>2, <2>3, <2>5, <2>6, <2>7
<1>3. CASE ~WatermarkDue(r)
  <2>1. PersistWatermark(r) = r /\ NewMarks(r) = {}
    BY <1>3 DEF PersistWatermark, NewMarks
  <2>2. ms = {} => Watermark(r) <= res
    BY <1>1, <1>3, SequencerFields, SequencerInAssumption DEF InFlight, WatermarkDue
  <2> QED
    BY <2>1, <2>2
<1> QED
  BY <1>2, <1>3
-----------------------------------------------------------------------------
\* Init, and the actions one by one

\* The watermark of a new sequencer is the number it resumes from.
LEMMA NewSequencerKeeps ==
  ASSUME NEW policy \in Policies, NEW n \in 1 .. MaxIn + 1
  PROVE  LET r == NewSequencer(policy, 1, n)
         IN  /\ r \in Sequencers
             /\ r.policy = policy /\ r.session_next_in = n /\ r.unhandled = {}
             /\ r.highest_handled = n /\ r.watermark_persisted = n
             /\ r.watermark_in_flight = 0
             /\ Watermark(r) = n
<1> DEFINE r == NewSequencer(policy, 1, n)
<1>1. r \in Sequencers
  BY SequencerInAssumption DEF NewSequencer, Sequencers
<1>2. /\ r.policy = policy /\ r.session_next_in = n /\ r.unhandled = {}
      /\ r.highest_handled = n /\ r.watermark_persisted = n
      /\ r.watermark_in_flight = 0
  BY DEF NewSequencer
<1> HIDE DEF r
<1>3. Watermark(r) = n
  BY <1>1, <1>2, WatermarkIs DEF Policies
<1> QED
  BY <1>1, <1>2, <1>3 DEF r

LEMMA InitIInv == Init => IInv
<1> SUFFICES ASSUME Init PROVE IInv
  OBVIOUS
<1>1. PICK policy \in Policies : q = NewSequencer(policy, 1, 1)
  BY DEF Init
<1>2. 1 \in 1 .. MaxIn + 1
  BY SequencerInAssumption
<1> USE NewSequencerKeeps, <1>1, <1>2
<1>3. Types
  BY SequencerInAssumption DEF Init, Types
<1>4. /\ Follows(q, expected, received, done)
      /\ unfinished \subseteq 1 .. expected - 1
  BY DEF Init, Follows
<1>5. /\ InFlight(q, marks, landed, resume, ended)
      /\ ~ended /\ marks = {} => Watermark(q) <= resume
  BY DEF Init, InFlight
<1>6. /\ Safe(q.policy, resume, received, done)
      /\ \A w \in marks : Safe(q.policy, w, received, done)
  BY DEF Init, Safe
<1> QED
  BY <1>3, <1>4, <1>5, <1>6 DEF IInv

\* A call that has left r, with held still being written, ends with
\* persist_watermark: if all is well in the middle, all is well at the end.
LEMMA CallKeeps ==
  ASSUME Types, NEW r \in Sequencers, NEW held \in SUBSET (1 .. MaxIn + 1),
         WithWatermark(r, held), r.policy = q.policy, ended' = FALSE,
         expected' \in 1 .. MaxIn + 1, unfinished' \in SUBSET (1 .. MaxIn),
         unfinished' \subseteq 1 .. expected' - 1,
         received' \in SUBSET (1 .. MaxIn), done' \in SUBSET (1 .. MaxIn),
         connections' \in Nat, resume' \in 1 .. MaxIn + 1, landed' \in SUBSET held,
         Follows(r, expected', received', done'),
         InFlight(r, held, landed', resume', FALSE),
         Safe(q.policy, resume', received', done'),
         \A w \in held : Safe(q.policy, w, received', done')
  PROVE  IInv'
<1> DEFINE kept == PersistWatermark(r)
           now == held \union NewMarks(r)
<1>1. q' = kept /\ marks' = now
  BY DEF WithWatermark
<1>2. /\ kept \in Sequencers
      /\ kept.policy = r.policy
      /\ now \in SUBSET (1 .. MaxIn + 1)
      /\ now \subseteq held \union {Watermark(r)}
      /\ Follows(kept, expected', received', done')
      /\ InFlight(kept, now, landed', resume', FALSE)
      /\ now = {} => Watermark(kept) <= resume'
  BY PersistWatermarkKeeps
<1>3. held \subseteq now
  OBVIOUS
<1> HIDE DEF kept, now
<1>4. Safe(q.policy, Watermark(r), received', done')
  BY WatermarkSafe
<1>5. Types'
  BY <1>1, <1>2, <1>3 DEF Types
<1>6. \A w \in now : Safe(q.policy, w, received', done')
  BY <1>2, <1>4
<1>7. /\ Follows(q, expected, received, done)'
      /\ InFlight(q, marks, landed, resume, ended)'
      /\ (~ended /\ marks = {} => Watermark(q) <= resume)'
  BY <1>1, <1>2, Zenon
<1>8. /\ Safe(q.policy, resume, received, done)'
      /\ (\A w \in marks : Safe(q.policy, w, received, done))'
  BY <1>1, <1>2, <1>6 DEF Safe
<1> QED
  BY <1>5, <1>7, <1>8 DEF IInv

\* Event::MessageReceived: the watermark waits for the new message.
LEMMA MessageReceivedIInv == IInv /\ MessageReceived => IInv'
<1> SUFFICES ASSUME IInv, MessageReceived PROVE IInv'
  OBVIOUS
<1> DEFINE r == OnMessageReceived(q, expected)
<1>1. Types /\ expected \in 1 .. MaxIn /\ ~ended
  BY SequencerInAssumption DEF IInv, Types, MessageReceived
<1>2. q \in Sequencers /\ q.session_next_in = expected
  BY DEF IInv, Types, Follows
<1>3. /\ r \in Sequencers
      /\ r.policy = q.policy /\ r.session_next_in = expected + 1
      /\ r.highest_handled = q.highest_handled
      /\ r.unhandled = IF q.policy = "Contiguous" THEN q.unhandled \union {expected}
                                                  ELSE q.unhandled
      /\ r.watermark_persisted = q.watermark_persisted
      /\ r.watermark_in_flight = q.watermark_in_flight
  <2>1. Greater(q.session_next_in, expected + 1) = expected + 1
    BY <1>1, <1>2, SequencerInAssumption DEF Greater
  <2>2. expected + 1 \in 1 .. MaxIn + 1
    BY <1>1, SequencerInAssumption
  <2>3. q.unhandled \union {expected} \in SUBSET (1 .. MaxIn)
    BY <1>1, <1>2, SequencerFields
  <2> QED
    BY <1>1, <1>2, <2>1, <2>2, <2>3 DEF OnMessageReceived, Sequencers
<1> HIDE DEF r
<1>4. Follows(r, expected', received', done')
  BY <1>1, <1>2, <1>3, SequencerFields, SequencerInAssumption
  DEF IInv, Follows, MessageReceived
<1>5. Watermark(q) <= Watermark(r)
  BY <1>1, <1>2, <1>3, WatermarkIs, SequencerFields, SequencerInAssumption
  DEF IInv, Follows, Policies
<1>6. InFlight(r, marks, landed', resume', FALSE)
  BY <1>1, <1>2, <1>3, <1>5, WatermarkIs, SequencerInAssumption
  DEF IInv, InFlight, MessageReceived, Types
<1>7. /\ Safe(q.policy, resume', received', done')
      /\ \A w \in marks : Safe(q.policy, w, received', done')
  BY SafeMonotone DEF IInv, MessageReceived
<1>8. /\ expected' \in 1 .. MaxIn + 1
      /\ unfinished' \in SUBSET (1 .. MaxIn) /\ received' \in SUBSET (1 .. MaxIn)
      /\ unfinished' \subseteq 1 .. expected' - 1
  BY <1>1, SequencerInAssumption DEF MessageReceived, Types, IInv
<1> QED
  BY <1>1, <1>3, <1>4, <1>6, <1>7, <1>8, CallKeeps DEF MessageReceived, r, Types

\* Event::InboundAdvanced: nothing is left to handle.
LEMMA InboundAdvancedIInv ==
  ASSUME NEW new \in 2 .. MaxIn + 1
  PROVE  IInv /\ InboundAdvanced(new) => IInv'
<1> SUFFICES ASSUME IInv, InboundAdvanced(new) PROVE IInv'
  OBVIOUS
<1> DEFINE r == OnInboundAdvanced(q, new)
<1>1. Types /\ expected \in 1 .. MaxIn + 1 /\ new > expected /\ ~ended
  BY DEF IInv, Types, InboundAdvanced
<1>2. q \in Sequencers /\ q.session_next_in = expected
  BY DEF IInv, Types, Follows
<1>3. /\ r \in Sequencers
      /\ r.policy = q.policy /\ r.session_next_in = new /\ r.unhandled = q.unhandled
      /\ r.highest_handled = IF q.policy = "Highest" THEN new ELSE q.highest_handled
      /\ r.watermark_persisted = q.watermark_persisted
      /\ r.watermark_in_flight = q.watermark_in_flight
  <2>1. Greater(q.session_next_in, new) = new
    BY <1>1, <1>2, SequencerInAssumption DEF Greater
  <2>2. Greater(q.highest_handled, new) = new
    BY <1>1, <1>2, SequencerFields, SequencerInAssumption DEF Greater, IInv, Follows
  <2>3. new \in 1 .. MaxIn + 1
    BY SequencerInAssumption
  <2> QED
    BY <1>1, <1>2, <2>1, <2>2, <2>3 DEF OnInboundAdvanced, Sequencers
<1> HIDE DEF r
<1>4. Follows(r, expected', received', done')
  BY <1>1, <1>2, <1>3, SequencerFields, SequencerInAssumption
  DEF IInv, Follows, InboundAdvanced
<1>5. Watermark(q) <= Watermark(r)
  BY <1>1, <1>2, <1>3, WatermarkIs, SequencerFields, SequencerInAssumption
  DEF IInv, Follows, Policies
<1>6. InFlight(r, marks, landed', resume', FALSE)
  BY <1>1, <1>2, <1>3, <1>5, WatermarkIs, SequencerInAssumption
  DEF IInv, InFlight, InboundAdvanced, Types
<1>7. /\ Safe(q.policy, resume', received', done')
      /\ \A w \in marks : Safe(q.policy, w, received', done')
  BY SafeMonotone DEF IInv, InboundAdvanced
<1>8. /\ expected' \in 1 .. MaxIn + 1
      /\ received' \in SUBSET (1 .. MaxIn) /\ done' \in SUBSET (1 .. MaxIn)
      /\ unfinished' \subseteq 1 .. expected' - 1
  BY <1>1, SequencerInAssumption DEF InboundAdvanced, Types, IInv
<1> QED
  BY <1>1, <1>3, <1>4, <1>6, <1>7, <1>8, CallKeeps DEF InboundAdvanced, r, Types

\* Sequencer::handled.
LEMMA HandledByAppIInv ==
  ASSUME NEW n \in unfinished
  PROVE  IInv /\ HandledByApp(n) => IInv'
<1> SUFFICES ASSUME IInv, HandledByApp(n) PROVE IInv'
  OBVIOUS
<1> DEFINE r == Handled(q, n)
<1>1. Types /\ expected \in 1 .. MaxIn + 1 /\ n \in 1 .. expected - 1 /\ ~ended
  BY DEF IInv, Types, HandledByApp
<1>2. q \in Sequencers /\ q.session_next_in = expected
  BY DEF IInv, Types, Follows
<1>3. /\ r \in Sequencers
      /\ r.policy = q.policy /\ r.session_next_in = expected
      /\ r.unhandled = IF q.policy = "Contiguous" THEN q.unhandled \ {n} ELSE q.unhandled
      /\ r.highest_handled = IF q.policy = "Highest"
                             THEN Greater(q.highest_handled, n + 1)
                             ELSE q.highest_handled
      /\ r.watermark_persisted = q.watermark_persisted
      /\ r.watermark_in_flight = q.watermark_in_flight
  <2>1. Greater(q.highest_handled, n + 1) \in 1 .. MaxIn + 1
    BY <1>1, <1>2, SequencerFields, SequencerInAssumption DEF Greater
  <2>2. q.unhandled \ {n} \in SUBSET (1 .. MaxIn)
    BY <1>2, SequencerFields
  <2> QED
    BY <1>1, <1>2, <2>1, <2>2 DEF Handled, Sequencers
<1> HIDE DEF r
<1>4. Follows(r, expected', received', done')
  BY <1>1, <1>2, <1>3, SequencerFields, SequencerInAssumption
  DEF IInv, Follows, HandledByApp, Greater
<1>5. Watermark(q) <= Watermark(r)
  BY <1>1, <1>2, <1>3, WatermarkIs, SequencerFields, SequencerInAssumption
  DEF IInv, Follows, Policies, Greater
<1>6. InFlight(r, marks, landed', resume', FALSE)
  BY <1>1, <1>2, <1>3, <1>5, WatermarkIs, SequencerInAssumption
  DEF IInv, InFlight, HandledByApp, Types
<1>7. /\ Safe(q.policy, resume', received', done')
      /\ \A w \in marks : Safe(q.policy, w, received', done')
  BY SafeMonotone DEF IInv, HandledByApp
<1>8. /\ done' \in SUBSET (1 .. MaxIn)
      /\ unfinished' \in SUBSET (1 .. MaxIn)
      /\ unfinished' \subseteq 1 .. expected' - 1
  BY <1>1, SequencerInAssumption DEF HandledByApp, Types, IInv
<1> QED
  BY <1>1, <1>3, <1>4, <1>6, <1>7, <1>8, CallKeeps DEF HandledByApp, r, Types

\* A watermark becomes durable.
LEMMA LandIInv ==
  ASSUME NEW w \in marks
  PROVE  IInv /\ Land(w) => IInv'
<1> SUFFICES ASSUME IInv, Land(w) PROVE IInv'
  OBVIOUS
<1>1. /\ resume' = w /\ w \notin landed /\ landed' = landed \union {w}
      /\ UNCHANGED <<q, ended, expected, unfinished, marks, received, done, connections>>
  BY DEF Land
<1>2. Types'
  BY <1>1 DEF IInv, Types
<1>3. InFlight(q, marks, landed', w, ended)
  BY <1>1, SequencerFields, SequencerInAssumption DEF IInv, Types, InFlight
<1>4. /\ InFlight(q, marks, landed, resume, ended)'
      /\ Follows(q, expected, received, done)'
      /\ (~ended /\ marks = {} => Watermark(q) <= resume)'
  BY <1>1, <1>3, Zenon DEF IInv
<1>5. /\ Safe(q.policy, resume, received, done)'
      /\ (\A x \in marks : Safe(q.policy, x, received, done))'
      /\ (unfinished \subseteq 1 .. expected - 1)'
  BY <1>1 DEF IInv
<1> QED
  BY <1>2, <1>4, <1>5 DEF IInv

\* Sequencer::watermark_persisted.
LEMMA PersistedIInv ==
  ASSUME NEW w \in marks
  PROVE  IInv /\ Persisted(w) => IInv'
<1> SUFFICES ASSUME IInv, Persisted(w) PROVE IInv'
  OBVIOUS
<1> DEFINE r == WatermarkPersisted(q, w)
<1>1. Types /\ w \in landed /\ ~ended /\ w = q.watermark_in_flight /\ resume = w
  BY DEF IInv, Types, Persisted, InFlight
<1>2. q \in Sequencers /\ w \in 1 .. MaxIn + 1
  BY DEF IInv, Types
<1>3. /\ r \in Sequencers
      /\ r.policy = q.policy /\ r.session_next_in = q.session_next_in
      /\ r.unhandled = q.unhandled /\ r.highest_handled = q.highest_handled
      /\ r.watermark_persisted = w
      /\ r.watermark_in_flight = 0
  <2>1. Greater(q.watermark_persisted, w) = w
    BY <1>1, <1>2, SequencerFields, SequencerInAssumption DEF Greater, IInv, InFlight
  <2>2. 0 \in 0 .. MaxIn + 1
    BY SequencerInAssumption
  <2> QED
    BY <1>1, <1>2, <2>1, <2>2 DEF WatermarkPersisted, Sequencers
<1> HIDE DEF r
<1>4. Follows(r, expected', received', done')
  BY <1>3 DEF IInv, Follows, Persisted
<1>5. Watermark(r) = Watermark(q)
  <2>1. FirstUnhandled(r) = FirstUnhandled(q)
    BY <1>3, Zenon DEF FirstUnhandled
  <2> QED
    BY <1>3, <2>1, Zenon DEF Watermark
<1>6. marks \ {w} = {} /\ landed' = {}
  BY <1>1 DEF IInv, Types, InFlight, Persisted
<1>7. InFlight(r, {}, landed', resume', FALSE)
  BY <1>1, <1>2, <1>3, <1>5, <1>6, SequencerInAssumption
  DEF IInv, InFlight, Persisted, Types
<1>8. /\ Safe(q.policy, resume', received', done')
      /\ \A x \in {} : Safe(q.policy, x, received', done')
  BY DEF IInv, Persisted
<1>9. WithWatermark(r, {})
  BY <1>6 DEF Persisted, r
<1> QED
  BY <1>1, <1>3, <1>4, <1>6, <1>7, <1>8, <1>9, CallKeeps DEF Persisted, Types, IInv

\* A watermark write fails: nothing more is asked of this sequencer.
LEMMA WriteFailedIInv ==
  ASSUME NEW w \in marks
  PROVE  IInv /\ WriteFailed(w) => IInv'
<1> SUFFICES ASSUME IInv, WriteFailed(w) PROVE IInv'
  OBVIOUS
<1>1. /\ marks' = marks \ {w} /\ landed' = landed \ {w} /\ ended' = TRUE
      /\ UNCHANGED <<q, expected, unfinished, resume, received, done, connections>>
  BY DEF WriteFailed
<1>2. Types'
  BY <1>1 DEF IInv, Types
<1>3. InFlight(q, marks', landed', resume, TRUE)
  BY <1>1 DEF IInv, InFlight
<1>4. /\ InFlight(q, marks, landed, resume, ended)'
      /\ Follows(q, expected, received, done)'
  BY <1>1, <1>3, Zenon DEF IInv
<1>5. /\ Safe(q.policy, resume, received, done)'
      /\ (\A x \in marks : Safe(q.policy, x, received, done))'
      /\ (unfinished \subseteq 1 .. expected - 1)'
  BY <1>1 DEF IInv
<1> QED
  BY <1>1, <1>2, <1>4, <1>5 DEF IInv

\* A new connection resumes from the store.
LEMMA RestartIInv == IInv /\ Restart => IInv'
<1> SUFFICES ASSUME IInv, Restart PROVE IInv'
  OBVIOUS
<1> DEFINE r == NewSequencer(q.policy, 1, resume)
<1>1. /\ q' = r /\ ended' = FALSE /\ expected' = resume /\ unfinished' = {}
      /\ marks' = {} /\ landed' = {} /\ connections' = connections + 1
      /\ UNCHANGED <<resume, received, done>>
  BY DEF Restart
<1>2. q \in Sequencers /\ q.policy \in Policies /\ resume \in 1 .. MaxIn + 1
  BY SequencerFields DEF IInv, Types
<1>3. /\ r \in Sequencers
      /\ r.policy = q.policy /\ r.session_next_in = resume /\ r.unhandled = {}
      /\ r.highest_handled = resume /\ r.watermark_persisted = resume
      /\ r.watermark_in_flight = 0
      /\ Watermark(r) = resume
  BY <1>2, NewSequencerKeeps
<1> HIDE DEF r
<1>4. Types'
  <2>1. q' \in Sequencers
    BY <1>1, <1>3
  <2>2. connections' \in Nat /\ expected' \in 1 .. MaxIn + 1
    BY <1>1, <1>2 DEF IInv, Types
  <2> QED
    BY <1>1, <2>1, <2>2 DEF IInv, Types
<1>5. Follows(r, resume, received, done)
  BY <1>2, <1>3 DEF IInv, Safe, Follows
<1>6. InFlight(r, {}, {}, resume, FALSE)
  BY <1>2, <1>3 DEF InFlight
<1>7. /\ InFlight(q, marks, landed, resume, ended)'
      /\ Follows(q, expected, received, done)'
  BY <1>1, <1>5, <1>6, Zenon
<1>8. (Watermark(q) <= resume)'
  <2>1. Watermark(q)' = resume
    BY <1>1, <1>3, Zenon
  <2> QED
    BY <1>1, <1>2, <2>1
<1>9. /\ Safe(q.policy, resume, received, done)'
      /\ (\A x \in marks : Safe(q.policy, x, received, done))'
      /\ (unfinished \subseteq 1 .. expected - 1)'
  BY <1>1, <1>3 DEF IInv
<1> QED
  BY <1>4, <1>7, <1>8, <1>9 DEF IInv

LEMMA NextIInv == IInv /\ [Next]_vars => IInv'
<1> SUFFICES ASSUME IInv, [Next]_vars PROVE IInv'
  OBVIOUS
<1>1. CASE MessageReceived
  BY <1>1, MessageReceivedIInv
<1>2. CASE \E new \in 2 .. MaxIn + 1 : InboundAdvanced(new)
  BY <1>2, InboundAdvancedIInv
<1>3. CASE \E n \in unfinished : HandledByApp(n)
  BY <1>3, HandledByAppIInv
<1>4. CASE \E w \in marks : Land(w) \/ Persisted(w) \/ WriteFailed(w)
  BY <1>4, LandIInv, PersistedIInv, WriteFailedIInv
<1>5. CASE Restart
  BY <1>5, RestartIInv
<1>6. CASE UNCHANGED vars
  <2>1. UNCHANGED <<q, ended, expected, unfinished, marks, landed, resume, received,
                    done, connections>>
    BY <1>6 DEF vars
  <2>2. Types' /\ (unfinished \subseteq 1 .. expected - 1)'
    BY <2>1 DEF IInv, Types
  <2>3. /\ InFlight(q, marks, landed, resume, ended)'
        /\ Follows(q, expected, received, done)'
        /\ (~ended /\ marks = {} => Watermark(q) <= resume)'
        /\ Safe(q.policy, resume, received, done)'
        /\ (\A w \in marks : Safe(q.policy, w, received, done))'
    BY <2>1, Zenon DEF IInv
  <2> QED
    BY <2>2, <2>3 DEF IInv
<1> QED
  BY <1>1, <1>2, <1>3, <1>4, <1>5, <1>6 DEF Next

-----------------------------------------------------------------------------
\* The theorems

LEMMA InvariantHolds == Spec => []IInv
  BY InitIInv, NextIInv, PTL DEF Spec

\* TypeOK always holds, for every length of the peer's stream (the Sequencer's
\* inbound fields, and the writes in flight).
THEOREM SequencerInTypeCorrect == Spec => []TypeOK
<1>1. IInv => TypeOK
  BY SequencerFields DEF IInv, Types, TypeOK
<1> QED
  BY <1>1, InvariantHolds, PTL

\* Wherever the process stops, no new connection resumes beyond a message it
\* still needs (watermark, on_session_event, handled).
THEOREM ResumeLosesNothingAlways == Spec => []ResumeLosesNothing
<1>1. IInv => ResumeLosesNothing
  BY DEF IInv, Safe, ResumeLosesNothing
<1> QED
  BY <1>1, InvariantHolds, PTL

\* No advance of the watermark is forgotten because a write was in flight when
\* it happened (persist_watermark, watermark_persisted).
THEOREM NothingUnwrittenAlways == Spec => []NothingUnwritten
<1>1. IInv => NothingUnwritten
  BY WatermarkIs, SequencerInAssumption DEF IInv, Types, InFlight, NothingUnwritten
<1> QED
  BY <1>1, InvariantHolds, PTL

\* The watermark in the store never goes back (persist_watermark).
THEOREM WatermarkForwardAlways == Spec => WatermarkForward
<1>1. IInv /\ [Next]_vars => [resume' >= resume]_vars
  <2> SUFFICES ASSUME IInv, Next PROVE resume' >= resume
    OBVIOUS
  <2>1. resume \in Int
    BY DEF IInv, Types
  <2>2. CASE \E w \in marks : Land(w)
    BY <2>1, <2>2 DEF IInv, Types, InFlight, Land
  <2>3. CASE ~\E w \in marks : Land(w)
    <3>1. UNCHANGED resume
      BY <2>3 DEF Next, MessageReceived, InboundAdvanced, HandledByApp, Persisted,
                  WriteFailed, Restart
    <3> QED
      BY <2>1, <3>1
  <2> QED
    BY <2>2, <2>3
<1> QED
  BY <1>1, InvariantHolds, PTL DEF Spec, WatermarkForward
=============================================================================
