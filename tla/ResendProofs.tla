---------------------------- MODULE ResendProofs ----------------------------
(***************************************************************************)
(* Proofs that answering a ResendRequest stays inside the requested range  *)
(* and, unless an offer was refused, covers all of it: for every request,  *)
(* every sequence of offers and every MaxSeqNum.                           *)
(***************************************************************************)
EXTENDS Resend, SequenceTheorems, TLAPS

\* The pieces of w lie in b .. e, in order, and end at or below u.
Ordered(w, b, e, u) ==
  /\ \A i \in 1 .. Len(w) :
       /\ b <= w[i].seq
       /\ w[i].seq < w[i].new
       /\ w[i].new <= e + 1
       /\ w[i].new <= u
  /\ \A i, j \in 1 .. Len(w) : i < j => w[i].new <= w[j].seq

\* The pieces of w account for exactly b .. u - 1, each starting where the last
\* one ended.
Tiled(w, b, u) ==
  /\ w = << >> => u = b
  /\ w # << >> => w[1].seq = b /\ w[Len(w)].new = u
  /\ \A i \in 1 .. Len(w) : i > 1 => w[i - 1].new = w[i].seq

\* How far the answer has got: the first number owed while replaying, and one
\* past the range at the end.
Cursor ==
  IF status = "replaying" THEN FirstOwed(replay)
  ELSE IF replay.begin_seq_no <= replay.end_seq_no THEN replay.end_seq_no + 1
       ELSE replay.begin_seq_no

\* What makes the subtractions of the bookkeeping safe: the numbers owed a gap
\* fill all lie between the beginning of the range and the cursor.
Bookkeeping ==
  /\ 1 <= replay.begin_seq_no
  /\ replay.begin_seq_no + replay.gap_fill_count <= replay.next_expected_seq_num
  /\ \/ replay.next_expected_seq_num <= replay.end_seq_no + 1
     \/ /\ replay.next_expected_seq_num = replay.begin_seq_no
        /\ replay.gap_fill_count = 0

\* The inductive invariant.
IInv ==
  /\ TypeOK
  /\ Bookkeeping
  /\ Ordered(wire, replay.begin_seq_no, replay.end_seq_no, Cursor)
  /\ ~rejected => Tiled(wire, replay.begin_seq_no, Cursor)

-----------------------------------------------------------------------------

\* The numbers of the pieces on a well-typed wire.
LEMMA PieceFields ==
  ASSUME NEW w \in Seq(Pieces)
  PROVE  \A i \in 1 .. Len(w) : w[i].seq \in Nat /\ w[i].new \in Nat
<1>1. \A i \in 1 .. Len(w) : w[i] \in Pieces
  BY ElementOfSeq
<1> QED BY <1>1 DEF Pieces

\* Appending a piece that starts at or beyond everything sent keeps the order.
LEMMA AppendOrdered ==
  ASSUME NEW w \in Seq(Pieces), NEW b \in Nat, NEW e \in Nat, NEW u \in Nat,
         NEW p \in Pieces,
         Ordered(w, b, e, u), b <= u, u <= p.seq, p.seq < p.new, p.new <= e + 1
  PROVE  Ordered(Append(w, p), b, e, p.new)
<1> DEFINE x == Append(w, p)
<1>1. /\ x \in Seq(Pieces)
      /\ Len(x) = Len(w) + 1
      /\ \A i \in 1 .. Len(w) : x[i] = w[i]
      /\ x[Len(w) + 1] = p
  BY AppendProperties
<1>3. p.seq \in Nat /\ p.new \in Nat /\ Len(w) \in Nat
  BY LenProperties DEF Pieces
<1>4. \A i \in 1 .. Len(w) : w[i].seq \in Nat /\ w[i].new \in Nat
  BY PieceFields
<1> HIDE DEF x
<1>5. ASSUME NEW i \in 1 .. Len(x)
      PROVE  /\ b <= x[i].seq
             /\ x[i].seq < x[i].new
             /\ x[i].new <= e + 1
             /\ x[i].new <= p.new
  <2>1. CASE i \in 1 .. Len(w)
    <3>1. /\ b <= w[i].seq
          /\ w[i].seq < w[i].new
          /\ w[i].new <= e + 1
          /\ w[i].new <= u
      BY <2>1 DEF Ordered
    <3>2. x[i] = w[i] /\ w[i].new \in Nat
      BY <2>1, <1>1, <1>4
    <3>3. w[i].new <= p.new
      BY SMTT(30), <3>1, <3>2, <1>3
    <3> QED BY <3>1, <3>2, <3>3
  <2>2. CASE i = Len(w) + 1
    BY <2>2, <1>1, <1>3
  <2> QED BY <2>1, <2>2, <1>1, <1>3
<1>6. ASSUME NEW i \in 1 .. Len(x), NEW j \in 1 .. Len(x), i < j
      PROVE  x[i].new <= x[j].seq
  <2>1. i \in 1 .. Len(w)
    BY <1>1, <1>3, <1>6
  <2>2. CASE j \in 1 .. Len(w)
    BY <2>1, <2>2, <1>1, <1>6 DEF Ordered
  <2>3. CASE j = Len(w) + 1
    BY <2>1, <2>3, <1>1, <1>3, <1>4 DEF Ordered
  <2> QED BY <2>2, <2>3, <1>1, <1>3
<1> QED BY <1>5, <1>6 DEF Ordered, x

\* Appending a piece that starts where the tiling ended extends the tiling.
LEMMA AppendTiled ==
  ASSUME NEW w \in Seq(Pieces), NEW b \in Nat, NEW p \in Pieces,
         Tiled(w, b, p.seq)
  PROVE  Tiled(Append(w, p), b, p.new)
<1> DEFINE x == Append(w, p)
<1>1. /\ x # << >>
      /\ Len(x) = Len(w) + 1
      /\ \A i \in 1 .. Len(w) : x[i] = w[i]
      /\ x[Len(w) + 1] = p
  BY AppendProperties
<1>2. Len(w) \in Nat /\ (w = << >> <=> Len(w) = 0)
  BY EmptySeq, LenProperties
<1> HIDE DEF x
<1>3. x[1].seq = b
  <2>1. CASE w = << >>
    BY <2>1, <1>1, <1>2 DEF Tiled
  <2>2. CASE w # << >>
    BY <2>2, <1>1, <1>2 DEF Tiled
  <2> QED BY <2>1, <2>2
<1>4. x[Len(x)].new = p.new
  BY <1>1
<1>5. ASSUME NEW i \in 1 .. Len(x), i > 1
      PROVE  x[i - 1].new = x[i].seq
  <2>1. CASE i \in 1 .. Len(w)
    BY <2>1, <1>1, <1>2, <1>5 DEF Tiled
  <2>2. CASE i = Len(w) + 1
    BY <2>2, <1>1, <1>2, <1>5 DEF Tiled
  <2> QED BY <2>1, <2>2, <1>1, <1>2
<1> QED BY <1>1, <1>3, <1>4, <1>5 DEF Tiled, x
\* Sending an optional gap fill that starts where the answer had got to brings
\* it to the end of the gap fill; with none to send, nothing moves.
LEMMA GapFillKeeps ==
  ASSUME NEW w \in Seq(Pieces), NEW b \in Nat, NEW e \in Nat,
         NEW lo \in Nat, NEW hi \in Nat,
         Ordered(w, b, e, lo), b <= lo, lo <= hi, hi <= e
  PROVE  LET x == w \o GapFillPieces(<<lo, hi>>)
         IN  /\ x \in Seq(Pieces)
             /\ Ordered(x, b, e, hi + 1)
             /\ Tiled(w, b, lo) => Tiled(x, b, hi + 1)
<1> DEFINE p == GapFill(<<lo, hi>>)
<1>1. GapFillPieces(<<lo, hi>>) = <<p>>
  BY DEF GapFillPieces, NoGapFill
<1>2. p \in Pieces /\ p.seq = lo /\ p.new = hi + 1
  BY DEF GapFill, Pieces
<1> HIDE DEF p
<1>3. w \o <<p>> = Append(w, p)
  BY <1>2, AppendIsConcat
<1>4. Append(w, p) \in Seq(Pieces)
  BY <1>2, AppendProperties
<1>5. Ordered(Append(w, p), b, e, hi + 1)
  BY <1>2, AppendOrdered
<1>6. Tiled(w, b, lo) => Tiled(Append(w, p), b, hi + 1)
  BY <1>2, AppendTiled
<1> QED BY <1>1, <1>3, <1>4, <1>5, <1>6

\* A wire that ends at or below u also ends at or below anything beyond u.
LEMMA OrderedMonotone ==
  ASSUME NEW w \in Seq(Pieces), NEW b \in Nat, NEW e \in Nat,
         NEW u \in Nat, NEW v \in Nat, Ordered(w, b, e, u), u <= v
  PROVE  Ordered(w, b, e, v)
<1>1. \A i \in 1 .. Len(w) : w[i].new \in Nat
  BY PieceFields
<1>2. \A i \in 1 .. Len(w) : w[i].new <= v
  BY <1>1 DEF Ordered
<1> QED BY <1>2 DEF Ordered

-----------------------------------------------------------------------------

Replays == [begin_seq_no : Nat, end_seq_no : Nat, next_expected_seq_num : Nat,
            gap_fill_count : Nat, queue : {<< >>}]

\* What an offer inside the range leaves in the bookkeeping.
LEMMA OfferNextFields ==
  ASSUME NEW r \in Replays, NEW n \in Nat, NEW gap_filled \in BOOLEAN,
         OwedBefore(r, n) \in Nat
  PROVE  LET x == OfferNext(r, n, gap_filled)
         IN  /\ x.begin_seq_no = r.begin_seq_no
             /\ x.end_seq_no = r.end_seq_no
             /\ x.next_expected_seq_num = n + 1
             /\ x.gap_fill_count = IF gap_filled THEN OwedBefore(r, n) + 1 ELSE 0
             /\ x \in Replays
<1> DEFINE c == IF gap_filled THEN OwedBefore(r, n) + 1 ELSE 0
<1>1. c \in Nat
  OBVIOUS
<1>2. OfferNext(r, n, gap_filled) =
        [r EXCEPT !.next_expected_seq_num = n + 1, !.gap_fill_count = c]
  BY DEF OfferNext
<1> HIDE DEF c
<1> DEFINE x == [r EXCEPT !.next_expected_seq_num = n + 1, !.gap_fill_count = c]
<1>3. /\ x.begin_seq_no = r.begin_seq_no
      /\ x.end_seq_no = r.end_seq_no
      /\ x.next_expected_seq_num = n + 1
      /\ x.gap_fill_count = c
  BY <1>1 DEF Replays
<1>4. x \in Replays
  <2>1. n + 1 \in Nat
    OBVIOUS
  <2> DEFINE k == n + 1
  <2> HIDE DEF k
  <2>2. [r EXCEPT !.next_expected_seq_num = k, !.gap_fill_count = c] \in Replays
    BY <1>1, <2>1, Zenon DEF Replays, k
  <2> QED BY <2>2 DEF k
<1> HIDE DEF x
<1> QED BY <1>2, <1>3, <1>4 DEF c, x

\* The fields of a well-typed replay.
LEMMA ReplayFields ==
  ASSUME TypeOK
  PROVE  /\ replay.begin_seq_no \in Nat
         /\ replay.end_seq_no \in Nat
         /\ replay.next_expected_seq_num \in Nat
         /\ replay.gap_fill_count \in Nat
         /\ replay.queue = << >>
<1>1. replay \in Replays
  BY DEF TypeOK, Replays
<1> QED BY <1>1 DEF Replays

\* Every request Replay::start accepts starts inside the invariant.
LEMMA InitIInv == Init => IInv
<1> SUFFICES ASSUME Init PROVE IInv
  OBVIOUS
<1>1. PICK begin \in 0 .. MaxSeqNum, end \in 0 .. MaxSeqNum,
           highest_sent \in 0 .. MaxSeqNum :
         /\ ReplayStartOk(begin, end)
         /\ replay = ReplayStart(begin, end, highest_sent + 1)
  BY DEF Init
<1>2. begin \in Nat /\ end \in Nat /\ highest_sent \in Nat
  BY MaxSeqNumAssumption
<1>3. /\ replay.begin_seq_no = begin
      /\ replay.end_seq_no \in Nat
      /\ replay.next_expected_seq_num = begin
      /\ replay.gap_fill_count = 0
      /\ begin >= 1
  BY <1>1, <1>2 DEF ReplayStart, ReplayStartOk
<1>4. TypeOK
  <2>1. wire \in Seq(Pieces)
    BY EmptySeq DEF Init
  <2>2. replay \in [begin_seq_no : Nat, end_seq_no : Nat,
                    next_expected_seq_num : Nat, gap_fill_count : Nat,
                    queue : {<< >>}]
    BY <1>1, <1>2 DEF ReplayStart
  <2> QED BY <2>1, <2>2 DEF Init, TypeOK
<1>5. Bookkeeping
  BY <1>2, <1>3 DEF Bookkeeping
<1>6. Cursor = begin
  BY <1>2, <1>3 DEF Cursor, FirstOwed, Init
<1>7. wire = << >> /\ Len(wire) = 0
  BY EmptySeq DEF Init
<1>8. Ordered(wire, begin, replay.end_seq_no, begin)
  BY <1>7 DEF Ordered
<1>9. Tiled(wire, begin, begin)
  BY <1>7 DEF Tiled
<1> QED BY <1>3, <1>4, <1>5, <1>6, <1>8, <1>9 DEF IInv
\* An offer inside the range, taken as a gap-filled message or a refused one,
\* moves no piece onto the wire and keeps the bookkeeping; a retransmission
\* closes off the run before it and accounts for itself.
LEMMA ReplayMessageIInv ==
  ASSUME IInv, NEW n \in SeqNums, NEW kind \in Offered, ReplayMessage(n, kind)
  PROVE  IInv'
<1> DEFINE b == replay.begin_seq_no
           e == replay.end_seq_no
           ne == replay.next_expected_seq_num
           g == replay.gap_fill_count
<1>1. TypeOK /\ Bookkeeping
  BY DEF IInv
<1>2. b \in Nat /\ e \in Nat /\ ne \in Nat /\ g \in Nat /\ n \in Nat /\ n >= 1
  BY <1>1, ReplayFields DEF SeqNums
<1>3. wire \in Seq(Pieces) /\ status = "replaying" /\ status' = "replaying"
  BY <1>1 DEF TypeOK, ReplayMessage
<1>4. Cursor = ne - g
  BY <1>3 DEF Cursor, FirstOwed
<1>5. CASE OfferSkipped(replay, n)
  <2>1. /\ Offer(replay, n, kind = "session").step = "Skip"
        /\ Offer(replay, n, kind = "session").replay = replay
    BY <1>5 DEF Offer
  <2>2. UNCHANGED <<replay, wire, status>> /\ rejected' = rejected
    BY <1>1, <1>3, <2>1 DEF ReplayMessage, TypeOK
  <2> QED BY <2>2 DEF IInv, TypeOK, Bookkeeping, Cursor, FirstOwed
<1>6. CASE ~OfferSkipped(replay, n)
  <2>1. ne <= n /\ n <= e
    BY <1>2, <1>6 DEF OfferSkipped
  <2>2. 1 <= b /\ b + g <= ne /\ ne <= e + 1
    BY <1>1, <1>2, <2>1 DEF Bookkeeping
  <2> DEFINE o == OwedBefore(replay, n)
             offer == Offer(replay, n, kind = "session")
  <2>3. o = g + (n - ne) /\ o \in Nat /\ ne - g = n - o /\ b + o <= n
    BY <1>2, <2>1, <2>2 DEF OwedBefore
  <2>4. replay' = OfferNext(replay, n, kind = "session")
    BY <1>6 DEF ReplayMessage, Offer
  <2>5. /\ replay'.begin_seq_no = b
        /\ replay'.end_seq_no = e
        /\ replay'.next_expected_seq_num = n + 1
        /\ replay'.gap_fill_count = IF kind = "session" THEN o + 1 ELSE 0
        /\ replay' \in [begin_seq_no : Nat, end_seq_no : Nat,
                        next_expected_seq_num : Nat, gap_fill_count : Nat,
                        queue : {<< >>}]
    <3>1. replay \in Replays
      BY <1>1 DEF TypeOK, Replays
    <3>2. o \in Nat
      BY <2>3
    <3> QED BY <3>1, <3>2, <2>4, <1>2, OfferNextFields DEF Replays
  <2> HIDE DEF o
  <2>6. Bookkeeping'
    <3> DEFINE h == replay'.gap_fill_count
    <3>1. h \in Nat /\ b + h <= n + 1
      <4>1. CASE kind = "session"
        <5>1. h = o + 1
          BY <2>5, <4>1
        <5> HIDE DEF h
        <5> QED BY <1>2, <2>3, <5>1
      <4>2. CASE kind # "session"
        <5>1. h = 0
          BY <2>5, <4>2
        <5> HIDE DEF h
        <5> QED BY <1>2, <2>1, <2>2, <5>1
      <4> QED BY <4>1, <4>2
    <3> HIDE DEF h
    <3>2. n + 1 <= e + 1
      BY <2>1, <1>2
    <3> QED BY <2>2, <2>5, <3>1, <3>2 DEF Bookkeeping, h
  <2>7. Cursor' = IF kind = "session" THEN n - o ELSE n + 1
    <3>1. Cursor' = (n + 1) - replay'.gap_fill_count
      BY <2>5, <1>3 DEF Cursor, FirstOwed
    <3>2. (n + 1) - (o + 1) = n - o /\ (n + 1) - 0 = n + 1
      BY <2>3, <1>2
    <3>3. CASE kind = "session"
      BY <2>5, <3>1, <3>2, <3>3
    <3>4. CASE kind # "session"
      BY <2>5, <3>1, <3>2, <3>4
    <3> QED BY <3>3, <3>4
  <2>8. Ordered(wire, b, e, n - o) /\ (~rejected => Tiled(wire, b, n - o))
    BY <1>4, <2>3 DEF IInv
  <2>9. CASE kind = "session"
    <3>1. offer.step = "Absorb"
      BY <1>6, <2>9 DEF Offer
    <3>2. wire' = wire /\ rejected' = rejected
      BY <1>1, <2>9, <3>1 DEF ReplayMessage, TypeOK
    <3>3. TypeOK'
      BY <1>1, <1>3, <2>5, <3>2 DEF TypeOK
    <3> HIDE DEF b, e, o
    <3> QED BY <2>5, <2>6, <2>7, <2>8, <2>9, <3>2, <3>3 DEF IInv
  <2>10. CASE kind = "untimed"
    <3>1. offer.step = "Retransmit"
      BY <1>6, <2>10 DEF Offer
    <3>2. wire' = wire /\ rejected'
      BY <2>10, <3>1 DEF ReplayMessage
    <3>3. TypeOK'
      BY <1>1, <1>3, <2>5, <3>2 DEF TypeOK, ReplayMessage
    <3>4. Ordered(wire, b, e, n + 1)
      <4>1. n - o \in Nat /\ n - o <= n + 1
        BY <1>2, <2>3
      <4> QED BY <1>2, <1>3, <2>8, <4>1, OrderedMonotone
    <3> HIDE DEF b, e, o
    <3> QED BY <2>5, <2>6, <2>7, <2>10, <3>2, <3>3, <3>4 DEF IInv
  <2>11. CASE kind = "resendable"
    <3> DEFINE gap == OfferGapFill(replay, n)
               w == wire \o GapFillPieces(gap)
               p == Retransmission(n)
    <3> USE DEF o
    <3>1. offer.step = "Retransmit" /\ offer.gap_fill = gap
      BY <1>6, <2>11 DEF Offer
    <3>2. wire' = w \o <<p>> /\ rejected' = rejected
      BY <1>1, <2>11, <3>1 DEF ReplayMessage, TypeOK
    <3>3. w \in Seq(Pieces) /\ Ordered(w, b, e, n) /\ (~rejected => Tiled(w, b, n))
      <4>1. CASE o = 0
        <5>1. w = wire
          BY <1>3, <4>1, ConcatEmptySeq DEF OfferGapFill, GapFillPieces, NoGapFill
        <5> QED BY <5>1, <1>2, <1>3, <2>8, <4>1
      <4>2. CASE o > 0
        <5>1. gap = <<n - o, n - 1>>
          <6>1. (n + 1) - o - 1 = n - o
            BY <1>2, <2>3
          <6> HIDE DEF o
          <6>2. gap = <<(n + 1) - o - 1, n - 1>>
            BY <4>2 DEF OfferGapFill, o
          <6> QED BY <6>1, <6>2
        <5>2. n - o \in Nat /\ n - 1 \in Nat /\ b <= n - o /\ n - o <= n - 1
              /\ n - 1 <= e /\ (n - 1) + 1 = n
          BY <1>2, <2>1, <2>3, <4>2
        <5> HIDE DEF b, e, o, gap
        <5> QED BY <1>2, <1>3, <2>8, <5>1, <5>2, GapFillKeeps
      <4> QED BY <2>3, <4>1, <4>2
    <3>4. p \in Pieces /\ p.seq = n /\ p.new = n + 1
      BY <1>2 DEF Retransmission, Pieces
    <3>5. b <= n /\ n + 1 <= e + 1
      BY <1>2, <2>1, <2>3
    <3> HIDE DEF b, e, o, w, p, gap
    <3>6. wire' = Append(w, p) /\ wire' \in Seq(Pieces)
      BY <3>2, <3>3, <3>4, AppendIsConcat, AppendProperties
    <3>7. Ordered(wire', b, e, n + 1)
      <4>1. n < n + 1
        BY <1>2
      <4>2. b \in Nat /\ e \in Nat /\ n \in Nat /\ w \in Seq(Pieces)
        BY <1>2, <3>3
      <4>3. Ordered(w, b, e, n)
        BY <3>3
      <4>4. n <= p.seq /\ p.seq < p.new /\ p.new <= e + 1
        BY <3>4, <3>5, <4>1, <4>2
      <4>5. Ordered(Append(w, p), b, e, p.new)
        BY <3>4, <3>5, <4>2, <4>3, <4>4, AppendOrdered
      <4> QED BY <3>4, <3>6, <4>5
    <3>8. ~rejected => Tiled(wire', b, n + 1)
      BY <1>2, <3>3, <3>4, <3>6, AppendTiled
    <3>9. TypeOK'
      BY <1>1, <1>3, <2>5, <3>2, <3>6 DEF TypeOK
    <3> QED BY <2>5, <2>6, <2>7, <2>11, <3>2, <3>7, <3>8, <3>9 DEF IInv
  <2> QED BY <2>9, <2>10, <2>11 DEF Offered
<1> QED BY <1>5, <1>6
\* Completing the replay brings the answer to one past the range.
LEMMA CompleteReplayIInv ==
  ASSUME IInv, CompleteReplay
  PROVE  IInv'
<1> DEFINE b == replay.begin_seq_no
           e == replay.end_seq_no
           ne == replay.next_expected_seq_num
           g == replay.gap_fill_count
           f == FirstOwed(replay)
<1>1. TypeOK /\ Bookkeeping
  BY DEF IInv
<1>2. b \in Nat /\ e \in Nat /\ ne \in Nat /\ g \in Nat
  BY <1>1, ReplayFields
<1>3. wire \in Seq(Pieces) /\ status = "replaying"
  BY <1>1 DEF TypeOK, CompleteReplay
<1>4. status' = "complete" /\ replay' = replay /\ rejected' = rejected
      /\ wire' = wire \o GapFillPieces(TrailingGapFill(replay))
  BY DEF CompleteReplay
<1>5. f \in Nat /\ b <= f /\ (f <= e + 1 \/ f = b)
  BY <1>1, <1>2 DEF Bookkeeping, FirstOwed
<1>6. Cursor = f
  BY <1>3 DEF Cursor
<1>7. Ordered(wire, b, e, f) /\ (~rejected => Tiled(wire, b, f))
  BY <1>6 DEF IInv
<1>8. Cursor' = IF b <= e THEN e + 1 ELSE b
  BY <1>4 DEF Cursor
<1>9. Bookkeeping'
  BY <1>1, <1>4 DEF Bookkeeping
<1>10. CASE f <= e
  <2>1. TrailingGapFill(replay) = <<f, e>>
    BY <1>10 DEF TrailingGapFill
  <2>2. Cursor' = e + 1
    BY <1>2, <1>5, <1>8, <1>10
  <2> HIDE DEF b, e, f
  <2>3. /\ wire' \in Seq(Pieces)
        /\ Ordered(wire', b, e, e + 1)
        /\ ~rejected => Tiled(wire', b, e + 1)
    <3>1. wire' = wire \o GapFillPieces(<<f, e>>)
      BY <1>4, <2>1
    <3>2. b \in Nat /\ e \in Nat /\ f \in Nat /\ b <= f /\ e <= e
      BY <1>2, <1>5
    <3> QED BY <1>3, <1>7, <1>10, <3>1, <3>2, GapFillKeeps
  <2>4. TypeOK'
    BY <1>1, <1>4, <2>3 DEF TypeOK
  <2> QED BY <1>4, <1>9, <2>2, <2>3, <2>4 DEF IInv, b, e
<1>11. CASE ~(f <= e)
  <2>1. wire' = wire
    <3>1. GapFillPieces(TrailingGapFill(replay)) = << >>
      BY <1>11 DEF TrailingGapFill, GapFillPieces, NoGapFill
    <3> QED BY <1>3, <1>4, <3>1, ConcatEmptySeq
  <2>2. Cursor' = f
    BY <1>2, <1>5, <1>8, <1>11
  <2>3. TypeOK'
    BY <1>1, <1>4, <2>1 DEF TypeOK
  <2> HIDE DEF b, e, f
  <2> QED BY <1>4, <1>7, <1>9, <2>1, <2>2, <2>3 DEF IInv, b, e
<1> QED BY <1>10, <1>11

\* Every step keeps the inductive invariant.
LEMMA NextIInv == IInv /\ [Next]_vars => IInv'
<1> SUFFICES ASSUME IInv, [Next]_vars PROVE IInv'
  OBVIOUS
<1>1. ASSUME NEW n \in SeqNums, NEW kind \in Offered, ReplayMessage(n, kind)
      PROVE  IInv'
  BY <1>1, ReplayMessageIInv
<1>2. CASE CompleteReplay
  BY <1>2, CompleteReplayIInv
<1>3. CASE UNCHANGED vars
  BY <1>3 DEF vars, IInv, TypeOK, Bookkeeping, Cursor, FirstOwed
<1> QED BY <1>1, <1>2, <1>3 DEF Next

\* The inductive invariant gives both properties of the wire.
LEMMA IInvImplies == IInv => ResendStaysInRange /\ ResendCoversRange
<1> SUFFICES ASSUME IInv PROVE ResendStaysInRange /\ ResendCoversRange
  OBVIOUS
<1> DEFINE b == replay.begin_seq_no
           e == replay.end_seq_no
<1>1. b \in Nat /\ e \in Nat /\ wire \in Seq(Pieces)
  BY ReplayFields DEF IInv, TypeOK
<1>2. Ordered(wire, b, e, Cursor) /\ (~rejected => Tiled(wire, b, Cursor))
  BY DEF IInv
<1>3. ResendStaysInRange
  BY <1>2 DEF Ordered, ResendStaysInRange
<1>4. ASSUME ~rejected PROVE ResendCovers
  <2>1. Tiled(wire, b, Cursor)
    BY <1>2, <1>4
  <2>2. ASSUME status = "complete", b <= e
        PROVE  wire # << >> /\ Uncovered = e + 1
    <3>1. Cursor = e + 1 /\ e + 1 # b
      BY <1>1, <2>2 DEF Cursor
    <3> HIDE DEF b, e
    <3> QED BY <2>1, <3>1 DEF Tiled, Uncovered
  <2>3. ASSUME status = "complete", ~(b <= e)
        PROVE  wire = << >>
    <3>1. SUFFICES ASSUME wire # << >> PROVE FALSE
      OBVIOUS
    <3>2. 1 \in 1 .. Len(wire)
      BY <1>1, <3>1, EmptySeq, LenProperties
    <3>3. wire[1].seq \in Nat /\ wire[1].new \in Nat
      BY <1>1, <3>2, PieceFields
    <3>4. b <= wire[1].seq /\ wire[1].seq < wire[1].new /\ wire[1].new <= e + 1
      BY <1>2, <3>2 DEF Ordered
    <3> QED BY <1>1, <2>3, <3>3, <3>4
  <2> QED BY <2>1, <2>2, <2>3 DEF Tiled, ResendCovers
<1> QED BY <1>3, <1>4 DEF ResendCoversRange

-----------------------------------------------------------------------------

\* The bookkeeping of Replay and the wire stay well typed; in particular no
\* subtraction of Replay::offer or trailing_gap_fill goes below zero.
THEOREM ResendTypeCorrect == Spec => []TypeOK
<1>1. IInv => TypeOK
  BY DEF IInv
<1> QED BY <1>1, InitIInv, NextIInv, PTL DEF Spec

\* Whatever the application offers, no piece of the answer leaves the range the
\* peer asked for, is inverted, or repeats a number already accounted for.
THEOREM ResendStaysInRangeAlways == Spec => []ResendStaysInRange
BY InitIInv, NextIInv, IInvImplies, PTL DEF Spec

\* Unless one of its offers was refused, the answer to a ResendRequest accounts
\* for every number the peer asked for, exactly once and in order.
THEOREM ResendCoversRangeAlways == Spec => []ResendCoversRange
BY InitIInv, NextIInv, IInvImplies, PTL DEF Spec
=============================================================================
