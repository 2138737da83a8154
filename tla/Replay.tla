------------------------------- MODULE Replay -------------------------------
(***************************************************************************)
(* The bookkeeping for answering a peer's ResendRequest                    *)
(* (babelfix-core/src/session/replay.rs).                                  *)
(*                                                                         *)
(* A replay is a record; each method of the Rust type is an operator from  *)
(* a replay to what the method returns.  Nothing here is a state machine:  *)
(* Resend.tla and SessionState.tla own the replay that is in progress.     *)
(***************************************************************************)
EXTENDS Naturals, Sequences

\* An absent gap fill: Rust's None.  A gap fill is its inclusive bounds,
\* <<first skipped, last skipped>>.
NoGapFill == << >>

\* The requests Replay::start refuses: an inverted range, or one from zero.
ReplayStartOk(begin_seq_no, end_seq_no) ==
  /\ end_seq_no = 0 \/ begin_seq_no <= end_seq_no
  /\ begin_seq_no # 0

\* EndSeqNo of 0 is open-ended: everything sent so far.
ReplayStart(begin_seq_no, end_seq_no, next_out_seq_num) ==
  [ begin_seq_no          |-> begin_seq_no,
    end_seq_no            |-> IF end_seq_no > 0 THEN end_seq_no
                              ELSE IF next_out_seq_num > 0
                                   THEN next_out_seq_num - 1 ELSE 0,
    next_expected_seq_num |-> begin_seq_no,
    gap_fill_count        |-> 0,
    queue                 |-> << >> ]

\* Outside the requested range, or already accounted for.
OfferSkipped(r, msg_seq_num) ==
  \/ msg_seq_num < r.next_expected_seq_num
  \/ msg_seq_num > r.end_seq_no

\* A wrong form: the difference taken the wrong way round.
OwedBeforeSwapped(r, msg_seq_num) ==
  r.gap_fill_count + (r.next_expected_seq_num - msg_seq_num)

\* How many numbers right before msg_seq_num are owed a gap fill.
OwedBefore(r, msg_seq_num) ==
  r.gap_fill_count + (msg_seq_num - r.next_expected_seq_num)

\* A wrong form: the gap fill takes the retransmitted number with it.
OfferGapFillOver(r, msg_seq_num) ==
  IF OwedBefore(r, msg_seq_num) > 0
  THEN <<(msg_seq_num + 1) - OwedBefore(r, msg_seq_num) - 1, msg_seq_num>>
  ELSE NoGapFill

\* The gap fill that closes off the skipped run before a retransmission: from
\* next_expected_seq_num - gap_fill_count - 1, the cursor having moved past
\* msg_seq_num, to the number just before it.
OfferGapFill(r, msg_seq_num) ==
  IF OwedBefore(r, msg_seq_num) > 0
  THEN <<(msg_seq_num + 1) - OwedBefore(r, msg_seq_num) - 1, msg_seq_num - 1>>
  ELSE NoGapFill

\* The replay after a message inside the range was offered: the cursor moves
\* past it, and an absorbed message joins the run that is owed a gap fill.
OfferNext(r, msg_seq_num, gap_filled) ==
  [r EXCEPT !.next_expected_seq_num = msg_seq_num + 1,
            !.gap_fill_count = IF gap_filled
                               THEN OwedBefore(r, msg_seq_num) + 1
                               ELSE 0]

\* Replay::offer: the step to take and the replay that results.
Offer(r, msg_seq_num, gap_filled) ==
  IF OfferSkipped(r, msg_seq_num)
  THEN [step |-> "Skip", gap_fill |-> NoGapFill, replay |-> r]
  ELSE [step |-> IF gap_filled THEN "Absorb" ELSE "Retransmit",
        gap_fill |-> IF gap_filled THEN NoGapFill ELSE OfferGapFill(r, msg_seq_num),
        replay |-> OfferNext(r, msg_seq_num, gap_filled)]

\* The first number not yet covered by anything transmitted.
FirstOwed(r) == r.next_expected_seq_num - r.gap_fill_count

\* A wrong form: the numbers still owed before the cursor are forgotten.
TrailingGapFillShort(r) ==
  IF r.next_expected_seq_num <= r.end_seq_no
  THEN <<r.next_expected_seq_num, r.end_seq_no>> ELSE NoGapFill

\* Replay::trailing_gap_fill: what is left of the range at the end.
TrailingGapFill(r) ==
  IF FirstOwed(r) <= r.end_seq_no THEN <<FirstOwed(r), r.end_seq_no>>
                                  ELSE NoGapFill

\* Replay::defer and Replay::take_queue.
Defer(r, msg) == [r EXCEPT !.queue = Append(@, msg)]
TakeQueue(r) == r.queue
=============================================================================
