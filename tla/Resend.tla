------------------------------- MODULE Resend -------------------------------
(***************************************************************************)
(* One ResendRequest being answered: SessionState::replay_message and      *)
(* complete_replay (babelfix-core/src/session/state.rs) over the           *)
(* bookkeeping of Replay.tla, driven by an application that offers its     *)
(* stored messages in any order, as often as it likes, and stops when it   *)
(* likes.                                                                  *)
(*                                                                         *)
(* The wire is the sequence of what the peer receives in answer: a piece   *)
(* accounts for the numbers seq .. new - 1.  A retransmission accounts for *)
(* one number, a SequenceReset-GapFill for the run it skips.               *)
(***************************************************************************)
EXTENDS Replay

CONSTANT MaxSeqNum  \* the largest number a request or an offer names

ASSUME MaxSeqNumAssumption == MaxSeqNum \in Nat

VARIABLES replay,   \* the Replay in progress
          wire,     \* the pieces transmitted so far
          status,   \* "replaying" until ReplayComplete, then "complete"
          rejected  \* some Command::Replay was refused with an error

vars == <<replay, wire, status, rejected>>

SeqNums == 1 .. MaxSeqNum

\* What an offered message is to replay_message: a message that may be
\* retransmitted, a session message that is gap-filled, or a retransmittable
\* one that carries neither OrigSendingTime nor SendingTime.
Offered == {"resendable", "session", "untimed"}

Retransmission(n) == [kind |-> "message", seq |-> n, new |-> n + 1]
GapFill(gap) == [kind |-> "gapfill", seq |-> gap[1], new |-> gap[2] + 1]

\* send_gap_fill for an optional run: nothing for None.
GapFillPieces(gap) == IF gap = NoGapFill THEN << >> ELSE <<GapFill(gap)>>

Init ==
  /\ \E begin \in 0 .. MaxSeqNum, end \in 0 .. MaxSeqNum,
        highest_sent \in 0 .. MaxSeqNum :
       /\ ReplayStartOk(begin, end)
       /\ replay = ReplayStart(begin, end, highest_sent + 1)
  /\ wire = << >>
  /\ status = "replaying"
  /\ rejected = FALSE

\* replay_message: the offer is accounted for first; only then is the message
\* found to have no time to carry, and refused with nothing transmitted.
ReplayMessage(n, kind) ==
  LET offer == Offer(replay, n, kind = "session")
      refused == offer.step = "Retransmit" /\ kind = "untimed"
  IN  /\ status = "replaying"
      /\ replay' = offer.replay
      /\ wire' = IF offer.step = "Retransmit" /\ ~refused
                 THEN wire \o GapFillPieces(offer.gap_fill) \o <<Retransmission(n)>>
                 ELSE wire
      /\ rejected' = (rejected \/ refused)
      /\ UNCHANGED status

\* complete_replay: whatever is left of the range is gap-filled.
CompleteReplay ==
  /\ status = "replaying"
  /\ wire' = wire \o GapFillPieces(TrailingGapFill(replay))
  /\ status' = "complete"
  /\ UNCHANGED <<replay, rejected>>

Next ==
  \/ \E n \in SeqNums, kind \in Offered : ReplayMessage(n, kind)
  \/ CompleteReplay

Spec == Init /\ [][Next]_vars

-----------------------------------------------------------------------------

Pieces == [kind : {"message", "gapfill"}, seq : Nat, new : Nat]

\* The type invariant of the resend bookkeeping.
TypeOK ==
  /\ replay \in [begin_seq_no : Nat, end_seq_no : Nat,
                 next_expected_seq_num : Nat, gap_fill_count : Nat,
                 queue : {<< >>}]
  /\ wire \in Seq(Pieces)
  /\ status \in {"replaying", "complete"}
  /\ rejected \in BOOLEAN

\* The first number the peer has not been told about, going by the wire alone.
Uncovered == IF wire = << >> THEN replay.begin_seq_no ELSE wire[Len(wire)].new

\* Whatever the application offers, in whatever order, every piece stays inside
\* the requested range, accounts for at least one number, and starts at or
\* beyond the end of the piece before it: no gap fill names a number the peer
\* did not ask for, none is inverted, and nothing is sent twice (the subtractions
\* of Replay::offer and trailing_gap_fill).
ResendStaysInRange ==
  /\ \A i \in 1 .. Len(wire) :
       /\ replay.begin_seq_no <= wire[i].seq
       /\ wire[i].seq < wire[i].new
       /\ wire[i].new <= replay.end_seq_no + 1
  /\ \A i, j \in 1 .. Len(wire) : i < j => wire[i].new <= wire[j].seq

\* The peer can follow the answer number by number: the first piece is the first
\* number asked for, each piece starts where the last one ended, and at
\* ReplayComplete the whole range has been accounted for -- none of it when the
\* range is empty (Replay::offer, trailing_gap_fill and send_gap_fill).
ResendCovers ==
  /\ wire # << >> => wire[1].seq = replay.begin_seq_no
  /\ \A i \in 1 .. Len(wire) : i > 1 => wire[i - 1].new = wire[i].seq
  /\ status = "complete" =>
       IF replay.begin_seq_no <= replay.end_seq_no
       THEN wire # << >> /\ Uncovered = replay.end_seq_no + 1
       ELSE wire = << >>

\* ResendCovers holds for any application whose offers are never refused.
ResendCoversRange == ~rejected => ResendCovers
=============================================================================
