----------------------------- MODULE SequencerIn -----------------------------
(***************************************************************************)
(* The inbound half of the sequencer, over the connections of a session:   *)
(* the watermark, the number the next connection resumes from.  The        *)
(* application handles messages in any order; the watermark's writes are   *)
(* run by babelfix-tokio/src/store.rs, any of them may fail, and the       *)
(* process may stop at any moment and resume from what was written.        *)
(***************************************************************************)
EXTENDS SequencerState

CONSTANTS MaxIn,          \* the largest number the peer uses
          MaxConnections  \* how many connections there are

ASSUME SequencerInAssumption ==
  /\ MaxIn \in Nat
  /\ MaxConnections \in Nat

VARIABLES
  q,           \* the Sequencer
  ended,       \* the session has failed
  expected,    \* the session's next_in_seq_num
  unfinished,  \* messages the application was handed and has not handled
  marks,       \* the watermark writes in flight, Writes::in_flight and done
  landed,      \* those of them that are durable by now
  resume,      \* the store: the watermark last written
  received,    \* the numbers that have arrived, on any connection
  done,        \* those of them that were handled, or needed no handling
  connections  \* how many connections there have been

vars == <<q, ended, expected, unfinished, marks, landed, resume, received, done,
          connections>>

\* A call that left q1 ends with persist_watermark; held is what is still being
\* written.
WithWatermark(q1, held) ==
  /\ q' = PersistWatermark(q1)
  /\ marks' = held \union NewMarks(q1)

Init ==
  /\ \E policy \in Policies : q = NewSequencer(policy, 1, 1)
  /\ ended = FALSE
  /\ expected = 1
  /\ unfinished = {}
  /\ marks = {} /\ landed = {} /\ resume = 1
  /\ received = {} /\ done = {}
  /\ connections = 1

\* Event::MessageReceived.
MessageReceived ==
  /\ ~ended /\ expected <= MaxIn
  /\ expected' = expected + 1
  /\ unfinished' = unfinished \union {expected}
  /\ received' = received \union {expected}
  /\ WithWatermark(OnMessageReceived(q, expected), marks)
  /\ UNCHANGED <<ended, landed, resume, done, connections>>

\* Event::InboundAdvanced: an admin message, or a gap fill over several numbers,
\* which needs no handling.
InboundAdvanced(new) ==
  /\ ~ended /\ new > expected
  /\ expected' = new
  /\ received' = received \union (expected .. new - 1)
  /\ done' = done \union (expected .. new - 1)
  /\ WithWatermark(OnInboundAdvanced(q, new), marks)
  /\ UNCHANGED <<ended, unfinished, landed, resume, connections>>

\* Sequencer::handled, in any order.
HandledByApp(n) ==
  /\ ~ended
  /\ unfinished' = unfinished \ {n}
  /\ done' = done \union {n}
  /\ WithWatermark(Handled(q, n), marks)
  /\ UNCHANGED <<ended, expected, landed, resume, received, connections>>

\* The store writes a watermark over the one before.  Nobody knows yet.
Land(w) ==
  /\ w \in marks \ landed
  /\ landed' = landed \union {w}
  /\ resume' = w
  /\ UNCHANGED <<q, ended, expected, unfinished, marks, received, done, connections>>

\* A completion fed back (Sequenced::complete, Sequencer::watermark_persisted).
Persisted(w) ==
  /\ ~ended
  /\ w \in landed
  /\ landed' = landed \ {w}
  /\ WithWatermark(WatermarkPersisted(q, w), marks \ {w})
  /\ UNCHANGED <<ended, expected, unfinished, resume, received, done, connections>>

\* A failure fed back: the session ends (Sequenced::complete).
WriteFailed(w) ==
  /\ ~ended
  /\ w \in marks
  /\ marks' = marks \ {w} /\ landed' = landed \ {w}
  /\ ended' = TRUE
  /\ UNCHANGED <<q, expected, unfinished, resume, received, done, connections>>

\* The process stops, or the session is over, and the next connection resumes
\* from the store.  A write that was not durable never will be.
Restart ==
  /\ connections < MaxConnections
  /\ q' = NewSequencer(q.policy, 1, resume)
  /\ ended' = FALSE
  /\ expected' = resume
  /\ unfinished' = {}
  /\ marks' = {} /\ landed' = {}
  /\ connections' = connections + 1
  /\ UNCHANGED <<resume, received, done>>

Next ==
  \/ MessageReceived
  \/ \E new \in 2 .. MaxIn + 1 : InboundAdvanced(new)
  \/ \E n \in unfinished : HandledByApp(n)
  \/ \E w \in marks : Land(w) \/ Persisted(w) \/ WriteFailed(w)
  \/ Restart

Spec == Init /\ [][Next]_vars

-----------------------------------------------------------------------------
\* Properties

\* The type invariant.
TypeOK ==
  /\ q.policy \in Policies
  /\ {q.session_next_in, q.highest_handled, q.watermark_persisted, resume, expected}
       \subseteq 1 .. MaxIn + 1
  /\ q.watermark_in_flight \in 0 .. MaxIn + 1
  /\ UNION {q.unhandled, unfinished, received, done} \subseteq 1 .. MaxIn
  /\ ended \in BOOLEAN
  /\ marks \subseteq 1 .. MaxIn + 1 /\ landed \subseteq marks
  /\ connections \in Nat

\* Wherever the process stops, a new connection resumes before everything it
\* still needs, as each policy has it: everything skipped was received; under
\* Contiguous it was also handled; under Highest at least the last of it was
\* (watermark, on_session_event, handled).
ResumeLosesNothing ==
  /\ 1 .. resume - 1 \subseteq received
  /\ q.policy = "Contiguous" => 1 .. resume - 1 \subseteq done
  /\ q.policy = "Highest" /\ resume > 1 => resume - 1 \in done

\* The watermark in the store never goes back, though writes of it take their
\* time and the value in memory moves on meanwhile (persist_watermark).
WatermarkForward == [][resume' >= resume]_vars

\* No advance is forgotten because a write was in flight when it happened: with
\* nothing in flight, the store is where the memory is (persist_watermark,
\* watermark_persisted).
NothingUnwritten == ~ended /\ marks = {} => resume = Watermark(q)

=============================================================================
