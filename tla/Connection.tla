----------------------------- MODULE Connection -----------------------------
(***************************************************************************)
(* A session driven inline (babelfix-tokio/src/connection.rs), with the    *)
(* buffers of its driver (driver.rs), the framing of a byte stream         *)
(* (codec.rs) and the writes it has in flight (store.rs).                  *)
(*                                                                         *)
(* What the session makes of its input is left open: it may have messages  *)
(* numbered, write others straight to the buffer, go on, close or fail.    *)
(* An application that is given an error drops the connection.             *)
(***************************************************************************)
EXTENDS Integers, Sequences, FiniteSets

CONSTANTS
  Streams,      \* what peers send: the frames, and how many bytes in all
  MaxFrameLen,  \* max_frame_len
  ReadChunk,    \* READ_CHUNK
  MaxOut,       \* bound: the messages numbered
  MaxAsked      \* bound: the messages one call of the session has numbered

Frames == [kind : {"Logon", "Message", "Garbled", "Unparsable"},
           prefix : Nat \ {0}, len : Nat \ {0}]

ASSUME StreamsAssumption == Streams \subseteq [frames : Seq(Frames), total : Nat]

ASSUME BoundsAssumption ==
  MaxFrameLen \in Nat /\ ReadChunk \in Nat /\ MaxOut \in Nat /\ MaxAsked \in Nat

VARIABLES
  role,       \* "Initiator" or "Acceptor"
  pc,         \* where the connection is
  call,       \* what it is doing: "initiate", "establish", "start", "send" or "step"
  progress,   \* "Close" if the session has closed in this call
  stream,     \* what the peer sends
  left,       \* bytes of it that have not been read
  buf,        \* in_buf: bytes read and not framed
  taken,      \* frames taken out of in_buf
  numbered,   \* messages numbered, the first of them our Logon
  flying,     \* writes in flight, 0 for the watermark's
  landed,     \* writes that have completed and not been fed back
  behind,     \* the watermark has moved since its write was started
  announced,  \* the session has logged on, or will as our Logon goes out
  sent,       \* messages released, and put in out_buf
  out,        \* out_buf holds something
  written,    \* messages on the wire
  closed,     \* closed: the next step reports the end
  over        \* the session has closed

control == <<pc, call, progress, over>>
input == <<stream, left, buf, taken>>
writes == <<numbered, flying, landed, behind, announced>>
output == <<sent, out, written>>

vars == <<role, control, input, writes, output, closed>>

Init ==
  /\ role \in {"Initiator", "Acceptor"}
  /\ pc = IF role = "Initiator" THEN "open" ELSE "reading"
  /\ call = "initiate" /\ progress = "Continue"
  /\ stream \in Streams
  /\ left = stream.total /\ buf = 0 /\ taken = 0
  /\ numbered = 0 /\ flying = {} /\ landed = {} /\ behind = FALSE
  /\ announced = FALSE
  /\ sent = 0 /\ out = FALSE /\ written = 0
  /\ closed = FALSE /\ over = FALSE

-----------------------------------------------------------------------------
\* Framing (codec.rs)

NextFrame == stream.frames[taken + 1]

\* What decode finds in in_buf.  BodyLength says how long a frame is once its
\* prefix is there; a garbled prefix or a frame that does not parse is refused.
Decoded ==
  IF taken >= Len(stream.frames) \/ buf < NextFrame.prefix
  THEN IF buf > MaxFrameLen THEN "refused" ELSE "partial"
  ELSE IF NextFrame.kind = "Garbled" \/ NextFrame.len > MaxFrameLen THEN "refused"
  ELSE IF buf < NextFrame.len THEN "partial"
  ELSE IF NextFrame.kind = "Unparsable" THEN "refused"
  ELSE NextFrame.kind

Extend(n) ==
  /\ n <= left
  /\ left' = left - n /\ buf' = buf + n
  /\ UNCHANGED <<stream, taken>>

Split ==
  /\ buf' = buf - NextFrame.len /\ taken' = taken + 1
  /\ UNCHANGED <<stream, left>>

-----------------------------------------------------------------------------
\* What a step of the call c leads to

Continues(c, to) == pc' = to /\ call' = c /\ progress' = "Continue" /\ UNCHANGED over

Closes(c) == pc' = "flush" /\ call' = c /\ progress' = "Close" /\ over' = TRUE

Fails == pc' = "failed" /\ UNCHANGED <<call, progress, over>>

\* n more messages are numbered and their writes started.
Starts(n) ==
  /\ numbered + n <= MaxOut
  /\ numbered' = numbered + n
  /\ flying' = flying \cup (numbered + 1 .. numbered + n)
  /\ UNCHANGED <<landed, behind>>

\* So is the watermark's, if it has moved and is not being written.
StartsMoved(n) ==
  /\ numbered + n <= MaxOut
  /\ numbered' = numbered + n
  /\ flying' = flying \cup (numbered + 1 .. numbered + n) \cup ({0} \ landed)
  /\ behind' = (0 \in flying \cup landed)
  /\ UNCHANGED landed

\* The session is given something, and goes on, closes or fails.
Asks(c, to) ==
  /\ \E n \in 0 .. MaxAsked : Starts(n) \/ StartsMoved(n)
  /\ out' \in {out, TRUE}
  /\ Continues(c, to) \/ Closes(c) \/ Fails
  /\ UNCHANGED <<announced, sent, written>>

\* persisted: what is now stored without a gap is released in order, before the
\* session has logged on only our Logon, until a release closes the session.
Persisted(to) ==
  LET released(m) == m \notin flying \cup landed' /\ (m = 1 \/ announced)
  IN  \E upto \in sent .. numbered :
        /\ \A m \in sent + 1 .. upto : released(m)
        /\ \/ (upto = numbered \/ ~released(upto + 1)) /\ Continues(call, to)
           \/ upto > sent /\ upto > 1 /\ Closes(call)
           \/ Fails
        /\ sent' = upto
        /\ out' = (out \/ upto > sent)

\* complete: a write is fed back.
Complete(w, to) ==
  /\ landed' = landed \ {w}
  /\ \/ w > 0 /\ Persisted(to) /\ UNCHANGED <<flying, behind>>
     \/ /\ w = 0
        /\ flying' = flying \cup (IF behind THEN {0} ELSE {}) /\ behind' = FALSE
        /\ Continues(call, to) \/ Fails
        /\ UNCHANGED <<sent, out>>
  /\ UNCHANGED <<numbered, announced, written>>

\* flush: what is in out_buf is written, or the connection fails.
Flush ==
  /\ pc = "flush"
  /\ \/ /\ pc' = CASE call = "initiate" -> "reading"
                     [] call = "establish" -> IF progress = "Close" THEN "failed" ELSE "start"
                     [] call = "start" -> IF progress = "Close" THEN "failed" ELSE "idle"
                     [] call = "send" -> "idle"
                     [] call = "step" -> IF progress = "Close" THEN "ended" ELSE "idle"
        /\ written' = sent
     \/ out /\ pc' = "failed" /\ UNCHANGED written
  /\ out' = FALSE
  /\ UNCHANGED <<role, call, progress, over, input, writes, sent, closed>>

\* A write completes, whatever the connection is doing.
Land(w) ==
  /\ w \in flying
  /\ flying' = flying \ {w} /\ landed' = landed \cup {w}
  /\ UNCHANGED <<role, control, input, numbered, behind, announced, output, closed>>

-----------------------------------------------------------------------------
\* The logon exchange

\* initiate: our Logon is numbered.
Open ==
  /\ pc = "open"
  /\ Starts(1)
  /\ Continues("initiate", "settle")
  /\ UNCHANGED <<role, input, announced, output, closed>>

\* settle: until every write in flight is done.
Settle ==
  /\ pc = "settle"
  /\ \/ \E w \in landed : Complete(w, "settle")
     \/ /\ flying = {} /\ landed = {}
        /\ Continues(call, "flush") /\ UNCHANGED <<writes, output>>
  /\ UNCHANGED <<role, input, closed>>

\* read_more.
Read ==
  /\ pc = "reading"
  /\ \E n \in 1 .. ReadChunk : Extend(n)
  /\ Continues(call, "decode")
  /\ UNCHANGED <<role, writes, output, closed>>

\* The peer has gone, reading fails, or LOGON_TIMEOUT passes.
ReadFails ==
  /\ pc = "reading"
  /\ Fails
  /\ UNCHANGED <<role, input, writes, output, closed>>

\* The session is given the peer's Logon, an acceptor's our own to send before it.
\* Unless that ends it, it asks for a TestRequest, and logs on as soon as our Logon
\* is out.
Establish ==
  /\ \E n \in 0 .. MaxAsked :
       /\ LET all == IF role = "Acceptor" THEN n + 1 ELSE n
          IN  Starts(all) \/ StartsMoved(all)
       /\ \/ announced' = (n > 0) /\ Continues("establish", "settle")
          \/ announced' = FALSE /\ (Continues("establish", "settle")
                                   \/ Closes("establish") \/ Fails)
  /\ UNCHANGED output

\* on_bytes of either handshake: one frame, which must be a Logon.
Decode ==
  /\ pc = "decode"
  /\ \/ /\ Decoded = "partial" /\ Continues(call, "reading")
        /\ UNCHANGED <<input, writes, output>>
     \/ /\ Decoded \in {"refused", "Message"} /\ Fails
        /\ UNCHANGED <<input, writes, output>>
     \/ /\ Decoded = "Logon" /\ Split
        /\ IF role = "Initiator" THEN Establish
           ELSE Continues(call, "pending") /\ UNCHANGED <<writes, output>>
  /\ UNCHANGED <<role, closed>>

\* PendingSession::accept.
Accept ==
  /\ pc = "pending"
  /\ Establish
  /\ UNCHANGED <<role, input, closed>>

\* A wrong form: what came with the Logon is left for the next read.
StartReady ==
  /\ pc = "start"
  /\ Continues("start", "ready")
  /\ UNCHANGED <<role, input, writes, output, closed>>

\* EstablishedDriver::start: what came with the Logon is the session's.
Start ==
  /\ pc = "start"
  /\ Continues("start", "drain")
  /\ UNCHANGED <<role, input, writes, output, closed>>

-----------------------------------------------------------------------------
\* The session

\* on_bytes: frame after frame, until the session closes.
Drain ==
  /\ pc = "drain"
  /\ \/ /\ Decoded = "partial" /\ Continues(call, "ready")
        /\ UNCHANGED <<input, writes, output>>
     \/ Decoded = "refused" /\ Fails /\ UNCHANGED <<input, writes, output>>
     \/ Decoded \in {"Logon", "Message"} /\ Split /\ Asks(call, "drain")
  /\ UNCHANGED <<role, closed>>

\* settle_ready: what has completed is fed back, what it released is flushed, and
\* an end is remembered.
SettleReady ==
  /\ pc = "ready"
  /\ \/ \E w \in landed : Complete(w, "ready")
     \/ landed = {} /\ Continues(call, "flush") /\ UNCHANGED <<writes, output>>
  /\ closed' = (closed \/ (progress' = "Close" /\ call # "start"))
  /\ UNCHANGED <<role, input>>

\* send, send_raw.
Send ==
  /\ pc = "idle"
  /\ Starts(1)
  /\ Continues("send", "ready")
  /\ UNCHANGED <<role, input, announced, output, closed>>

\* handled, which may move the watermark.
Handled ==
  /\ pc = "idle"
  /\ Starts(0) \/ StartsMoved(0)
  /\ Continues("send", "ready")
  /\ UNCHANGED <<role, input, announced, output, closed>>

\* command: replay, disconnect.
Command ==
  /\ pc = "idle"
  /\ Asks("step", "ready")
  /\ UNCHANGED <<role, input, closed>>

\* A wrong form: the end of a session is looked for in what it says alone.
StepOn ==
  /\ pc = "idle"
  /\ Continues("step", "select")
  /\ UNCHANGED <<role, input, writes, output, closed>>

Step ==
  /\ pc = "idle"
  /\ Continues("step", IF closed THEN "ended" ELSE "select")
  /\ UNCHANGED <<role, input, writes, output, closed>>

\* The deadline passes.
Tick ==
  /\ pc = "select"
  /\ Asks("step", "ready")
  /\ UNCHANGED <<role, input, closed>>

\* A wrong form: a write that step waited for is not fed back.
WriteDoneDrops ==
  /\ pc = "select"
  /\ \E w \in landed : landed' = landed \ {w}
  /\ Continues("step", "ready")
  /\ UNCHANGED <<role, input, numbered, flying, behind, announced, output, closed>>

\* A write completes, and is fed back.
WriteDone ==
  /\ pc = "select"
  /\ \E w \in landed : Complete(w, "ready")
  /\ UNCHANGED <<role, input, closed>>

ReadSome ==
  /\ pc = "select"
  /\ \E n \in 1 .. ReadChunk : Extend(n)
  /\ Continues("step", "drain")
  /\ UNCHANGED <<role, writes, output, closed>>

PeerClosed ==
  /\ pc = "select" /\ left = 0
  /\ Closes("step")
  /\ UNCHANGED <<role, input, writes, output, closed>>

ReadError ==
  /\ pc = "select"
  /\ Fails
  /\ UNCHANGED <<role, input, writes, output, closed>>

\* The caller gives up waiting, for something else to do.
Cancel ==
  /\ pc = "select"
  /\ Continues("step", "idle")
  /\ UNCHANGED <<role, input, writes, output, closed>>

Runs ==
  \/ Open \/ Settle \/ Decode \/ Start \/ Drain \/ SettleReady \/ Flush
  \/ WriteDone

Next ==
  \/ Runs
  \/ \E w \in 0 .. MaxOut : Land(w)
  \/ Read \/ ReadFails \/ Accept
  \/ Send \/ Handled \/ Command \/ Step
  \/ Tick \/ ReadSome \/ PeerClosed \/ ReadError \/ Cancel

\* The connection runs whenever it has something to do, every write completes, and
\* the caller keeps calling step, which looks at the writes before it can be given
\* up.
Fairness ==
  /\ WF_vars(Runs)
  /\ \A w \in 0 .. MaxOut : WF_vars(Land(w))
  /\ SF_vars(Step) /\ SF_vars(WriteDone)

Spec == Init /\ [][Next]_vars /\ Fairness

-----------------------------------------------------------------------------
\* The connection takes no second helping: while it waits for its peer or its
\* caller nothing that it was given is left, neither a whole frame in in_buf, so
\* that it would be seen only when more arrives, nor a message in out_buf; and what
\* it has of a frame is never more than max_frame_len (start, on_bytes, decode,
\* flush).
NothingStranded ==
  pc \in {"reading", "idle", "select"} =>
    Decoded = "partial" /\ buf <= MaxFrameLen /\ ~out

\* Nothing that the peer sends after its Logon is given to the session before our
\* Logon is on the wire, or after the session has closed (accept, initiate, start,
\* step).
SessionBetween ==
  [][taken' > taken /\ taken > 0 => written > 0 /\ ~over]_vars

\* Every message that is numbered once the session has logged on gets onto the wire,
\* however late its write completes, and an end of the session that no call reports
\* by itself is reported by a later one, unless the connection ends first
\* (settle_ready, send, step).
SettlesUp ==
  /\ \A n \in 1 .. MaxOut :
       announced /\ numbered >= n ~> written >= n \/ pc \in {"ended", "failed"}
  /\ over ~> pc \in {"ended", "failed"}
=============================================================================
