-------------------------- MODULE ConnectionProofs --------------------------
(***************************************************************************)
(* Proofs about Connection.tla, for every set of streams, any frame limit  *)
(* and read size and any number of messages: nothing is left lying while   *)
(* the connection waits, and the session sees its peer's messages only     *)
(* between our Logon and its end.                                          *)
(***************************************************************************)
EXTENDS Connection, TLAPS

Calls == {"initiate", "establish", "start", "send", "step"}

Types ==
  /\ role \in {"Initiator", "Acceptor"}
  /\ call \in Calls /\ progress \in {"Continue", "Close"}
  /\ stream \in Streams /\ left \in Nat /\ buf \in Nat /\ taken \in Nat
  /\ numbered \in Nat /\ sent \in Nat /\ written \in Nat
  /\ written <= sent /\ sent <= numbered

\* Where in_buf has been looked through, and nothing read since.
Framed ==
  \/ pc \in {"open", "reading", "ready", "idle", "select"}
  \/ pc \in {"settle", "flush"} /\ call = "initiate"
  \/ pc = "flush" /\ call = "send"
  \/ pc = "flush" /\ call \in {"start", "step"} /\ progress = "Continue"

\* Where out_buf has been written, and nothing added since.
Flushed == pc \in {"open", "reading", "decode", "idle", "select"}

\* NothingStranded also holds on the way to where the connection waits.
Tidy ==
  /\ Framed => Decoded = "partial"
  /\ Flushed => ~out

\* What is done where.
Places ==
  /\ pc = "settle" => call \in {"initiate", "establish"}
  /\ pc = "drain" => call \in {"start", "step"}
  /\ pc \in {"ready", "idle"} => call \in {"start", "send", "step"}
  /\ pc = "select" => call = "step"

\* Where the session runs, and where the peer's Logon has not been looked at.
Running ==
  \/ pc \in {"start", "drain", "ready", "idle", "select"}
  \/ pc = "flush" /\ call \in {"start", "send", "step"}

Waiting ==
  \/ pc \in {"open", "reading", "decode"}
  \/ pc \in {"settle", "flush"} /\ call = "initiate"

\* Our Logon is numbered first, by an initiator as it opens and by an acceptor as it
\* replies; it is sent once its write is fed back, and written before the session
\* runs.
LogonFirst ==
  /\ Running => written > 0
  /\ Waiting => taken = 0
  /\ pc # "failed" /\ numbered > 0 /\ 1 \notin flying \cup landed => sent > 0
  /\ pc = "flush" /\ call = "establish" /\ progress = "Continue" => sent > 0
  /\ pc = "settle" => numbered > 0
  /\ role = "Initiator" /\ pc # "open" => numbered > 0
  /\ pc = "open" => numbered = 0
  /\ pc # "failed" /\ call = "initiate" => numbered <= 1

\* A session that is over has been reported, is about to be, or is marked closed.
Ends ==
  /\ closed => pc \in {"ready", "flush", "idle", "ended", "failed"}
               /\ call \in {"send", "step"}
  /\ over => \/ pc \in {"ended", "failed"} \/ closed
             \/ pc = "flush" /\ progress = "Close" /\ call \in {"establish", "start", "step"}

IInv == Types /\ Tidy /\ Places /\ LogonFirst /\ Ends

-----------------------------------------------------------------------------
\* What the parts of an action come to

\* The session has been given something.
Asked(c, to) ==
  /\ numbered' \in Nat /\ numbered' >= numbered
  /\ flying \subseteq flying' /\ landed' = landed
  /\ numbered = 0 /\ numbered' > 0 => 1 \in flying'
  /\ sent' = sent /\ written' = written
  /\ Continues(c, to) \/ Closes(c) \/ Fails

\* A write has been fed back.  Our Logon is the first to be released, and a session
\* that has numbered nothing else is not closed by it.
FedBack(to) ==
  /\ sent' \in Nat /\ sent <= sent' /\ sent' <= numbered
  /\ written' = written /\ numbered' = numbered
  /\ Continues(call, to) \/ (Closes(call) /\ numbered > 1 /\ sent' > 1) \/ Fails
  /\ \/ Fails
     \/ numbered > 0 /\ 1 \notin flying' \cup landed' => sent' > 0

\* The peer's Logon has been answered.
Established ==
  /\ numbered' \in Nat /\ numbered' >= numbered
  /\ role = "Acceptor" => numbered' > 0
  /\ flying \subseteq flying' /\ landed' = landed
  /\ numbered = 0 /\ numbered' > 0 => 1 \in flying'
  /\ UNCHANGED output
  /\ Continues("establish", "settle") \/ Closes("establish") \/ Fails

\* What decode finds does not change while in_buf does not.
LEMMA DecodedSame ==
  ASSUME UNCHANGED <<stream, buf, taken>>
  PROVE  Decoded' = Decoded
BY DEF Decoded, NextFrame

\* The lengths of the frame to come.
LEMMA FrameTypes ==
  ASSUME Types, ~(taken >= Len(stream.frames))
  PROVE  NextFrame.kind # "partial" /\ NextFrame.len \in Nat /\ NextFrame.prefix \in Nat \ {0}
<1>1. stream.frames \in Seq(Frames)
  BY StreamsAssumption DEF Types
<1>2. taken + 1 \in 1 .. Len(stream.frames)
  BY <1>1 DEF Types
<1>3. NextFrame \in Frames
  BY <1>1, <1>2 DEF NextFrame
<1> QED
  BY <1>3 DEF Frames

\* A part of a frame is within max_frame_len.
LEMMA PartialIsShort ==
  ASSUME Types, Decoded = "partial"
  PROVE  buf <= MaxFrameLen
<1>1. CASE taken >= Len(stream.frames) \/ buf < NextFrame.prefix
  BY <1>1, BoundsAssumption DEF Types, Decoded
<1>2. CASE ~(taken >= Len(stream.frames) \/ buf < NextFrame.prefix)
  <2>1. NextFrame.len \in Nat
    BY <1>2, FrameTypes
  <2>2. ~(NextFrame.len > MaxFrameLen) /\ NextFrame.kind # "partial"
    BY <1>2, FrameTypes DEF Decoded
  <2>3. buf < NextFrame.len
    BY <1>2, <2>2 DEF Decoded
  <2> QED
    BY <2>1, <2>2, <2>3, BoundsAssumption DEF Types
<1> QED
  BY <1>1, <1>2

\* A frame is taken only when all of it is there.
LEMMA SplitTypes ==
  ASSUME Types, Split, Decoded \in {"Logon", "Message"}
  PROVE  left' \in Nat /\ buf' \in Nat /\ taken' \in Nat /\ stream' = stream
BY FrameTypes, BoundsAssumption DEF Types, Split, Decoded

\* Having a message numbered and its write started.
LEMMA StartsEffect ==
  ASSUME Types, NEW n \in Nat, Starts(n) \/ StartsMoved(n)
  PROVE  /\ numbered' = numbered + n
         /\ flying \subseteq flying' /\ landed' = landed
         /\ numbered = 0 /\ n > 0 => 1 \in flying'
BY DEF Types, Starts, StartsMoved

\* What the session may do with what it is given.
LEMMA AsksEffect ==
  ASSUME Types, NEW c, NEW to, Asks(c, to)
  PROVE  Asked(c, to)
<1>1. PICK n \in 0 .. MaxAsked : Starts(n) \/ StartsMoved(n)
  BY DEF Asks
<1>2. n \in Nat
  BY BoundsAssumption
<1>3. /\ numbered' = numbered + n /\ flying \subseteq flying' /\ landed' = landed
      /\ numbered = 0 /\ n > 0 => 1 \in flying'
  BY <1>1, <1>2, StartsEffect
<1> QED
  BY <1>2, <1>3 DEF Asks, Asked, Types

\* What feeding a write back may do.  Before our Logon is out it is the first to be
\* released, and a session that has numbered nothing else is not closed by it.
LEMMA CompleteEffect ==
  ASSUME Types, NEW w \in landed, NEW to, Complete(w, to),
         numbered > 0 /\ 1 \notin flying \cup landed => sent > 0
  PROVE  FedBack(to)
<1> USE DEF FedBack
<1>1. CASE w = 0
  BY <1>1 DEF Complete, Types
<1>2. CASE w # 0
  <2>1. /\ Persisted(to) /\ flying' = flying /\ landed' = landed \ {w}
        /\ numbered' = numbered /\ written' = written
    BY <1>2 DEF Complete
  <2> DEFINE released(m) == m \notin flying \cup landed' /\ (m = 1 \/ announced)
  <2>2. PICK upto \in sent .. numbered :
          /\ \/ (upto = numbered \/ ~released(upto + 1)) /\ Continues(call, to)
             \/ upto > sent /\ upto > 1 /\ Closes(call)
             \/ Fails
          /\ sent' = upto
    BY <2>1 DEF Persisted
  <2>3. /\ sent' \in Nat /\ sent <= sent' /\ sent' <= numbered
        /\ Continues(call, to) \/ (Closes(call) /\ numbered > 1 /\ sent' > 1) \/ Fails
    BY <2>2 DEF Types
  <2>4. ASSUME ~Fails, numbered > 0, 1 \notin flying' \cup landed'
        PROVE  sent' > 0
    <3>1. SUFFICES ASSUME sent' = 0 PROVE FALSE
      BY <2>3
    <3>2. released(1)
      BY <2>1, <2>4
    <3>3. upto = 0 /\ upto + 1 = 1 /\ upto # numbered
      BY <2>2, <2>4, <3>1 DEF Types
    <3> HIDE DEF released
    <3> QED
      BY <2>2, <2>4, <3>2, <3>3
  <2> QED
    BY <2>1, <2>3, <2>4
<1> QED
  BY <1>1, <1>2

\* What the logon exchange may come to, once it has the peer's Logon.
LEMMA EstablishEffect ==
  ASSUME Types, Establish
  PROVE  Established
<1>1. PICK n \in 0 .. MaxAsked :
        /\ LET all == IF role = "Acceptor" THEN n + 1 ELSE n
           IN  Starts(all) \/ StartsMoved(all)
        /\ Continues("establish", "settle") \/ Closes("establish") \/ Fails
  BY DEF Establish
<1>2. n \in Nat
  BY BoundsAssumption
<1> DEFINE all == IF role = "Acceptor" THEN n + 1 ELSE n
<1>3. all \in Nat /\ (role = "Acceptor" => all > 0)
  BY <1>2
<1>4. Starts(all) \/ StartsMoved(all)
  BY <1>1
<1> HIDE DEF all
<1>5. /\ numbered' = numbered + all /\ flying \subseteq flying' /\ landed' = landed
      /\ numbered = 0 /\ all > 0 => 1 \in flying'
  BY <1>3, <1>4, StartsEffect
<1> QED
  BY <1>1, <1>3, <1>5 DEF Establish, Established, Types

-----------------------------------------------------------------------------
\* Every step keeps the invariant.
LEMMA InductiveStep ==
  ASSUME IInv, [Next]_vars
  PROVE  IInv'
<1> USE DEF Continues, Closes, Fails, control, input, writes, output
<1>1. ASSUME Open PROVE IInv'
  BY <1>1, DecodedSame, StartsEffect DEF Open, IInv, Types, Tidy, Places, LogonFirst,
     Ends, Framed, Flushed, Running, Waiting, Calls
<1>2. ASSUME Settle PROVE IInv'
  <2>1. Decoded' = Decoded
    BY <1>2, DecodedSame DEF Settle
  <2>2. CASE \E w \in landed : Complete(w, "settle")
    <3>1. FedBack("settle")
      BY <1>2, <2>2, CompleteEffect DEF Settle, IInv, LogonFirst
    <3>2. Types'
      BY <1>2, <2>1, <3>1 DEF Settle, FedBack, IInv, Types, Calls
    <3>3. Tidy'
      BY <1>2, <2>1, <3>1 DEF Settle, FedBack, IInv, Types, Tidy, Framed, Flushed, Places
    <3>4. Places'
      BY <1>2, <2>1, <3>1 DEF Settle, FedBack, IInv, Places
    <3>5. LogonFirst'
      BY <1>2, <2>1, <3>1 DEF Settle, FedBack, IInv, Types, Places, LogonFirst, Running,
         Waiting
    <3>6. Ends'
      BY <1>2, <2>1, <3>1 DEF Settle, FedBack, IInv, Types, Places, LogonFirst, Ends
    <3> QED
      BY <3>2, <3>3, <3>4, <3>5, <3>6 DEF IInv
  <2>3. CASE flying = {} /\ landed = {} /\ Continues(call, "flush") /\ UNCHANGED <<writes, output>>
    BY <1>2, <2>1, <2>3 DEF Settle, IInv, Types, Tidy, Places, LogonFirst, Ends, Framed,
       Flushed, Running, Waiting, Calls
  <2> QED
    BY <1>2, <2>2, <2>3 DEF Settle
<1>3. ASSUME Decode PROVE IInv'
  <2>1. CASE Decoded # "Logon"
    <3>1. Decoded' = Decoded
      BY <1>3, <2>1, DecodedSame DEF Decode
    <3> QED
      BY <1>3, <2>1, <3>1 DEF Decode, IInv, Types, Tidy, Places, LogonFirst, Ends,
         Framed, Flushed, Running, Waiting, Calls
  <2>2. CASE Decoded = "Logon"
    <3>1. Split /\ UNCHANGED <<role, closed>> /\ pc = "decode"
      BY <1>3, <2>2 DEF Decode
    <3>2. left' \in Nat /\ buf' \in Nat /\ taken' \in Nat /\ stream' = stream
      BY <2>2, <3>1, SplitTypes DEF IInv
    <3>3. CASE role = "Initiator"
      <4>1. Established
        BY <1>3, <2>2, <3>3, EstablishEffect DEF Decode, IInv
      <4>2. Types'
        BY <3>1, <3>2, <3>3, <4>1 DEF Split, Established, IInv, Types, Calls
      <4>3. Tidy'
        BY <3>1, <3>2, <3>3, <4>1 DEF Split, Established, IInv, Types, Tidy, Framed,
           Flushed, Places
      <4>4. Places'
        BY <3>1, <3>2, <3>3, <4>1 DEF Split, Established, IInv, Places
      <4>5. LogonFirst'
        BY <3>1, <3>2, <3>3, <4>1 DEF Split, Established, IInv, Types, Places,
           LogonFirst, Running, Waiting
      <4>6. Ends'
        BY <3>1, <3>2, <3>3, <4>1 DEF Split, Established, IInv, Types, Places,
           LogonFirst, Ends
      <4> QED
        BY <4>2, <4>3, <4>4, <4>5, <4>6 DEF IInv
    <3>4. CASE role = "Acceptor"
      <4>1. Continues(call, "pending") /\ UNCHANGED <<writes, output>>
        BY <1>3, <2>2, <3>4 DEF Decode
      <4> QED
        BY <3>1, <3>2, <3>4, <4>1 DEF Split, IInv, Types, Tidy, Places, LogonFirst,
           Ends, Framed, Flushed, Running, Waiting, Calls
    <3> QED
      BY <3>3, <3>4 DEF IInv, Types
  <2> QED
    BY <2>1, <2>2
<1>4. ASSUME Start PROVE IInv'
  BY <1>4, DecodedSame DEF Start, IInv, Types, Tidy, Places, LogonFirst, Ends, Framed,
     Flushed, Running, Waiting, Calls
<1>5. ASSUME Drain PROVE IInv'
  <2>1. CASE Decoded \notin {"Logon", "Message"}
    <3>1. Decoded' = Decoded
      BY <1>5, <2>1, DecodedSame DEF Drain
    <3> QED
      BY <1>5, <2>1, <3>1 DEF Drain, IInv, Types, Tidy, Places, LogonFirst, Ends,
         Framed, Flushed, Running, Waiting, Calls
  <2>2. CASE Decoded \in {"Logon", "Message"}
    <3>1. Split /\ Asks(call, "drain") /\ UNCHANGED <<role, closed>> /\ pc = "drain"
      BY <1>5, <2>2 DEF Drain
    <3>2. left' \in Nat /\ buf' \in Nat /\ taken' \in Nat /\ stream' = stream
      BY <2>2, <3>1, SplitTypes DEF IInv
    <3>3. Asked(call, "drain")
      BY <3>1, AsksEffect DEF IInv
    <3>4. Types'
      BY <3>1, <3>2, <3>3 DEF Split, Asked, IInv, Types, Calls
    <3>5. Tidy'
      BY <3>1, <3>2, <3>3 DEF Split, Asked, IInv, Types, Tidy, Framed, Flushed, Places
    <3>6. Places'
      BY <3>1, <3>2, <3>3 DEF Split, Asked, IInv, Places
    <3>7. LogonFirst'
      BY <3>1, <3>2, <3>3 DEF Split, Asked, IInv, Types, Places, LogonFirst, Running,
         Waiting
    <3>8. Ends'
      BY <3>1, <3>2, <3>3 DEF Split, Asked, IInv, Types, Places, LogonFirst, Ends
    <3> QED
      BY <3>4, <3>5, <3>6, <3>7, <3>8 DEF IInv
  <2> QED
    BY <2>1, <2>2
<1>6. ASSUME SettleReady PROVE IInv'
  <2>1. Decoded' = Decoded
    BY <1>6, DecodedSame DEF SettleReady
  <2>2. CASE \E w \in landed : Complete(w, "ready")
    <3>1. FedBack("ready")
      BY <1>6, <2>2, CompleteEffect DEF SettleReady, IInv, LogonFirst
    <3>2. Types'
      BY <1>6, <2>1, <3>1 DEF SettleReady, FedBack, IInv, Types, Calls
    <3>3. Tidy'
      BY <1>6, <2>1, <3>1 DEF SettleReady, FedBack, IInv, Types, Tidy, Framed, Flushed,
         Places
    <3>4. Places'
      BY <1>6, <2>1, <3>1 DEF SettleReady, FedBack, IInv, Places
    <3>5. LogonFirst'
      BY <1>6, <2>1, <3>1 DEF SettleReady, FedBack, IInv, Types, Places, LogonFirst,
         Running, Waiting
    <3>6. Ends'
      <4>1. /\ pc = "ready" /\ call \in {"start", "send", "step"}
            /\ closed' => closed \/ call # "start"
            /\ closed \/ (progress' = "Close" /\ call # "start") => closed'
        BY <1>6 DEF SettleReady, IInv, Places
      <4>2. CASE Continues(call, "ready")
        BY <4>1, <4>2 DEF IInv, Ends, Continues
      <4>3. CASE Closes(call)
        BY <4>1, <4>3 DEF IInv, Ends, Closes
      <4>4. CASE Fails
        BY <4>1, <4>4 DEF IInv, Ends, Fails
      <4> QED
        BY <3>1, <4>2, <4>3, <4>4 DEF FedBack
    <3> QED
      BY <3>2, <3>3, <3>4, <3>5, <3>6 DEF IInv
  <2>3. CASE landed = {} /\ Continues(call, "flush") /\ UNCHANGED <<writes, output>>
    BY <1>6, <2>1, <2>3 DEF SettleReady, IInv, Types, Tidy, Places, LogonFirst, Ends,
       Framed, Flushed, Running, Waiting, Calls
  <2> QED
    BY <1>6, <2>2, <2>3 DEF SettleReady
<1>7. ASSUME Flush PROVE IInv'
  <2>1. Decoded' = Decoded
    BY <1>7, DecodedSame DEF Flush
  <2>2. \/ pc' = "failed" /\ UNCHANGED written
        \/ call = "initiate" /\ pc' = "reading" /\ written' = sent
        \/ call = "establish" /\ progress # "Close" /\ pc' = "start" /\ written' = sent
        \/ call \in {"establish", "start"} /\ pc' = "failed" /\ written' = sent
        \/ /\ call = "send" \/ (call \in {"start", "step"} /\ progress # "Close")
           /\ pc' = "idle" /\ written' = sent
        \/ call = "step" /\ progress = "Close" /\ pc' = "ended" /\ written' = sent
    <3>1. CASE out /\ pc' = "failed" /\ UNCHANGED written
      BY <3>1
    <3>2. CASE call = "initiate"
      BY <1>7, <3>1, <3>2 DEF Flush
    <3>3. CASE call = "establish"
      BY <1>7, <3>1, <3>3 DEF Flush
    <3>4. CASE call = "start"
      BY <1>7, <3>1, <3>4 DEF Flush
    <3>5. CASE call = "send" /\ ~(out /\ pc' = "failed" /\ UNCHANGED written)
      <4>1. pc' = "idle" /\ written' = sent
        BY <1>7, <3>5 DEF Flush
      <4> QED
        BY <3>5, <4>1
    <3>6. CASE call = "step"
      BY <1>7, <3>1, <3>6 DEF Flush
    <3> QED
      BY <3>1, <3>2, <3>3, <3>4, <3>5, <3>6 DEF IInv, Types, Calls
  <2>3. /\ pc = "flush" /\ out' = FALSE
        /\ UNCHANGED <<role, call, progress, over, input, writes, sent, closed>>
    BY <1>7 DEF Flush
  <2>4. Types'
    BY <2>1, <2>2, <2>3 DEF IInv, Types, Calls
  <2>5. Tidy'
    BY <2>1, <2>2, <2>3 DEF IInv, Types, Tidy, Framed, Flushed, Places
  <2>6. Places'
    BY <2>1, <2>2, <2>3 DEF IInv, Places
  <2>7. LogonFirst'
    BY <2>1, <2>2, <2>3 DEF IInv, Types, Places, LogonFirst, Running, Waiting
  <2>8. Ends'
    BY <2>1, <2>2, <2>3 DEF IInv, Types, Places, LogonFirst, Ends
  <2> QED
    BY <2>4, <2>5, <2>6, <2>7, <2>8 DEF IInv
<1>8. ASSUME WriteDone PROVE IInv'
  <2>1. Decoded' = Decoded
    BY <1>8, DecodedSame DEF WriteDone
  <2>2. FedBack("ready")
    BY <1>8, CompleteEffect DEF WriteDone, IInv, LogonFirst
  <2>3. Types'
    BY <1>8, <2>1, <2>2 DEF WriteDone, FedBack, IInv, Types, Calls
  <2>4. Tidy'
    BY <1>8, <2>1, <2>2 DEF WriteDone, FedBack, IInv, Types, Tidy, Framed, Flushed, Places
  <2>5. Places'
    BY <1>8, <2>1, <2>2 DEF WriteDone, FedBack, IInv, Places
  <2>6. LogonFirst'
    BY <1>8, <2>1, <2>2 DEF WriteDone, FedBack, IInv, Types, Places, LogonFirst,
       Running, Waiting
  <2>7. Ends'
    BY <1>8, <2>1, <2>2 DEF WriteDone, FedBack, IInv, Types, Places, LogonFirst, Ends
  <2> QED
    BY <2>3, <2>4, <2>5, <2>6, <2>7 DEF IInv
<1>9. ASSUME NEW w \in 0 .. MaxOut, Land(w) PROVE IInv'
  BY <1>9, DecodedSame DEF Land, IInv, Types, Tidy, Places, LogonFirst, Ends, Framed,
     Flushed, Running, Waiting, Calls
<1>10. ASSUME Read PROVE IInv'
  BY <1>10, BoundsAssumption DEF Read, Extend, IInv, Types, Tidy, Places, LogonFirst,
     Ends, Framed, Flushed, Running, Waiting, Calls
<1>11. ASSUME ReadFails PROVE IInv'
  BY <1>11, DecodedSame DEF ReadFails, IInv, Types, Tidy, Places, LogonFirst, Ends,
     Framed, Flushed, Running, Waiting, Calls
<1>12. ASSUME Accept PROVE IInv'
  <2>1. Decoded' = Decoded
    BY <1>12, DecodedSame DEF Accept
  <2>2. Established
    BY <1>12, EstablishEffect DEF Accept, IInv
  <2>3. Types'
    BY <1>12, <2>1, <2>2 DEF Accept, Established, IInv, Types, Calls
  <2>4. Tidy'
    BY <1>12, <2>1, <2>2 DEF Accept, Established, IInv, Types, Tidy, Framed, Flushed,
       Places
  <2>5. Places'
    BY <1>12, <2>1, <2>2 DEF Accept, Established, IInv, Places
  <2>6. LogonFirst'
    BY <1>12, <2>1, <2>2 DEF Accept, Established, IInv, Types, Places, LogonFirst,
       Running, Waiting
  <2>7. Ends'
    BY <1>12, <2>1, <2>2 DEF Accept, Established, IInv, Types, Places, LogonFirst, Ends
  <2> QED
    BY <2>3, <2>4, <2>5, <2>6, <2>7 DEF IInv
<1>13. ASSUME Send PROVE IInv'
  BY <1>13, DecodedSame, StartsEffect DEF Send, IInv, Types, Tidy, Places, LogonFirst,
     Ends, Framed, Flushed, Running, Waiting, Calls
<1>14. ASSUME Handled PROVE IInv'
  BY <1>14, DecodedSame, StartsEffect DEF Handled, IInv, Types, Tidy, Places,
     LogonFirst, Ends, Framed, Flushed, Running, Waiting, Calls
<1>15. ASSUME Command PROVE IInv'
  <2>1. Decoded' = Decoded
    BY <1>15, DecodedSame DEF Command
  <2>2. Asked("step", "ready")
    BY <1>15, AsksEffect DEF Command, IInv
  <2>3. Types'
    BY <1>15, <2>1, <2>2 DEF Command, Asked, IInv, Types, Calls
  <2>4. Tidy'
    BY <1>15, <2>1, <2>2 DEF Command, Asked, IInv, Types, Tidy, Framed, Flushed, Places
  <2>5. Places'
    BY <1>15, <2>1, <2>2 DEF Command, Asked, IInv, Places
  <2>6. LogonFirst'
    BY <1>15, <2>1, <2>2 DEF Command, Asked, IInv, Types, Places, LogonFirst, Running,
       Waiting
  <2>7. Ends'
    BY SMTT(30), <1>15, <2>1, <2>2 DEF Command, Asked, IInv, Types, Places, LogonFirst, Ends
  <2> QED
    BY <2>3, <2>4, <2>5, <2>6, <2>7 DEF IInv
<1>16. ASSUME Step PROVE IInv'
  BY <1>16, DecodedSame DEF Step, IInv, Types, Tidy, Places, LogonFirst, Ends, Framed,
     Flushed, Running, Waiting, Calls
<1>17. ASSUME Tick PROVE IInv'
  <2>1. Decoded' = Decoded
    BY <1>17, DecodedSame DEF Tick
  <2>2. Asked("step", "ready")
    BY <1>17, AsksEffect DEF Tick, IInv
  <2>3. Types'
    BY <1>17, <2>1, <2>2 DEF Tick, Asked, IInv, Types, Calls
  <2>4. Tidy'
    BY <1>17, <2>1, <2>2 DEF Tick, Asked, IInv, Types, Tidy, Framed, Flushed, Places
  <2>5. Places'
    BY <1>17, <2>1, <2>2 DEF Tick, Asked, IInv, Places
  <2>6. LogonFirst'
    BY <1>17, <2>1, <2>2 DEF Tick, Asked, IInv, Types, Places, LogonFirst, Running,
       Waiting
  <2>7. Ends'
    BY SMTT(30), <1>17, <2>1, <2>2 DEF Tick, Asked, IInv, Types, Places, LogonFirst, Ends
  <2> QED
    BY <2>3, <2>4, <2>5, <2>6, <2>7 DEF IInv
<1>18. ASSUME ReadSome PROVE IInv'
  BY <1>18, BoundsAssumption DEF ReadSome, Extend, IInv, Types, Tidy, Places,
     LogonFirst, Ends, Framed, Flushed, Running, Waiting, Calls
<1>19. ASSUME PeerClosed PROVE IInv'
  BY SMTT(30), <1>19, DecodedSame DEF PeerClosed, IInv, Types, Tidy, Places, LogonFirst, Ends,
     Framed, Flushed, Running, Waiting, Calls
<1>20. ASSUME ReadError PROVE IInv'
  BY <1>20, DecodedSame DEF ReadError, IInv, Types, Tidy, Places, LogonFirst, Ends,
     Framed, Flushed, Running, Waiting, Calls
<1>21. ASSUME Cancel PROVE IInv'
  BY SMTT(30), <1>21, DecodedSame DEF Cancel, IInv, Types, Tidy, Places, LogonFirst, Ends, Framed,
     Flushed, Running, Waiting, Calls
<1>22. CASE UNCHANGED vars
  BY <1>22, DecodedSame DEF vars, IInv, Types, Tidy, Places, LogonFirst, Ends, Framed,
     Flushed, Running, Waiting, Calls
<1> QED
  BY <1>1, <1>2, <1>3, <1>4, <1>5, <1>6, <1>7, <1>8, <1>9, <1>10, <1>11, <1>12, <1>13,
     <1>14, <1>15, <1>16, <1>17, <1>18, <1>19, <1>20, <1>21, <1>22 DEF Next, Runs

\* The invariant holds of every connection.
THEOREM Invariant == Spec => []IInv
<1>1. Init => IInv
  <2> SUFFICES ASSUME Init PROVE IInv
    OBVIOUS
  <2>1. Types
    BY StreamsAssumption DEF Init, Types, Calls
  <2>2. Decoded = "partial"
    BY <2>1, FrameTypes, BoundsAssumption DEF Init, Decoded
  <2> QED
    BY <2>1, <2>2 DEF Init, IInv, Tidy, Places, LogonFirst, Ends, Flushed, Running, Waiting
<1>2. IInv /\ [Next]_vars => IInv'
  BY InductiveStep
<1> QED
  BY <1>1, <1>2, PTL DEF Spec

\* While the connection waits for its peer or its caller no whole frame is left in
\* in_buf and nothing in out_buf, and what it has of a frame is within max_frame_len,
\* whatever arrives and however it is cut up (start, on_bytes, decode, flush).
THEOREM NothingIsStranded == Spec => []NothingStranded
<1>1. IInv => NothingStranded
  BY PartialIsShort DEF IInv, Tidy, Framed, Flushed, NothingStranded
<1> QED
  BY <1>1, Invariant, PTL

\* A frame after the peer's Logon is taken only once ours is on the wire, and never
\* after the session has closed (accept, initiate, start, step).
THEOREM SessionIsBetween == Spec => SessionBetween
<1>1. ASSUME IInv, [Next]_vars, taken' > taken, taken > 0
      PROVE  written > 0 /\ ~over
  <2>1. CASE Drain
    BY <1>1, <2>1 DEF Drain, IInv, LogonFirst, Running, Ends
  <2>2. CASE Decode
    BY <1>1, <2>2 DEF Decode, IInv, Types, LogonFirst, Waiting
  <2>3. CASE ~Drain /\ ~Decode
    <3>1. taken' = taken
      BY <1>1, <2>3 DEF Next, Runs, Open, Settle, Start, SettleReady, Flush, WriteDone, Land,
         Read, ReadFails, Accept, Send, Handled, Command, Step, Tick, ReadSome, PeerClosed,
         ReadError, Cancel, Extend, input, vars
    <3> QED
      BY <1>1, <3>1 DEF IInv, Types
  <2> QED
    BY <2>1, <2>2, <2>3
<1>2. IInv /\ [Next]_vars => [taken' > taken /\ taken > 0 => written > 0 /\ ~over]_vars
  BY <1>1
<1> QED
  BY <1>2, Invariant, PTL DEF Spec, SessionBetween
=============================================================================
