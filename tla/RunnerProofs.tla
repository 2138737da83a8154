---------------------------- MODULE RunnerProofs ----------------------------
(***************************************************************************)
(* Proofs about Runner.tla, for channels of any depth, passes of any size  *)
(* and either kind of application: the application hears what the session  *)
(* emits in order and without gaps, and the session never runs further     *)
(* ahead of it than the channel and one trip round its loop.               *)
(***************************************************************************)
EXTENDS Runner, TLAPS

\* The ith of the events when the session has emitted n: after the last of them
\* nothing but Disconnected.
Nth(i, n) == IF i <= n THEN i ELSE Disconnected

\* s is that stream from just after its ath element.
Stretch(s, a, n) == \A i \in 1 .. Len(s) : s[i] = Nth(a + i, n)

\* What one trip round the loop can emit.
Worth == MaxPass + MaxInFlight + 1

\* The task has not yet decided to end.
Open == pc \notin Over /\ then # "closed"

Bounds ==
  /\ pc \in Before \union {"logon", "start"} => inflight = 0
  /\ pc \in Before => app = "alone" \/ role = "initiator"
  /\ pc \in {"identify", "setup"} => role = "acceptor"
  /\ pc \in {"drain", "write"} /\ then \in {"logon", "start"} => inflight = 0
  /\ queue # <<>> => pc \in {"pass", "settle", "drain"}
  /\ todo > 0 => pc = "pass"
  /\ then = "closed" => pc \in {"drain", "write"} \union Over
  /\ pc \notin Over => Len(chan) <= Depth + 1
  /\ pc \notin Over => Len(queue) + todo + inflight <= Worth
  /\ emitted + todo <= MaxEvents

Order ==
  /\ app = "gone" => chan = <<>> /\ \E n \in Nat : Stretch(heard, 0, n)
  /\ app # "gone" /\ pc # "failed" =>
       /\ Stretch(heard, 0, emitted)
       /\ Stretch(chan, Len(heard), emitted)
       /\ Stretch(queue, Len(heard) + Len(chan), emitted)
       /\ Len(heard) + Len(chan) + Len(queue) >= emitted
  /\ app # "gone" /\ pc = "failed" =>
       \E n \in Nat : Stretch(heard, 0, n) /\ Stretch(chan, Len(heard), n)
  /\ app # "gone" /\ Open => Len(heard) + Len(chan) + Len(queue) = emitted

IInv == TypeOK /\ Bounds /\ Order /\ NotFarAhead

-----------------------------------------------------------------------------
\* Stretches of the stream

\* A stretch goes on with the next element.
LEMMA StretchAppend ==
  ASSUME NEW S, NEW s \in Seq(S), NEW a \in Nat, NEW n \in Nat, NEW e \in S,
         Stretch(s, a, n), e = Nth(a + Len(s) + 1, n)
  PROVE  Stretch(Append(s, e), a, n)
BY DEF Stretch

\* Its tail is a stretch from one further on.
LEMMA StretchTail ==
  ASSUME NEW S, NEW s \in Seq(S), NEW a \in Nat, NEW n \in Nat, s # <<>>,
         Stretch(s, a, n)
  PROVE  Head(s) = Nth(a + 1, n) /\ Stretch(Tail(s), a + 1, n)
BY DEF Stretch, Nth

\* A stretch that ends before the stream does is one of any stream it fits in.
LEMMA StretchFits ==
  ASSUME NEW S, NEW s \in Seq(S), NEW a \in Nat, NEW n \in Nat, NEW m \in Nat,
         Stretch(s, a, n), a + Len(s) <= n, a + Len(s) <= m
  PROVE  Stretch(s, a, m)
BY DEF Stretch, Nth

-----------------------------------------------------------------------------
\* Steps that leave the events alone keep their order.
LEMMA QuietStep ==
  ASSUME IInv, UNCHANGED <<emitted, queue, chan, heard>>,
         app' = "gone" <=> app = "gone", pc' = "failed" <=> pc = "failed",
         Open' => Open
  PROVE  Order' /\ NotFarAhead'
BY DEF IInv, Order, NotFarAhead, Stretch

\* The end of the task, however it comes about.
LEMMA EndStep ==
  ASSUME IInv, NEW place \in Over, End(place), pc \notin Over,
         place = "closed" => queue = <<>>
  PROVE  IInv'
<1> USE RunnerAssumption
<1>1. TypeOK /\ Bounds /\ Order /\ NotFarAhead
  BY DEF IInv
<1>2. /\ emitted \in Nat /\ heard \in Seq(0..MaxEvents) /\ chan \in Seq(0..MaxEvents)
      /\ queue \in Seq(0..MaxEvents) /\ Len(heard) \in Nat /\ Len(chan) \in Nat
      /\ Len(chan) <= Depth + 1
  BY <1>1 DEF TypeOK, Bounds
<1>3. /\ pc' = place /\ queue' = <<>> /\ todo' = 0 /\ inflight' = 0
      /\ emitted' = emitted /\ heard' = heard /\ app' = app /\ cmds' = cmds
      /\ role' = role /\ then' = then
      /\ chan' = IF app = "gone" THEN chan ELSE Append(chan, 0)
  BY DEF End, Disconnector, Disconnected
<1>4. chan' \in Seq(0..MaxEvents) /\ Len(chan') <= Depth + 2
  <2>1. 0 \in 0..MaxEvents
    OBVIOUS
  <2>2. Append(chan, 0) \in Seq(0..MaxEvents) /\ Len(Append(chan, 0)) = Len(chan) + 1
    BY <1>2, <2>1
  <2>3. Depth \in Nat
    OBVIOUS
  <2>4. CASE app = "gone"
    <3>1. chan' = chan
      BY <1>3, <2>4
    <3> QED BY <1>2, <2>3, <3>1
  <2>5. CASE app # "gone"
    <3>1. chan' = Append(chan, 0)
      BY <1>3, <2>5
    <3>2. Len(chan') <= Depth + 2
      BY <1>2, <2>2, <2>3, <3>1
    <3> QED BY <2>2, <3>1, <3>2
  <2> QED BY <2>4, <2>5
<1>5. TypeOK'
  BY <1>1, <1>3, <1>4 DEF TypeOK, Places, Over
<1>6. Bounds'
  BY <1>1, <1>2, <1>3, <1>4 DEF Bounds, TypeOK, Over, Before
<1>7. NotFarAhead'
  BY <1>1, <1>3 DEF NotFarAhead
<1>8. Order'
  <2>1. CASE app = "gone"
    BY <1>1, <1>3, <2>1 DEF Order
  <2>2. CASE app # "gone"
    <3>1. /\ Stretch(heard, 0, emitted)
          /\ Stretch(chan, Len(heard), emitted)
          /\ Len(heard) + Len(chan) + Len(queue) >= emitted
      BY <1>1, <2>2 DEF Order, Over
    <3>2. CASE Len(heard) + Len(chan) >= emitted
      <4>1. 0 = Nth(Len(heard) + Len(chan) + 1, emitted)
        BY <1>2, <3>2 DEF Nth, Disconnected
      <4>2. Stretch(Append(chan, 0), Len(heard), emitted)
        BY <1>2, <3>1, <4>1, StretchAppend
      <4>3. Stretch(heard', 0, emitted') /\ Stretch(chan', Len(heard'), emitted')
        BY <1>3, <2>2, <3>1, <4>2
      <4>4. Stretch(queue', Len(heard') + Len(chan'), emitted')
        BY <1>3 DEF Stretch
      <4>5. Len(heard') + Len(chan') + Len(queue') >= emitted'
        BY <1>2, <1>3, <2>2, <3>2
      <4> QED BY <1>2, <1>3, <2>2, <4>3, <4>4, <4>5 DEF Order, Open
    <3>3. CASE Len(heard) + Len(chan) < emitted
      <4> DEFINE n == Len(heard) + Len(chan)
      <4>1. n \in Nat /\ n < emitted /\ Len(heard) <= n /\ Len(heard) + Len(chan) <= n
        BY <1>2, <3>3
      <4>2. Stretch(heard, 0, n)
        BY <1>2, <3>1, <4>1, StretchFits
      <4>3. Stretch(chan, Len(heard), n)
        <5>1. Len(heard) + Len(chan) <= emitted
          BY <1>2, <3>3
        <5> HIDE DEF n
        <5> QED BY <1>2, <3>1, <4>1, <5>1, StretchFits
      <4>4. 0 = Nth(Len(heard) + Len(chan) + 1, n)
        BY <1>2, <4>1 DEF Nth, Disconnected
      <4>5. Stretch(Append(chan, 0), Len(heard), n)
        BY <1>2, <4>1, <4>3, <4>4, StretchAppend
      <4>6. place = "failed"
        <5>1. Len(queue) > 0
          BY <1>2, <3>1, <3>3
        <5> QED BY <1>2, <5>1 DEF Over
      <4>7. Stretch(heard', 0, n) /\ Stretch(chan', Len(heard'), n)
        BY <1>3, <2>2, <4>2, <4>5
      <4> HIDE DEF n
      <4> QED BY <1>3, <2>2, <4>1, <4>6, <4>7 DEF Order, Open, Over
    <3> QED BY <1>2, <3>2, <3>3
  <2> QED BY <2>1, <2>2
<1> QED BY <1>5, <1>6, <1>7, <1>8 DEF IInv

\* A pass over the session begins with nothing queued.
LEMMA BeginStep ==
  ASSUME TypeOK, Bounds, NEW w \in 0..(MaxInFlight + 1),
         NEW next \in {"logon", "start", "run"}, Begin(w, next),
         pc \in Before \union {"logon", "start", "run"},
         UNCHANGED <<role, emitted, queue, chan, heard>>,
         cmds' \in 0..(Depth + 1), app' \in Apps
  PROVE  TypeOK' /\ Bounds'
<1> USE RunnerAssumption
<1>1. /\ pc' = "pass" /\ then' = next /\ inflight' = w
      /\ todo' \in 0..MaxPass /\ emitted + todo' <= MaxEvents
  BY DEF Begin
<1>2. queue = <<>> /\ Len(chan) <= Depth + 1
  BY DEF Bounds, Before, Over
<1>3. TypeOK'
  BY <1>1 DEF TypeOK, Places
<1>4. Len(queue') + todo' + inflight' <= Worth
  <2>1. Len(queue') = 0
    <3>1. queue' = <<>>
      BY <1>2
    <3> QED BY <3>1
  <2>2. MaxPass \in Nat /\ MaxInFlight \in Nat
    OBVIOUS
  <2>3. \A t \in 0..MaxPass : t + w <= MaxPass + MaxInFlight + 1
    BY <2>2
  <2>4. todo' + inflight' <= Worth
    BY <1>1, <2>3 DEF Worth
  <2> QED BY <1>1, <2>1, <2>2, <2>4
<1>5. Bounds'
  BY <1>1, <1>2, <1>4 DEF Bounds, Before, Over
<1> QED BY <1>3, <1>5

\* A write completes: an event at most takes its place.
LEMMA CompleteStep ==
  ASSUME TypeOK, Bounds, Complete
  PROVE  TypeOK' /\ Bounds'
<1> USE RunnerAssumption
<1>1. /\ pc' = "pass" /\ then' = then /\ inflight' = inflight - 1 /\ inflight > 0
      /\ todo' \in 0..1 /\ emitted + todo' <= MaxEvents
      /\ UNCHANGED <<role, emitted, queue, chan, heard, cmds, app>>
      /\ todo = 0 /\ pc \notin Over /\ then # "closed"
  <2>1. /\ pc' = "pass" /\ then' = then /\ inflight' = inflight - 1 /\ inflight > 0
        /\ UNCHANGED <<role, emitted, queue, chan, heard, cmds, app>>
    BY DEF Complete
  <2>2. todo' \in 0..1 /\ emitted + todo' <= MaxEvents
    BY DEF Complete
  <2>3. pc \in {"settle", "run"} \/ (pc = "pass" /\ todo = 0)
    BY DEF Complete
  <2>4. todo = 0
    BY <2>3 DEF TypeOK, Bounds
  <2>5. pc \notin Over /\ then # "closed"
    BY <2>3 DEF Bounds, Over
  <2> QED BY <2>1, <2>2, <2>4, <2>5
<1>2. TypeOK'
  BY <1>1 DEF TypeOK, Places
<1>3. Len(queue') + todo' + inflight' <= Worth
  <2>1. Len(queue) + todo + inflight <= Worth
    BY <1>1 DEF Bounds
  <2>2. Len(queue) \in Nat /\ inflight \in Nat /\ Worth \in Nat
    BY DEF TypeOK, Worth
  <2> QED BY <1>1, <2>1, <2>2
<1>4. Bounds'
  BY <1>1, <1>3 DEF Bounds, Before, Over
<1> QED BY <1>2, <1>4

\* The steps that leave the events alone.
QuietNext ==
  \/ PassContinues \/ PassCloses \/ Drained \/ (Write /\ then # "closed")
  \/ ConnectFails \/ Backoff \/ Stop \/ Connect \/ LogonArrives \/ Listen
  \/ Identify \/ Setup \/ Settled \/ Start \/ Input \/ Complete \/ TakeCommand
  \/ TakeHandle \/ Send \/ DropTx

\* They keep the invariant.
LEMMA QuietActions ==
  ASSUME IInv, QuietNext
  PROVE  IInv'
<1> USE RunnerAssumption
<1>1. TypeOK /\ Bounds
  BY DEF IInv
<1>2. /\ UNCHANGED <<emitted, queue, chan, heard>>
      /\ app' = "gone" <=> app = "gone"
  <2>1. UNCHANGED <<emitted, queue, chan, heard>>
    BY Zenon DEF QuietNext, PassContinues, PassCloses, Drained, Write, ConnectFails,
      Backoff, Stop, Connect, LogonArrives, Listen, Identify, Setup, Settled, Start,
      Input, Complete, TakeCommand, TakeHandle, Send, DropTx, Begin
  <2>2. CASE Setup
    <3>1. app' = "offered" /\ app = "alone"
      BY <1>1, <2>2 DEF Setup, Bounds, Before
    <3> QED BY <2>1, <3>1
  <2>3. CASE TakeHandle \/ DropTx
    BY <2>1, <2>3 DEF TakeHandle, DropTx
  <2>4. CASE ~Setup /\ ~TakeHandle /\ ~DropTx
    <3>1. app' = app
      BY Zenon, <2>4 DEF QuietNext, PassContinues, PassCloses, Drained, Write,
        ConnectFails, Backoff, Stop, Connect, LogonArrives, Listen, Identify, Settled,
        Start, Input, Complete, TakeCommand, Send
    <3> QED BY <2>1, <3>1
  <2> QED BY <2>2, <2>3, <2>4
<1> DEFINE Kept == /\ TypeOK' /\ Bounds'
                   /\ pc' = "failed" <=> pc = "failed"
                   /\ Open' => Open
<1> USE <1>1 DEF TypeOK, Bounds, Open, Worth, Over, Before, Places, Apps
<1>3. ASSUME PassContinues PROVE Kept
  BY <1>3 DEF PassContinues, Flush
<1>4. ASSUME PassCloses PROVE Kept
  BY <1>4 DEF PassCloses, Flush
<1>5. ASSUME Drained PROVE Kept
  BY <1>5 DEF Drained
<1>6. ASSUME ConnectFails PROVE Kept
  BY <1>6 DEF ConnectFails
<1>7. ASSUME Backoff PROVE Kept
  BY <1>7 DEF Backoff
<1>8. ASSUME Stop PROVE Kept
  BY <1>8 DEF Stop
<1>9. ASSUME Connect PROVE Kept
  <2>1. TypeOK' /\ Bounds'
    BY <1>9, BeginStep DEF Connect
  <2> QED BY <1>9, <2>1 DEF Connect, Begin
<1>10. ASSUME LogonArrives PROVE Kept
  <2>1. TypeOK' /\ Bounds'
    BY <1>10, BeginStep DEF LogonArrives
  <2> QED BY <1>10, <2>1 DEF LogonArrives, Begin
<1>11. ASSUME Listen PROVE Kept
  BY <1>11 DEF Listen
<1>12. ASSUME Identify PROVE Kept
  BY <1>12 DEF Identify
<1>13. ASSUME Setup PROVE Kept
  <2>1. TypeOK' /\ Bounds'
    BY <1>13, BeginStep DEF Setup
  <2> QED BY <1>13, <2>1 DEF Setup, Begin
<1>14. ASSUME Settled PROVE Kept
  BY <1>14 DEF Settled, Flush
<1>15. ASSUME Start PROVE Kept
  <2>1. PICK w \in 0..1 : inflight + w \in 0..(MaxInFlight + 1) /\ Begin(inflight + w, "run")
    BY <1>15 DEF Start
  <2>2. TypeOK' /\ Bounds'
    BY <1>15, <2>1, BeginStep DEF Start
  <2> QED BY <1>15, <2>1, <2>2 DEF Start, Begin
<1>16. ASSUME Input PROVE Kept
  <2>1. PICK w \in 0..1 : inflight + w \in 0..(MaxInFlight + 1) /\ Begin(inflight + w, "run")
    BY <1>16 DEF Input
  <2>2. TypeOK' /\ Bounds'
    BY <1>16, <2>1, BeginStep DEF Input
  <2> QED BY <1>16, <2>1, <2>2 DEF Input, Begin
<1>17. ASSUME Complete PROVE Kept
  <2>1. TypeOK' /\ Bounds'
    BY <1>17, CompleteStep
  <2> QED BY <1>17, <2>1 DEF Complete
<1>18. ASSUME TakeCommand PROVE Kept
  <2>1. PICK w \in 0..1 : inflight + w \in 0..(MaxInFlight + 1) /\ Begin(inflight + w, "run")
    BY <1>18 DEF TakeCommand, Accepting
  <2>2. TypeOK' /\ Bounds'
    BY <1>18, <2>1, BeginStep DEF TakeCommand, Accepting
  <2> QED BY <1>18, <2>1, <2>2 DEF TakeCommand, Begin, Accepting
<1>19. ASSUME TakeHandle PROVE Kept
  BY <1>19 DEF TakeHandle
<1>20. ASSUME Send PROVE Kept
  BY <1>20 DEF Send, CommandsFull
<1>21. ASSUME DropTx PROVE Kept
  BY <1>21 DEF DropTx
<1>22. ASSUME Write, then # "closed" PROVE Kept
  BY SMTT(30), <1>22 DEF Write
<1>23. Kept
  BY <1>3, <1>4, <1>5, <1>6, <1>7, <1>8, <1>9, <1>10, <1>11, <1>12, <1>13, <1>14, <1>15, <1>16, <1>17, <1>18, <1>19, <1>20, <1>21, <1>22 DEF QuietNext
<1> QED BY <1>2, <1>23, QuietStep DEF IInv

-----------------------------------------------------------------------------
\* Steps that move events

\* What each of them uses of the types.
Known ==
  /\ Depth \in Nat /\ MaxPass \in Nat /\ MaxInFlight \in Nat /\ MaxEvents \in Nat
  /\ MaxPass >= 1 /\ Worth \in Nat /\ Worth = MaxPass + MaxInFlight + 1
  /\ emitted \in Nat /\ todo \in Nat /\ inflight \in Nat /\ emitted <= MaxEvents
  /\ heard \in Seq(0..MaxEvents) /\ chan \in Seq(0..MaxEvents)
  /\ queue \in Seq(0..MaxEvents)
  /\ Len(heard) \in Nat /\ Len(chan) \in Nat /\ Len(queue) \in Nat

\* It follows from the invariant.
LEMMA Facts ==
  ASSUME IInv
  PROVE  Known
BY RunnerAssumption DEF IInv, TypeOK, Worth, Known

\* The session emits an event and the application is there.
LEMMA EmitStep ==
  ASSUME IInv, Emit, app # "gone"
  PROVE  IInv'
<1>1. TypeOK /\ Bounds /\ Order /\ NotFarAhead
  BY DEF IInv
<1>0. Known
  BY Facts
<1> USE <1>0 DEF Known
<1>2. /\ pc = "pass" /\ todo > 0 /\ todo' = todo - 1 /\ emitted' = emitted + 1
      /\ role' = role /\ pc' = pc /\ then' = then /\ heard' = heard /\ cmds' = cmds
      /\ inflight' = inflight /\ app' = app
  BY DEF Emit
<1>3. Deliver(emitted + 1)
  BY DEF Emit
<1>4. Open /\ Len(chan) <= Depth + 1 /\ Len(queue) + todo + inflight <= Worth
      /\ emitted + todo <= MaxEvents
  BY <1>1, <1>2 DEF Bounds, Open, Over
<1>5. emitted' \in Nat /\ emitted + 1 \in 0..MaxEvents /\ emitted + 1 \in Nat
  BY <1>2, <1>4
<1>6. /\ Stretch(heard, 0, emitted) /\ Stretch(chan, Len(heard), emitted)
      /\ Stretch(queue, Len(heard) + Len(chan), emitted)
      /\ Len(heard) + Len(chan) + Len(queue) = emitted
  BY <1>1, <1>2, <1>4 DEF Order
<1>7. /\ Len(heard) + Len(chan) + (Len(queue) + 1) = emitted + 1
      /\ Len(heard) + (Len(chan) + 1) + Len(queue) = emitted + 1
  <2>1. \A a, b, c \in Nat :
          a + b + (c + 1) = a + b + c + 1 /\ a + (b + 1) + c = a + b + c + 1
    OBVIOUS
  <2>2. /\ Len(heard) + Len(chan) + (Len(queue) + 1)
             = Len(heard) + Len(chan) + Len(queue) + 1
        /\ Len(heard) + (Len(chan) + 1) + Len(queue)
             = Len(heard) + Len(chan) + Len(queue) + 1
    BY <2>1
  <2> QED BY Zenon, <1>6, <2>2
<1>8. Stretch(heard, 0, emitted + 1)
  <2>1. 0 + Len(heard) <= emitted /\ 0 + Len(heard) <= emitted + 1
    BY <1>6
  <2> QED BY <1>5, <1>6, <2>1, StretchFits
<1>9. Stretch(chan, Len(heard), emitted + 1)
  <2>1. Len(heard) + Len(chan) <= emitted /\ Len(heard) + Len(chan) <= emitted + 1
    BY <1>6
  <2> QED BY <1>5, <1>6, <2>1, StretchFits
<1>10. Stretch(queue, Len(heard) + Len(chan), emitted + 1)
  <2>1. /\ Len(heard) + Len(chan) \in Nat
        /\ (Len(heard) + Len(chan)) + Len(queue) <= emitted
        /\ (Len(heard) + Len(chan)) + Len(queue) <= emitted + 1
    BY <1>6
  <2> QED BY <1>5, <1>6, <2>1, StretchFits
<1>11. NotFarAhead'
  <2>1. emitted + 1 - Len(heard) <= Depth + 1 + MaxPass + MaxInFlight + 1
    BY <1>2, <1>4, <1>6
  <2> QED BY <1>2, <2>1 DEF NotFarAhead
<1>12. CASE queue # <<>> \/ EventsFull
  <2>1. queue' = Append(queue, emitted + 1) /\ chan' = chan
    BY <1>3, <1>12 DEF Deliver
  <2>2. queue' \in Seq(0..MaxEvents) /\ Len(queue') = Len(queue) + 1
    BY <1>5, <2>1
  <2>3. emitted + 1 = Nth((Len(heard) + Len(chan)) + Len(queue) + 1, emitted + 1)
    <3>1. (Len(heard) + Len(chan)) + Len(queue) + 1 = emitted + 1
      BY <1>6
    <3> QED BY <1>5, <3>1 DEF Nth
  <2>4. Stretch(Append(queue, emitted + 1), Len(heard) + Len(chan), emitted + 1)
    <3>1. Len(heard) + Len(chan) \in Nat
      OBVIOUS
    <3> QED BY <1>5, <1>10, <2>3, <3>1, StretchAppend
  <2>5. TypeOK'
    BY <1>1, <1>2, <1>5, <2>1, <2>2 DEF TypeOK
  <2>6. Bounds'
    <3>1. Len(queue') + todo' + inflight' <= Worth /\ emitted' + todo' <= MaxEvents
      BY <1>2, <1>4, <2>2
    <3> QED BY <1>1, <1>2, <1>4, <2>1, <3>1 DEF Bounds, Over, Before
  <2>7. Len(heard') + Len(chan') + Len(queue') = emitted'
    BY Zenon, <1>2, <1>7, <2>1, <2>2
  <2>8. /\ Stretch(heard', 0, emitted') /\ Stretch(chan', Len(heard'), emitted')
        /\ Stretch(queue', Len(heard') + Len(chan'), emitted')
    BY <1>2, <1>8, <1>9, <2>1, <2>4
  <2>9. Order'
    BY <1>2, <1>5, <2>7, <2>8 DEF Order
  <2> QED BY <1>11, <2>5, <2>6, <2>9 DEF IInv
<1>13. CASE ~(queue # <<>> \/ EventsFull)
  <2>1. chan' = Append(chan, emitted + 1) /\ queue' = queue /\ queue = <<>>
        /\ Len(chan) <= Depth
    BY <1>3, <1>13 DEF Deliver, EventsFull
  <2>2. chan' \in Seq(0..MaxEvents) /\ Len(chan') = Len(chan) + 1
    BY <1>5, <2>1
  <2>3. Len(queue) = 0
    BY <2>1
  <2>4. emitted + 1 = Nth(Len(heard) + Len(chan) + 1, emitted + 1)
    <3>1. Len(heard) + Len(chan) + 1 = emitted + 1
      BY <1>7, <2>3
    <3> QED BY <1>5, <3>1 DEF Nth
  <2>5. Stretch(Append(chan, emitted + 1), Len(heard), emitted + 1)
    BY <1>5, <1>9, <2>4, StretchAppend
  <2>6. TypeOK'
    BY <1>1, <1>2, <1>5, <2>1, <2>2 DEF TypeOK
  <2>7. Bounds'
    <3>1. Len(queue') + todo' + inflight' <= Worth /\ emitted' + todo' <= MaxEvents
          /\ Len(chan') <= Depth + 1
      BY <1>2, <1>4, <2>1, <2>2
    <3> QED BY <1>1, <1>2, <2>1, <3>1 DEF Bounds, Over, Before
  <2>8. Len(heard') + Len(chan') + Len(queue') = emitted'
    BY Zenon, <1>2, <1>7, <2>1, <2>2
  <2>9. /\ Stretch(heard', 0, emitted') /\ Stretch(chan', Len(heard'), emitted')
        /\ Stretch(queue', Len(heard') + Len(chan'), emitted')
    <3>1. Stretch(queue', Len(heard') + Len(chan'), emitted')
      BY <2>1 DEF Stretch
    <3> QED BY <1>2, <1>8, <2>1, <2>5, <3>1
  <2>10. Order'
    BY <1>2, <1>5, <2>8, <2>9 DEF Order
  <2> QED BY <1>11, <2>6, <2>7, <2>10 DEF IInv
<1> QED BY <1>12, <1>13

\* A queued event is sent.
LEMMA DrainStep ==
  ASSUME IInv, Drain, app # "gone"
  PROVE  IInv'
<1>1. TypeOK /\ Bounds /\ Order /\ NotFarAhead
  BY DEF IInv
<1>0. Known
  BY Facts
<1> USE <1>0 DEF Known
<1>2. /\ pc = "drain" /\ queue # <<>> /\ Len(chan) <= Depth
      /\ chan' = Append(chan, Head(queue)) /\ queue' = Tail(queue)
      /\ role' = role /\ pc' = pc /\ then' = then /\ todo' = todo /\ emitted' = emitted
      /\ heard' = heard /\ cmds' = cmds /\ inflight' = inflight /\ app' = app
  BY SMTT(30) DEF Drain, EventsFull
<1>3. /\ Head(queue) \in 0..MaxEvents
      /\ chan' \in Seq(0..MaxEvents) /\ Len(chan') = Len(chan) + 1
      /\ queue' \in Seq(0..MaxEvents) /\ Len(queue') = Len(queue) - 1 /\ Len(queue) > 0
  BY <1>2
<1>4. /\ Stretch(heard, 0, emitted) /\ Stretch(chan, Len(heard), emitted)
      /\ Stretch(queue, Len(heard) + Len(chan), emitted)
      /\ Len(heard) + Len(chan) + Len(queue) >= emitted
  BY <1>1, <1>2 DEF Order
<1>5. /\ Head(queue) = Nth(Len(heard) + Len(chan) + 1, emitted)
      /\ Stretch(Tail(queue), Len(heard) + Len(chan) + 1, emitted)
  <2>1. Len(heard) + Len(chan) \in Nat
    OBVIOUS
  <2> QED BY <1>2, <1>4, <2>1, StretchTail
<1>6. Stretch(Append(chan, Head(queue)), Len(heard), emitted)
  BY <1>3, <1>4, <1>5, StretchAppend
<1>7. TypeOK'
  BY <1>1, <1>2, <1>3 DEF TypeOK
<1>8. Bounds'
  BY <1>1, <1>2, <1>3 DEF Bounds, Over, Before
<1>9. NotFarAhead'
  BY <1>1, <1>2 DEF NotFarAhead
<1>10. Len(heard') + Len(chan') + Len(queue') = Len(heard) + Len(chan) + Len(queue)
  BY <1>2, <1>3
<1>11. Len(heard') + Len(chan') = Len(heard) + Len(chan) + 1
  BY <1>2, <1>3
<1>12. /\ Stretch(heard', 0, emitted') /\ Stretch(chan', Len(heard'), emitted')
       /\ Stretch(queue', Len(heard') + Len(chan'), emitted')
  BY <1>2, <1>4, <1>5, <1>6, <1>11
<1>13. Open' <=> Open
  BY <1>2 DEF Open
<1>14. Order'
  <2>1. Len(heard') + Len(chan') + Len(queue') >= emitted'
    BY <1>2, <1>4, <1>10
  <2>2. Open' => Len(heard') + Len(chan') + Len(queue') = emitted'
    BY <1>1, <1>2, <1>10, <1>13 DEF Order
  <2> QED BY <1>2, <1>12, <2>1, <2>2 DEF Order
<1> QED BY <1>7, <1>8, <1>9, <1>14 DEF IInv

\* The peer is gone, and the application is there to be told.
LEMMA PeerClosedStep ==
  ASSUME IInv, PeerClosed, app # "gone"
  PROVE  IInv'
<1>1. TypeOK /\ Bounds /\ Order /\ NotFarAhead
  BY DEF IInv
<1>0. Known
  BY Facts
<1> USE <1>0 DEF Known
<1>2. /\ pc = "run" /\ then' = "closed"
      /\ role' = role /\ todo' = todo /\ emitted' = emitted
      /\ heard' = heard /\ cmds' = cmds /\ inflight' = inflight /\ app' = app
      /\ pc' = IF queue' = <<>> THEN "write" ELSE "drain"
  BY DEF PeerClosed
<1>3. Deliver(0)
  BY DEF PeerClosed, Disconnected
<1>4. Open /\ Len(chan) <= Depth + 1 /\ queue = <<>> /\ todo = 0 /\ inflight <= MaxInFlight + 1
  BY <1>1, <1>2 DEF Bounds, Open, Over, TypeOK
<1>5. Len(queue) = 0
  BY <1>4
<1>6. /\ Stretch(heard, 0, emitted) /\ Stretch(chan, Len(heard), emitted)
      /\ Len(heard) + Len(chan) = emitted
  BY <1>1, <1>2, <1>4, <1>5 DEF Order
<1>7. 0 = Nth(Len(heard) + Len(chan) + 1, emitted) /\ 0 \in 0..MaxEvents
  BY <1>6 DEF Nth, Disconnected
<1>8. NotFarAhead'
  BY <1>1, <1>2 DEF NotFarAhead
<1>9. ~Open'
  BY <1>2 DEF Open
<1>10. CASE EventsFull
  <2>1. queue' = Append(queue, 0) /\ chan' = chan
    BY <1>3, <1>10 DEF Deliver
  <2>2. queue' = <<0>>
    BY <1>4, <2>1
  <2>3. /\ queue' \in Seq(0..MaxEvents) /\ Len(queue') = 1 /\ queue'[1] = 0
        /\ queue' # <<>>
    BY <1>7, <2>2
  <2>4. pc' = "drain"
    BY <1>2, <2>3
  <2>5. TypeOK'
    BY <1>1, <1>2, <2>1, <2>3, <2>4 DEF TypeOK, Places
  <2>6. Bounds'
    <3>1. Len(queue') + todo' + inflight' <= Worth
      BY <1>2, <1>4, <2>3
    <3> QED BY <1>1, <1>2, <1>4, <2>1, <2>4, <3>1 DEF Bounds, Over, Before
  <2>7. Stretch(queue', Len(heard') + Len(chan'), emitted')
    <3>1. \A i \in 1..Len(queue') : i = 1
      BY <2>3
    <3> QED BY <1>2, <1>7, <2>1, <2>3, <3>1 DEF Stretch
  <2>8. Len(heard') + Len(chan') + Len(queue') >= emitted'
    BY <1>2, <1>6, <2>1, <2>3
  <2>9. Order'
    BY <1>2, <1>6, <1>9, <2>1, <2>4, <2>7, <2>8 DEF Order
  <2> QED BY <1>8, <2>5, <2>6, <2>9 DEF IInv
<1>11. CASE ~EventsFull
  <2>1. chan' = Append(chan, 0) /\ queue' = queue /\ Len(chan) <= Depth
    BY <1>3, <1>4, <1>11 DEF Deliver, EventsFull
  <2>2. chan' \in Seq(0..MaxEvents) /\ Len(chan') = Len(chan) + 1
    BY <1>7, <2>1
  <2>3. pc' = "write" /\ queue' = <<>>
    BY <1>2, <1>4, <2>1
  <2>4. Stretch(Append(chan, 0), Len(heard), emitted)
    BY <1>6, <1>7, StretchAppend
  <2>5. TypeOK'
    BY <1>1, <1>2, <2>1, <2>2, <2>3 DEF TypeOK, Places
  <2>6. Bounds'
    <3>1. Len(queue') + todo' + inflight' <= Worth /\ Len(chan') <= Depth + 1
      BY <1>2, <1>4, <1>5, <2>1, <2>2
    <3> QED BY <1>1, <1>2, <1>4, <2>3, <3>1 DEF Bounds, Over, Before
  <2>7. Stretch(queue', Len(heard') + Len(chan'), emitted')
    BY <2>3 DEF Stretch
  <2>8. Len(heard') + Len(chan') + Len(queue') >= emitted'
    BY <1>2, <1>5, <1>6, <2>1, <2>2
  <2>9. Stretch(heard', 0, emitted') /\ Stretch(chan', Len(heard'), emitted')
    BY <1>2, <1>6, <2>1, <2>4
  <2>10. Order'
    BY <1>2, <1>9, <2>3, <2>7, <2>8, <2>9 DEF Order
  <2> QED BY <1>8, <2>5, <2>6, <2>10 DEF IInv
<1> QED BY <1>10, <1>11

\* The application receives an event.
LEMMA HearStep ==
  ASSUME IInv, Hear
  PROVE  IInv'
<1>1. TypeOK /\ Bounds /\ Order /\ NotFarAhead
  BY DEF IInv
<1>0. Known
  BY Facts
<1> USE <1>0 DEF Known
<1>2. /\ app # "gone" /\ chan # <<>>
      /\ heard' = Append(heard, Head(chan)) /\ chan' = Tail(chan)
      /\ role' = role /\ pc' = pc /\ then' = then /\ todo' = todo /\ emitted' = emitted
      /\ queue' = queue /\ cmds' = cmds /\ inflight' = inflight /\ app' = app
  BY DEF Hear
<1>3. /\ Head(chan) \in 0..MaxEvents
      /\ heard' \in Seq(0..MaxEvents) /\ Len(heard') = Len(heard) + 1
      /\ chan' \in Seq(0..MaxEvents) /\ Len(chan') = Len(chan) - 1 /\ Len(chan) > 0
  BY <1>2
<1>4. TypeOK'
  BY <1>1, <1>2, <1>3 DEF TypeOK
<1>5. Bounds'
  BY <1>1, <1>2, <1>3 DEF Bounds, Over, Before
<1>6. NotFarAhead'
  BY <1>1, <1>2, <1>3 DEF NotFarAhead
<1>7. ASSUME NEW n \in Nat, Stretch(heard, 0, n), Stretch(chan, Len(heard), n)
      PROVE  Stretch(heard', 0, n) /\ Stretch(chan', Len(heard'), n)
  <2>1. Head(chan) = Nth(Len(heard) + 1, n) /\ Stretch(Tail(chan), Len(heard) + 1, n)
    BY <1>2, <1>7, StretchTail
  <2>2. Head(chan) = Nth(0 + Len(heard) + 1, n)
    BY <2>1
  <2>3. Stretch(Append(heard, Head(chan)), 0, n)
    BY <1>3, <1>7, <2>2, StretchAppend
  <2> QED BY <1>2, <1>3, <2>1, <2>3
<1>8. Len(heard') + Len(chan') = Len(heard) + Len(chan)
  BY <1>3
<1>9. Open' <=> Open
  BY <1>2 DEF Open
<1>10. CASE pc = "failed"
  <2>1. PICK n \in Nat : Stretch(heard, 0, n) /\ Stretch(chan, Len(heard), n)
    BY <1>1, <1>2, <1>10 DEF Order
  <2>2. Stretch(heard', 0, n) /\ Stretch(chan', Len(heard'), n)
    BY <1>7, <2>1
  <2>3. ~Open'
    BY <1>2, <1>10 DEF Open, Over
  <2> QED BY <1>2, <1>4, <1>5, <1>6, <1>10, <2>2, <2>3 DEF IInv, Order
<1>11. CASE pc # "failed"
  <2>1. /\ Stretch(heard, 0, emitted) /\ Stretch(chan, Len(heard), emitted)
        /\ Stretch(queue, Len(heard) + Len(chan), emitted)
        /\ Len(heard) + Len(chan) + Len(queue) >= emitted
        /\ Open => Len(heard) + Len(chan) + Len(queue) = emitted
    BY <1>1, <1>2, <1>11 DEF Order
  <2>2. Stretch(heard', 0, emitted) /\ Stretch(chan', Len(heard'), emitted)
    BY <1>7, <2>1
  <2>3. Stretch(queue', Len(heard') + Len(chan'), emitted')
    BY <1>2, <1>8, <2>1
  <2>4. /\ Len(heard') + Len(chan') + Len(queue') >= emitted'
        /\ Open' => Len(heard') + Len(chan') + Len(queue') = emitted'
    BY SMTT(30), <1>2, <1>8, <1>9, <2>1
  <2>5. Order'
    BY <1>2, <1>11, <2>2, <2>3, <2>4 DEF Order
  <2> QED BY <1>4, <1>5, <1>6, <2>5 DEF IInv
<1> QED BY <1>10, <1>11

\* The application drops the handle, and with it what is in the channel.
LEMMA DropHandleStep ==
  ASSUME IInv, DropHandle
  PROVE  IInv'
<1>1. TypeOK /\ Bounds /\ Order /\ NotFarAhead
  BY DEF IInv
<1>0. Known
  BY Facts
<1> USE <1>0 DEF Known
<1>2. /\ app \in {"offered", "holding", "listening"} /\ app' = "gone" /\ chan' = <<>>
      /\ role' = role /\ pc' = pc /\ then' = then /\ todo' = todo /\ emitted' = emitted
      /\ queue' = queue /\ heard' = heard /\ cmds' = cmds /\ inflight' = inflight
  BY DEF DropHandle
<1>3. chan' \in Seq(0..MaxEvents) /\ Len(chan') = 0
  BY <1>2
<1>4. TypeOK'
  BY <1>1, <1>2, <1>3 DEF TypeOK, Apps
<1>5. Bounds'
  BY <1>1, <1>2, <1>3 DEF Bounds, Over, Before
<1>6. \E n \in Nat : Stretch(heard, 0, n)
  BY <1>1, <1>2 DEF Order
<1>7. Order' /\ NotFarAhead'
  BY <1>2, <1>6 DEF Order, NotFarAhead
<1> QED BY <1>4, <1>5, <1>7 DEF IInv

-----------------------------------------------------------------------------
\* The invariant holds at first and every step keeps it.
LEMMA IInvInductive ==
  /\ Init => IInv
  /\ IInv /\ [Next]_vars => IInv'
<1> USE RunnerAssumption
<1>1. ASSUME Init PROVE IInv
  <2>1. TypeOK
    BY <1>1 DEF Init, TypeOK, Places, Before, Apps
  <2>2. /\ queue = <<>> /\ chan = <<>> /\ heard = <<>> /\ emitted = 0 /\ todo = 0
        /\ inflight = 0 /\ pc = "connect" /\ then = "logon"
        /\ Len(queue) = 0 /\ Len(chan) = 0 /\ Len(heard) = 0 /\ app # "gone"
    BY <1>1 DEF Init
  <2>3. Bounds
    BY <1>1, <2>2 DEF Init, Bounds, Before, Over, Worth
  <2>4. Order
    BY <2>2 DEF Order, Stretch
  <2>5. NotFarAhead
    BY <2>2 DEF NotFarAhead
  <2> QED BY <2>1, <2>3, <2>4, <2>5 DEF IInv
<1>2. ASSUME IInv, [Next]_vars PROVE IInv'
  <2>1. CASE QuietNext
    BY <1>2, <2>1, QuietActions
  <2>2. ASSUME NEW place \in Over, End(place), pc \notin Over,
               place = "closed" => queue = <<>>
        PROVE  IInv'
    BY <1>2, <2>2, EndStep
  <2>3. "failed" \in Over /\ "closed" \in Over /\ "failed" # "closed"
    BY DEF Over
  <2>4. CASE app = "gone" /\ (Emit \/ Drain \/ PeerClosed)
    <3>1. End("failed") /\ pc \notin Over
      BY <2>4 DEF Emit, Drain, PeerClosed, Over
    <3> QED BY <2>2, <2>3, <3>1
  <2>5. CASE PassFails \/ WriteFails \/ LogonFails \/ CompleteFails
    <3>1. End("failed") /\ pc \notin Over
      BY <2>5 DEF PassFails, WriteFails, LogonFails, CompleteFails, Over
    <3> QED BY <2>2, <2>3, <3>1
  <2>6. CASE (Write /\ then = "closed") \/ CommandsClosed \/ ReadFails
    <3>1. End("closed") /\ pc \in {"write", "run"}
      BY <2>6 DEF Write, CommandsClosed, ReadFails, Accepting
    <3>2. queue = <<>> /\ pc \notin Over
      BY <1>2, <3>1 DEF IInv, Bounds, Over
    <3> QED BY <2>2, <2>3, <3>1, <3>2
  <2>7. CASE app # "gone" /\ Emit
    BY <1>2, <2>7, EmitStep
  <2>8. CASE app # "gone" /\ Drain
    BY <1>2, <2>8, DrainStep
  <2>9. CASE app # "gone" /\ PeerClosed
    BY <1>2, <2>9, PeerClosedStep
  <2>10. CASE Hear
    BY <1>2, <2>10, HearStep
  <2>11. CASE DropHandle
    BY SMTT(30), <1>2, <2>11, DropHandleStep
  <2>12. CASE UNCHANGED vars
    BY <1>2, <2>12 DEF vars, IInv, TypeOK, Bounds, Order, NotFarAhead, Stretch, Open
  <2> QED
    BY <1>2, <2>1, <2>4, <2>5, <2>6, <2>7, <2>8, <2>9, <2>10, <2>11, <2>12
    DEF Next, Task, QuietNext
<1> QED BY <1>1, <1>2

\* Two stretches, one after the other, are one.
LEMMA StretchConcat ==
  ASSUME NEW S, NEW s \in Seq(S), NEW t \in Seq(S), NEW n \in Nat,
         Stretch(s, 0, n), Stretch(t, Len(s), n)
  PROVE  Stretch(s \o t, 0, n)
<1>1. /\ Len(s) \in Nat /\ Len(t) \in Nat /\ Len(s \o t) = Len(s) + Len(t)
  OBVIOUS
<1>2. ASSUME NEW i \in 1..Len(s \o t) PROVE (s \o t)[i] = Nth(i, n)
  <2>1. CASE i <= Len(s)
    <3>1. (s \o t)[i] = s[i] /\ i \in 1..Len(s)
      BY <1>1, <2>1
    <3>2. s[i] = Nth(0 + i, n)
      BY <3>1 DEF Stretch
    <3> QED BY <3>1, <3>2
  <2>2. CASE i > Len(s)
    <3>1. (s \o t)[i] = t[i - Len(s)] /\ i - Len(s) \in 1..Len(t)
      BY <1>1, <2>2
    <3>2. t[i - Len(s)] = Nth(Len(s) + (i - Len(s)), n)
      BY <3>1 DEF Stretch
    <3>3. Len(s) + (i - Len(s)) = i
      BY <1>1
    <3> QED BY <3>1, <3>2, <3>3
  <2> QED BY <1>1, <2>1, <2>2
<1>3. \A i \in 1..Len(s \o t) : 0 + i = i
  OBVIOUS
<1> QED BY <1>2, <1>3 DEF Stretch

\* What the application is to hear is a stretch from the beginning.
LEMMA DeliveredIsStretch ==
  ASSUME IInv
  PROVE  /\ Delivered \in Seq(0..MaxEvents)
         /\ \E n \in Nat : Stretch(Delivered, 0, n)
         /\ pc # "failed" /\ app # "gone" => Len(Delivered) >= emitted
<1>0. Known
  BY Facts
<1> USE <1>0 DEF Known
<1>1. Bounds /\ Order
  BY DEF IInv
<1>2. CASE app = "gone"
  <2>1. Delivered = heard
    BY <1>2 DEF Delivered
  <2>2. \E n \in Nat : Stretch(heard, 0, n)
    BY <1>1, <1>2 DEF Order
  <2> QED BY <1>2, <2>1, <2>2
<1>3. CASE app # "gone"
  <2>1. Delivered = (heard \o chan) \o queue
    BY SMTT(30), <1>3 DEF Delivered
  <2>2. /\ heard \o chan \in Seq(0..MaxEvents)
        /\ Len(heard \o chan) = Len(heard) + Len(chan)
        /\ (heard \o chan) \o queue \in Seq(0..MaxEvents)
        /\ Len((heard \o chan) \o queue) = Len(heard) + Len(chan) + Len(queue)
    OBVIOUS
  <2>3. CASE pc = "failed"
    <3>1. PICK n \in Nat : Stretch(heard, 0, n) /\ Stretch(chan, Len(heard), n)
      BY <1>1, <1>3, <2>3 DEF Order
    <3>2. Stretch(heard \o chan, 0, n)
      BY <3>1, StretchConcat
    <3>3. queue = <<>>
      BY <1>1, <2>3 DEF Bounds
    <3>4. (heard \o chan) \o queue = heard \o chan
      BY <2>2, <3>3
    <3> QED BY <2>1, <2>2, <2>3, <3>2, <3>4
  <2>4. CASE pc # "failed"
    <3>1. /\ Stretch(heard, 0, emitted) /\ Stretch(chan, Len(heard), emitted)
          /\ Stretch(queue, Len(heard) + Len(chan), emitted)
          /\ Len(heard) + Len(chan) + Len(queue) >= emitted
      BY <1>1, <1>3, <2>4 DEF Order
    <3>2. Stretch(heard \o chan, 0, emitted)
      BY <3>1, StretchConcat
    <3>3. Stretch(queue, Len(heard \o chan), emitted)
      BY <2>2, <3>1
    <3>4. Stretch((heard \o chan) \o queue, 0, emitted)
      BY <2>2, <3>2, <3>3, StretchConcat
    <3> QED BY <2>1, <2>2, <3>1, <3>4
  <2> QED BY <2>3, <2>4
<1> QED BY <1>2, <1>3

\* The invariant implies the order of delivery.
LEMMA IInvOrder ==
  ASSUME IInv
  PROVE  InOrder
<1>1. PICK n \in Nat : Stretch(Delivered, 0, n)
  BY DeliveredIsStretch
<1>2. /\ Delivered \in Seq(0..MaxEvents)
      /\ pc # "failed" /\ app # "gone" => Len(Delivered) >= emitted
  BY DeliveredIsStretch
<1>3. Len(Delivered) \in Nat /\ DOMAIN Delivered = 1..Len(Delivered)
  BY <1>2
<1>4. \A i \in 1..Len(Delivered) : Delivered[i] = Nth(i, n)
  BY <1>1, <1>3 DEF Stretch
<1>5. ASSUME NEW i \in 1..Len(Delivered)
      PROVE  \/ Delivered[i] = i
             \/ /\ Delivered[i] = Disconnected
                /\ \A j \in i..Len(Delivered) : Delivered[j] = Disconnected
  BY <1>3, <1>4 DEF Nth
<1> QED BY <1>2, <1>3, <1>5 DEF InOrder

\* The state stays well formed and neither channel overflows, whatever the depth of
\* the channels and the limit on writes.
THEOREM RunnerTypeCorrect == Spec => []TypeOK
<1>1. IInv => TypeOK
  BY DEF IInv
<1> QED BY <1>1, IInvInductive, PTL DEF Spec

\* The application hears the events of the session in the order of their emission
\* and without gaps, the queue of Delivery behind the channel notwithstanding.
THEOREM RunnerInOrder == Spec => []InOrder
<1>1. IInv => InOrder
  BY IInvOrder
<1> QED BY <1>1, IInvInductive, PTL DEF Spec

\* A session is never further ahead of a slow application than the channel and one
\* trip round its loop.
THEOREM RunnerNotFarAhead == Spec => []NotFarAhead
<1>1. IInv => NotFarAhead
  BY DEF IInv
<1> QED BY <1>1, IInvInductive, PTL DEF Spec
=============================================================================
