------------------------------ MODULE Reorder -------------------------------
(***************************************************************************)
(* The window that puts messages numbered by several senders in order      *)
(* before they reach the session (babelfix-core/src/reorder.rs).           *)
(*                                                                         *)
(* The window is a record, w.  A call in progress is a record              *)
(*                                                                         *)
(*   [w |-> the window, sent |-> what was released, res |-> how it stands] *)
(*                                                                         *)
(* where res is "Continue", "Close", "Err" or "Late".  The numbers a loop  *)
(* of the code releases are a set, released in ascending order until the   *)
(* session closes or refuses one: the fault f of the call, if there is one.*)
(* Instants are the ticks left until them.  A message with no number, and  *)
(* any message when there are no slots, goes straight to the session and   *)
(* is left out.                                                            *)
(***************************************************************************)
EXTENDS Integers, Sequences, SequencesExt

CONSTANTS MaxHeld,     \* how many slots there are
          MaxWait,     \* how long a message is held, in ticks
          MaxSeqNum,   \* the largest number a sender uses
          Failing      \* whether the session may refuse a message

ASSUME ReorderAssumption ==
  /\ MaxHeld \in Nat \ {0}
  /\ MaxWait \in Nat
  /\ MaxSeqNum \in Nat
  /\ Failing \in BOOLEAN

VARIABLES
  w,        \* the ReorderWindow
  closed,   \* the session closed, and nothing more is called
  last,     \* the last call: its name, the number offered, the result
  \* Observations, which guard nothing but a second use of a number:
  offered,  \* the numbers the senders have used
  taken,    \* those the window took
  refused,  \* those the session refused
  wire      \* those it sent, in order

vars == <<w, closed, last, offered, taken, refused, wire>>

SeqNums == 1 .. MaxSeqNum

\* An earliest expiry that is None.
Never == -1

\* next is 0 for Rust's None.  slots is what the slots hold.
NewWindow == [next |-> 0, slots |-> {}, earliest |-> Never]

Held(win) == {h.seq : h \in win.slots}
Expiries(slots) == {h.expires : h \in slots}

-----------------------------------------------------------------------------
\* Releasing

Start(win) == [w |-> win, sent |-> << >>, res |-> "Continue"]

\* Go on with F unless the call is over.
Then(r, F(_)) == IF r.res = "Continue" THEN F(r) ELSE r

\* A wrong form: the earliest expiry is dropped, not found again.
TakeForgets(win, nums) ==
  LET out == {h \in win.slots : h.seq \in nums}
  IN  [win EXCEPT !.slots = @ \ out,
                  !.earliest = IF @ \in Expiries(out) THEN Never ELSE @]

\* take, for each of nums.
Take(win, nums) ==
  LET out == {h \in win.slots : h.seq \in nums}
      rest == win.slots \ out
  IN  [win EXCEPT !.slots = rest,
                  !.earliest = IF rest = {} THEN Never
                               ELSE IF @ \in Expiries(out) THEN Min(Expiries(rest))
                               ELSE @]

\* The part of nums that is released before the call ends, and how it ends.
UpTo(nums, f) == IF f.at \in nums THEN {n \in nums : n <= f.at} ELSE nums
Outcome(nums, f) == IF f.at \in nums THEN f.res ELSE "Continue"

\* What reaches the wire of it.
Sent(nums, f) ==
  SetToSortSeq(UpTo(nums, f) \ (IF f.res = "Err" THEN {f.at} ELSE {}), <)

\* Hand the session nums, which are held.
Release(r, nums, f) ==
  [w |-> Take(r.w, UpTo(nums, f)), sent |-> r.sent \o Sent(nums, f),
   res |-> Outcome(nums, f)]

\* Hand the session the message offered.
ReleaseOffered(r, n, f) ==
  [r EXCEPT !.sent = @ \o Sent({n}, f), !.res = Outcome({n}, f)]

\* A wrong form: the last slot is not reached.
ReleaseThroughShort(r, through, f) ==
  LET top == r.w.next + MaxHeld
  IN  Release(r, {n \in Held(r.w) : r.w.next <= n /\ n <= through /\ n < top}, f)

\* release_through: what is held up to through, skipping the gaps.
ReleaseThrough(r, through, f) ==
  LET top == r.w.next + MaxHeld
  IN  Release(r, {n \in Held(r.w) : r.w.next <= n /\ n <= through /\ n <= top}, f)

\* release_run: what is held from next on, without a gap.
ReleaseRun(r, f) ==
  LET run == {n \in Held(r.w) : n >= r.w.next /\ r.w.next .. n \subseteq Held(r.w)}
  IN  Release([r EXCEPT !.w.next = @ + Cardinality(UpTo(run, f))], run, f)

\* A wrong form: the gaps are not given up on.
ExpiredStays(r, f) ==
  LET expired == {h.seq : h \in {x \in r.w.slots : x.expires = 0}}
  IN  IF r.w.earliest # 0 \/ expired = {} THEN r
      ELSE Then(ReleaseThrough(r, Max(expired), f), LAMBDA r1 : ReleaseRun(r1, f))

\* expire: what has waited long enough, and what is held before it.
Expired(r, f) ==
  LET expired == {h.seq : h \in {x \in r.w.slots : x.expires = 0}}
  IN  IF r.w.earliest # 0 \/ expired = {} THEN r
      ELSE Then(ReleaseThrough(r, Max(expired), f),
                LAMBDA r1 : ReleaseRun([r1 EXCEPT !.w.next = Max(expired) + 1], f))

-----------------------------------------------------------------------------
\* Offering

Late(r) == [r EXCEPT !.res = "Late"]

\* A slot that is taken makes the message late.
Hold(r, n) ==
  IF \E h \in r.w.slots : h.seq % MaxHeld = n % MaxHeld THEN Late(r)
  ELSE [r EXCEPT !.w.slots = @ \union {[seq |-> n, expires |-> MaxWait]},
                 !.w.earliest = IF @ = Never THEN MaxWait ELSE Min({@, MaxWait})]

\* A wrong form: the furthest slot is not used.
TooFarEarly(win, n) == n - win.next >= MaxHeld

TooFar(win, n) == n - win.next > MaxHeld

Pass(r, n, f) == ReleaseOffered([r EXCEPT !.w.next = n + 1], n, f)

\* The message that is next goes first, with the run it completes.
OfferNext(r, n, f) ==
  Then(Pass(r, n, f), LAMBDA r1 :
    Then(ReleaseRun(r1, f), LAMBDA r2 : Expired(r2, f)))

\* Any other message comes after what has expired.
OfferOther(r, n, f) ==
  Then(Expired(r, f), LAMBDA r1 :
    IF r1.w.next = 0 THEN Pass(r1, n, f)
    ELSE IF n < r1.w.next THEN Late(r1)
    ELSE IF ~TooFar(r1.w, n) THEN Hold(r1, n)
    ELSE Then(ReleaseThrough(r1, n - 1, f), LAMBDA r2 :
           Then(Pass(r2, n, f), LAMBDA r3 : ReleaseRun(r3, f))))

-----------------------------------------------------------------------------

\* What the session makes of the messages of one call: it may close at one of
\* them, or refuse one.
Faults == {[at |-> 0, res |-> "Close"]}
            \union [at : SeqNums, res : {"Close"} \union IF Failing THEN {"Err"} ELSE {}]

Init ==
  /\ w = NewWindow
  /\ closed = FALSE
  /\ last = [call |-> "new", n |-> 0, res |-> "Continue"]
  /\ offered = {} /\ taken = {} /\ refused = {} /\ wire = << >>

\* The call named returned r.
Returns(call, n, r, f) ==
  /\ w' = r.w
  /\ closed' = (r.res = "Close")
  /\ last' = [call |-> call, n |-> n, res |-> r.res]
  /\ wire' = wire \o r.sent
  /\ refused' = IF r.res = "Err" THEN refused \union {f.at} ELSE refused

\* A sender uses a number once.
Offer(n, f) ==
  LET r == IF w.next = n THEN OfferNext(Start(w), n, f) ELSE OfferOther(Start(w), n, f)
  IN  /\ ~closed /\ n \notin offered
      /\ Returns("offer", n, r, f)
      /\ offered' = offered \union {n}
      /\ taken' = IF r.res = "Late" THEN taken ELSE taken \union {n}

Expire(f) ==
  /\ ~closed
  /\ Returns("expire", 0, Expired(Start(w), f), f)
  /\ UNCHANGED <<offered, taken>>

CountDown(t) == IF t > 0 THEN t - 1 ELSE t

Tick ==
  /\ ~closed
  /\ w' = [w EXCEPT !.slots = {[h EXCEPT !.expires = CountDown(@)] : h \in @},
                    !.earliest = CountDown(@)]
  /\ last' = [call |-> "tick", n |-> 0, res |-> "Continue"]
  /\ UNCHANGED <<closed, offered, taken, refused, wire>>

Next ==
  \/ \E f \in Faults : Expire(f) \/ \E n \in SeqNums : Offer(n, f)
  \/ Tick

Spec == Init /\ [][Next]_vars

-----------------------------------------------------------------------------
\* Properties

\* While the session refuses nothing, messages go out in number order, whatever
\* order they were offered in and whatever was given up on in between (offer,
\* expire).
InOrder == refused = {} => \A i \in 1 .. Len(wire) - 1 : wire[i] < wire[i + 1]

\* A message the window took went out, or was refused by the session, or is held
\* where a release will still find it, at or beyond next and as far as the slots
\* reach.  All a refusal costs besides the message refused is the one that was
\* being offered (offer, release_through, release_run).
NothingLost ==
  LET found(n) == \/ n \in Range(wire) \/ n \in refused
                  \/ n \in Held(w) /\ w.next <= n /\ n <= w.next + MaxHeld
  IN  closed \/ Cardinality({n \in taken : ~found(n)}) <= Cardinality(refused)

\* Nothing overstays: after a call that was not cut short nothing is held that should
\* have gone by then; and the cached expiry, on which that rests, is the earliest of
\* those held through every release, also one cut short (offer, take, expire).
NoOverstay ==
  /\ last.call \in {"offer", "expire"} /\ last.res \in {"Continue", "Late"} =>
       \A h \in w.slots : h.expires > 0
  /\ w.earliest = IF w.slots = {} THEN Never ELSE Min(Expiries(w.slots))

\* A gap is given up on only when something has waited for it long enough, or a
\* message arrives too far ahead of it: no number is passed over otherwise
\* (offer, expire).
GivesUpWhenDue ==
  [][w.next # 0 /\ (\E m \in w.next .. w'.next - 1 : m \notin Range(wire'))
       => \/ \E h \in w.slots : h.expires = 0
          \/ last'.call = "offer" /\ last'.n > w.next + MaxHeld
          \/ \E m \in refused' : m \notin refused]_vars
=============================================================================
