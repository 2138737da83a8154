----------------------------- MODULE MCSession ------------------------------
(***************************************************************************)
(* Streams for model checking Session.  A stream is what the peer has      *)
(* numbered, from 1: what precedes its Logon it sent on an earlier         *)
(* connection, and may have to retransmit.                                 *)
(***************************************************************************)
EXTENDS Session

Order == Message("D")
Logon == Message("A")
Logout == Message("5")
TestRequest == [Message("1") EXCEPT !.id = <<"TEST", 1>>]
ResendRequest(begin, end) ==
  [Message("2") EXCEPT !.begin = begin, !.end = end]

\* An order missed on the last connection, then a busy one.
RecoveryStream == <<Order, Logon, Order, ResendRequest(2, 0), Logout>>
\* Gap fills for one number and for a run of them, up to the Logon and beyond it.
SomeGapFills == {<<1, 2>>, <<1, 4>>, <<3, 4>>, <<3, 6>>, <<4, 5>>}

\* A peer that polls.
PollingStream == <<Logon, TestRequest>>
\* A peer that asks for a resend up to a number we have not reached.
FarResendStream == <<Logon, ResendRequest(1, 4)>>
=============================================================================
