------------------------------- MODULE MCLink -------------------------------
(***************************************************************************)
(* Instances of Link for TLC.                                              *)
(***************************************************************************)
EXTENDS Link

JustInitiator == {"initiator"}

\* Both start afresh; or the acceptor does, with an initiator that remembers more.
Afresh == {[x \in Ends |-> 1]}
InitiatorAhead == {[x \in Ends |-> IF x = "initiator" THEN 2 ELSE 1]}
=============================================================================
