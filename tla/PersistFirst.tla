---------------------------- MODULE PersistFirst ----------------------------
(***************************************************************************)
(* What the sequencer promises (the module docs of                         *)
(* babelfix-core/src/sequencer.rs): a message is stored once under its     *)
(* number, sent only once it is stored, and sent in number order, over all *)
(* the connections of a session.  By the time a message is sent, every     *)
(* lower number that will ever be stored has been: a peer that missed one  *)
(* can be answered from the store at once.                                 *)
(***************************************************************************)
EXTENDS Naturals

CONSTANT Messages  \* records with a seq

VARIABLES stored, sent

Init == stored = {} /\ sent = {}

Store(m) ==
  /\ \A o \in stored : o.seq # m.seq
  /\ \A o \in sent : o.seq < m.seq
  /\ stored' = stored \union {m}
  /\ UNCHANGED sent

Send(m) ==
  /\ m \in stored
  /\ \A o \in sent : o.seq < m.seq
  /\ sent' = sent \union {m}
  /\ UNCHANGED stored

Next == \E m \in Messages : Store(m) \/ Send(m)

Spec == Init /\ [][Next]_<<stored, sent>>
=============================================================================
