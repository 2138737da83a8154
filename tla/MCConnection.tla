---------------------------- MODULE MCConnection ----------------------------
(* A few short streams, which reads of up to three bytes cut anywhere.       *)
EXTENDS Connection

Frame(kind, len) == [kind |-> kind, prefix |-> 1, len |-> len]

MCStreams ==
  {[frames |-> <<Frame("Logon", 2), Frame("Message", 2), Frame("Message", 2)>>, total |-> 6],
   [frames |-> <<Frame("Logon", 2), Frame("Message", 3), Frame("Logon", 2)>>, total |-> 6],
   [frames |-> <<Frame("Logon", 2), Frame("Message", 4)>>, total |-> 5],
   [frames |-> <<Frame("Logon", 2), Frame("Unparsable", 2)>>, total |-> 4],
   [frames |-> <<Frame("Logon", 2), [Frame("Garbled", 2) EXCEPT !.prefix = 5]>>, total |-> 6],
   [frames |-> <<Frame("Logon", 2), Frame("Garbled", 1)>>, total |-> 4],
   [frames |-> <<Frame("Message", 2)>>, total |-> 2]}
=============================================================================
