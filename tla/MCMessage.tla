------------------------------ MODULE MCMessage ------------------------------
(* A small dictionary and a few messages.                                    *)
EXTENDS Message

MCDict ==
  [header  |-> <<8, 9, 35, 52, 212, 213, 627>>,
   body    |-> <<55, 453>>,
   trailer |-> <<93, 89, 10>>,
   members |-> [g \in {627, 453, 802} |->
                  CASE g = 627 -> <<628>>
                    [] g = 453 -> <<448, 354, 355, 802>>
                    [] g = 802 -> <<523>>],
   length  |-> [t \in {213, 355, 89} |->
                  CASE t = 213 -> 212 [] t = 355 -> 354 [] t = 89 -> 93]]

Fields(tags, vals) == [i \in DOMAIN tags |-> [tag |-> tags[i], val |-> vals[i]]]

Nested == Fields(<<8, 9, 35, 627, 628, 453, 448, 354, 355, 802, 523, 448, 10>>,
                 <<0, 0, 0, 1, 5, 2, 7, 9, 9, 1, 11, 12, 0>>)

Flat == Fields(<<8, 9, 35, 52, 55, 453, 93, 89, 10>>, <<0, 0, 0, 4, 5, 0, 8, 8, 0>>)

MCStarts == {Nested, Flat}

MCSource == Fields(<<8, 9, 35, 627, 628, 55, 453, 448, 802, 523, 523, 93, 89, 10>>,
                   <<0, 0, 0, 1, 41, 42, 1, 43, 2, 44, 45, 46, 46, 0>>)

MCMaxRead == [Strict |-> 8, Fragment |-> 3]

MCReadTags == {8, 9, 35, 52, 55, 453, 448, 354, 355, 802, 523, 10}
=============================================================================
