--------------------------- MODULE MCClassRegistry ---------------------------
(***************************************************************************)
(* A diamond without virtual bases (D of B and C, both of A), and a class  *)
(* E of B and X with A buried in B: E may name A as a base of its own,     *)
(* before or after B.                                                      *)
(***************************************************************************)
EXTENDS ClassRegistry

MCClass == {"A", "B", "C", "D", "E", "X"}
MCSubobject ==
  [A |-> {<<"A", 0>>},
   X |-> {<<"X", 0>>},
   B |-> {<<"B", 0>>, <<"A", 8>>},
   C |-> {<<"C", 0>>, <<"A", 16>>},
   D |-> {<<"D", 0>>, <<"B", 0>>, <<"A", 8>>, <<"C", 32>>, <<"A", 48>>},
   E |-> {<<"E", 0>>, <<"X", 0>>, <<"B", 4>>, <<"A", 12>>}]
MCBaseLists ==
  [A |-> {}, X |-> {},
   B |-> {<<"A">>},
   C |-> {<<"A">>},
   D |-> {<<"B", "C">>, <<"C", "B">>},
   E |-> {<<"X", "B">>, <<"B", "A">>, <<"A", "B">>}]
MCOptionSets == [c \in MCClass |-> {{}}]
=============================================================================
