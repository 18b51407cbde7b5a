--------------------------- MODULE MCClassDispatch ---------------------------
(***************************************************************************)
(* Three classes: B derives from A, C derives from B or from A and B, in   *)
(* that order, each with or without its extension options.                 *)
(***************************************************************************)
EXTENDS ClassDispatch

MCClass == {"A", "B", "C"}
MCSubobject == [A |-> {<<"A", 0>>},
                B |-> {<<"B", 0>>, <<"A", 4>>},
                C |-> {<<"C", 0>>, <<"B", 8>>, <<"A", 12>>}]
MCBaseLists == [A |-> {}, B |-> {<<"A">>}, C |-> {<<"B">>, <<"A", "B">>}]

Ext == {"extensibleClass"}
ExtOver == {"extensibleClass", "allowOverridingMethods"}
MCOptions == [A |-> {{}, ExtOver}, B |-> {{}, Ext}, C |-> {{}, ExtOver}]

(* The two worlds of one run: plain classes with metamethod names and two  *)
(* member operations, and extensible classes without such names, with all  *)
(* MaxOps operations, where C derives from A and B.                        *)
PlainWorld == ops <= 2 /\ \A c \in MCClass : options[c] = {}
ExtensibleWorld ==
  /\ \A c \in bound : c # "A" => options[c] # {}
  /\ building = "C" => bases = <<"A", "B">>
  /\ \A t \in Store : field[t][Plain("__len")] = Nil
  /\ \A t \in Table : <<t, "__len">> \notin propget /\ "__len" \notin answers[t]
MCWorlds == PlainWorld \/ ExtensibleWorld
MCSpec == DispatchInit /\ [][DispatchNext /\ MCWorlds']_dvars
=============================================================================
