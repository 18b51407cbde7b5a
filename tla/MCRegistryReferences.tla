------------------------ MODULE MCRegistryReferences ------------------------
(***************************************************************************)
(* Two references and two proxies over two tables, with a literal key and  *)
(* one that takes a slot.  No definition tells slots apart, so two states  *)
(* that differ in the numbers of slots only are the same.                  *)
(***************************************************************************)
EXTENDS RegistryReferences, TLC

RefSymmetry == Permutations(Ref) \union Permutations(Item) \union Permutations(Table)

RefView == <<heap,
             {<<registry[n], {m \in Member : index[m] = n}>> : n \in Slot},
             [m \in Member |-> IF index[m] \in Slot THEN Nil ELSE index[m]]>>
=============================================================================
