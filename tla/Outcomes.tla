------------------------------- MODULE Outcomes -------------------------------
(***************************************************************************)
(* What the results of LuaBridge promise (Expected, TypeResult): each is a *)
(* value or an error, and stays what it was made, whatever happens to the  *)
(* others. One that was moved from keeps its kind; an exception may spoil  *)
(* the one that is being assigned to.                                      *)
(***************************************************************************)
CONSTANTS Handle, Datum, Moved, None, Spoiled

VARIABLE outcome        \* of each handle: None, Spoiled, or a kind and a datum

Kind == {"value", "error"}
Result == Kind \X (Datum \union {Moved})
Held == {h \in Handle : outcome[h] \in Result}
Left(r) == <<r[1], Moved>>              \* what a move leaves

Init == outcome = [h \in Handle |-> None]

Set(h) == \E r \in Result : outcome' = [outcome EXCEPT ![h] = r]
Copy(h, g) == outcome' = [outcome EXCEPT ![h] = outcome[g]]
Transfer(h, g) ==
  outcome' = [outcome EXCEPT ![h] = outcome[g], ![g] = Left(outcome[g])]
Swap(h, g) == outcome' = [outcome EXCEPT ![h] = outcome[g], ![g] = outcome[h]]
Leave(h) == outcome' = [outcome EXCEPT ![h] = Left(@)]
Spoil(h) == outcome' = [outcome EXCEPT ![h] = Spoiled]
SpoilTaken(h, g) == outcome' = [outcome EXCEPT ![h] = Spoiled, ![g] = outcome[h]]
Discard(h) == outcome' = [outcome EXCEPT ![h] = None]

Next ==
  \/ \E h \in Handle : Set(h) \/ Discard(h)
  \/ \E h \in Held : Leave(h) \/ Spoil(h)
  \/ \E h \in Handle, g \in Held : h # g /\ (Copy(h, g) \/ Transfer(h, g))
  \/ \E h, g \in Held : h # g /\ (Swap(h, g) \/ SpoilTaken(h, g))

Spec == Init /\ [][Next]_outcome
=============================================================================
