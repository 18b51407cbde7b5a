--------------------------- MODULE ReferenceValues ---------------------------
(***************************************************************************)
(* What LuaRef and its table proxies promise: a reference is a value, a    *)
(* proxy is a place in a table, and no operation on one object changes     *)
(* what another object stands for.                                         *)
(***************************************************************************)
EXTENDS Sequences

CONSTANTS Ref, Item, Table, Key, Nil

VARIABLES
  value,  \* value[r]: the value r refers to
  place,  \* place[i]: where it starts and which keys follow
  heap    \* the fields of the tables

Value == Table \union Key \union {Nil}
Nowhere == [root |-> Nil, path |-> <<>>]

RInit == /\ value = [r \in Ref |-> Nil] /\ place = [i \in Item |-> Nowhere]
         /\ heap \in [Table -> [Key -> Value]]

(* A reference gets a value; the one it came from may lose it.             *)
Assigned(r) == /\ value'[r] \in Value
               /\ \A q \in Ref \ {r} : value'[q] = value[q]
               /\ UNCHANGED <<place, heap>>
Moved(r, q) == /\ value' = [value EXCEPT ![r] = value[q], ![q] = Nil]
               /\ UNCHANGED <<place, heap>>

(* A proxy gets a place: an element of a value, or none, or the place of   *)
(* another, or one that starts at the value of a reference or goes on from *)
(* the place of another proxy.  A copy of a moved-from proxy has no key.   *)
OthersStay(I) == /\ \A j \in Item \ I : place'[j] = place[j]
                 /\ UNCHANGED heap
Placed(i) == /\ place'[i].root \in Value /\ place'[i].path \in {<<>>} \union {<<k>> : k \in Key}
             /\ OthersStay({i}) /\ UNCHANGED value
PlaceMoved(i, j) == /\ place'[i] = place[j] /\ place'[j] = Nowhere
                    /\ OthersStay({i, j}) /\ UNCHANGED value
Adopted(i, r) == /\ \E k \in Key : place'[i] = [root |-> value[r], path |-> <<k>>]
                 /\ value' = [value EXCEPT ![r] = Nil]
                 /\ OthersStay({i})
Continued(i, j) ==
  /\ \E k \in Key : place'[i] = [place[j] EXCEPT !.path = Append(@, k)]
  /\ place'[j] = Nowhere
  /\ OthersStay({i, j}) /\ UNCHANGED value

Written == /\ UNCHANGED <<value, place>>
           /\ \E t \in Table, k \in Key : heap' = [heap EXCEPT ![t][k] = heap'[t][k]]

RNext == \/ Written
         \/ \E r \in Ref : Assigned(r) \/ \E q \in Ref : Moved(r, q)
         \/ \E i \in Item : \/ Placed(i)
                            \/ \E j \in Item : PlaceMoved(i, j) \/ Continued(i, j)
                            \/ \E r \in Ref : Adopted(i, r)

RSpec == RInit /\ [][RNext]_<<value, place, heap>>
=============================================================================
