------------------------------ MODULE Ownership ------------------------------
(***************************************************************************)
(* What LuaBridge promises about the lifetime of an object that C++ and    *)
(* Lua share: it is destroyed exactly once, by whoever gives up the last   *)
(* of its owners.  ObjectLifetime implements this.                         *)
(***************************************************************************)
EXTENDS Naturals

CONSTANT Object

VARIABLES state,   \* state[o]: "raw" memory, an "alive" object, or a "dead" one
          owners   \* owners[o]: how many C++ and Lua owners o has

ovars == <<state, owners>>

OInit == state = [o \in Object |-> "raw"] /\ owners = [o \in Object |-> 0]

Create(o) == /\ state[o] = "raw"
             /\ state' = [state EXCEPT ![o] = "alive"]
             /\ owners' = [owners EXCEPT ![o] = 1]

Acquire(o) == /\ state[o] = "alive" /\ owners[o] > 0
              /\ owners' = [owners EXCEPT ![o] = @ + 1]
              /\ UNCHANGED state

Release(o) == /\ state[o] = "alive" /\ owners[o] > 0
              /\ owners' = [owners EXCEPT ![o] = @ - 1]
              /\ state' = IF owners[o] = 1 THEN [state EXCEPT ![o] = "dead"] ELSE state

ONext == \E o \in Object : Create(o) \/ Acquire(o) \/ Release(o)

OSpec == OInit /\ [][ONext]_ovars
=============================================================================
