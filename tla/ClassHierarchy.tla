--------------------------- MODULE ClassHierarchy ---------------------------
(***************************************************************************)
(* What class registration promises to the rest of LuaBridge: a type is    *)
(* registered in one step, as a root or as derived from types that are     *)
(* already registered; from then on its ancestors are exactly its bases    *)
(* and theirs, and never change.  ClassRegistry implements this.           *)
(***************************************************************************)
CONSTANT Class

VARIABLES known,      \* the types whose tables are in the Lua registry
          ancestors   \* ancestors[c]: the types an object of c converts to

hvars == <<known, ancestors>>

Closure(B) == B \union UNION {ancestors[b] : b \in B}

HInit == /\ known = {}
         /\ ancestors = [c \in Class |-> {}]

RegisterRoot(c) == /\ c \notin known
                   /\ known' = known \union {c}
                   /\ UNCHANGED ancestors

RegisterDerived(c, B) == /\ c \notin known
                         /\ B \subseteq known
                         /\ known' = known \union {c}
                         /\ ancestors' = [ancestors EXCEPT ![c] = Closure(B)]

HNext == \E c \in Class : \/ RegisterRoot(c)
                          \/ \E B \in SUBSET Class : RegisterDerived(c, B)

HSpec == HInit /\ [][HNext]_hvars
=============================================================================
