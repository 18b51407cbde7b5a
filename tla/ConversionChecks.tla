--------------------------- MODULE ConversionChecks ---------------------------
(***************************************************************************)
(* What StackConversions is checked for beside the stack: the values that  *)
(* arrive. They follow the structure of a type as deep as it goes, so that *)
(* this module is for TLC only.                                            *)
(***************************************************************************)
EXTENDS StackConversions

(* The kind of Lua value that a C++ value becomes, and those that get      *)
(* takes for a type.                                                       *)
RECURSIVE Becomes(_, _), KindsTaken(_)
Becomes(T, v) ==
  CASE T[1] \in {"integer", "enum", "floating"} -> "number"
    [] T[1] = "bool" -> "boolean"
    [] T[1] \in {"char", "view", "string", "path"} -> "string"
    [] T[1] = "cstring" -> IF v = <<>> THEN "nil" ELSE "string"
    [] T[1] \in {"nullptr", "monostate"} -> "nil"
    [] T[1] = "pointer" -> "lightuserdata"
    [] T[1] = "cfunction" -> "cfunction"
    [] T[1] \in Wrappers -> IF v = <<>> THEN "nil" ELSE Becomes(T[2], v[1])
    [] T[1] = "variant" -> Becomes(T[2][v[1]], v[2])
    [] OTHER -> "table"
KindsTaken(T) ==
  CASE T[1] \in {"integer", "enum", "floating"} -> {"number"}
    [] T[1] = "bool" -> {"nil", "boolean", "number", "string", "table", "object", "lightuserdata",
                         "cfunction"}
    [] T[1] \in {"char", "view", "path"} -> {"string"}
    [] T[1] = "string" -> {"string", "number"}
    [] T[1] = "cstring" -> {"nil", "string"}
    [] T[1] \in {"nullptr", "monostate"} -> {"nil"}
    [] T[1] = "pointer" -> {"lightuserdata", "nil"}
    [] T[1] = "cfunction" -> {"cfunction"}
    [] T[1] = "optional" -> {"nil"} \union KindsTaken(T[2])
    [] T[1] \in {"expected", "address"} -> KindsTaken(T[2])
    [] T[1] = "variant" -> UNION {KindsTaken(T[2][n]) : n \in DOMAIN T[2]}
    [] T[1] = "class" -> {"object", "nil"}
    [] OTHER -> {"table"}

(* What C++ pushed as a type, and gets as the same type, is the same       *)
(* value. Exceptions are values that Lua cannot hold in a table (nil among *)
(* the elements), floating values finer than a lua_Number, variants of     *)
(* which an earlier alternative takes that kind of Lua value, errors, and  *)
(* types that are only pushed.                                             *)
RECURSIVE Faithful(_, _)
Elements(T, v) == {Entries(T, v)[i] : i \in DOMAIN Entries(T, v)}
Faithful(T, v) ==
  CASE T[1] \in {"any", "carray", "address"} -> FALSE
    [] T[1] = "floating" -> CastFloating(LuaNumber, v) = v
    [] T[1] = "enum" -> T[3] = {} \/ v \in T[3]
    [] T[1] = "expected" -> v # <<>> /\ Becomes(T[2], v[1]) # "nil" /\ Faithful(T[2], v[1])
    [] T[1] = "optional" -> v = <<>> \/ (Becomes(T[2], v[1]) # "nil" /\ Faithful(T[2], v[1]))
    [] T[1] = "variant" -> /\ Faithful(T[2][v[1]], v[2])
                           /\ \A n \in 1..v[1] - 1 : Becomes(T, v) \notin KindsTaken(T[2][n])
    [] T[1] = "sequence" /\ T[2].get = "none" -> FALSE
    [] T[1] \in {"tuple", "array", "sequence", "map", "multimap", "values"} ->
         \A e \in Elements(T, v) : Becomes(e.type, e.value) # "nil" /\ Faithful(e.type, e.value)
    [] OTHER -> TRUE
GotBack == now.index = pushed.index /\ now.type = pushed.type
RoundTrip ==
  calls = <<>> /\ now.at \in {"got", "notgot"} /\ GotBack /\ Faithful(pushed.type, pushed.value)
    => now.at = "got" /\ now.value = pushed.value
=============================================================================
