--------------------------- MODULE MCFunctionCalls ---------------------------
(***************************************************************************)
(* A function that reads a number before an object, a member function that *)
(* reads a table, a variable and a lua_CFunction. The first is overloaded  *)
(* with the last. An object or a table may pass isInstance and fail get.   *)
(***************************************************************************)
EXTENDS FunctionCalls

Has(pushed, form, arity, takes) ==
  [pushed |-> pushed, form |-> form, arity |-> arity, takes |-> takes]
MCFunctions == <<Has("function", "function pointer", 2, <<"number", "object">>),
                 Has("member function", "member function", 1, <<"object", "table">>),
                 Has("setter", "variable", 1, <<"object">>),
                 Has("function", "lua_CFunction", Variadic, <<>>)>>
MCSets == {<<1, 4>>, <<2>>}
MCArguments == {<<"number", "object">>, <<"object", "table">>}
=============================================================================
