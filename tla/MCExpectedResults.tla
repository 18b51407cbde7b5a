-------------------------- MODULE MCExpectedResults --------------------------
(***************************************************************************)
(* Trivial types, strings (a copy may throw), and types of which every     *)
(* constructor may throw, with a default constructor and without.          *)
(***************************************************************************)
EXTENDS ExpectedResults, TLC

Throwing == {{}, {<<"value", "copy">>}, Kind \X {"copy", "move"}}
MCType == {p \in Parameters : p.throws \in Throwing}
Interchangeable == Permutations(Handle)
=============================================================================
