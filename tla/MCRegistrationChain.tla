------------------------- MODULE MCRegistrationChain -------------------------
(***************************************************************************)
(* Two registration objects, a name and two classes: chains in nested      *)
(* scopes, moved into older variables, and failed derivations. The        *)
(* classes are interchangeable.                                            *)
(***************************************************************************)
EXTENDS RegistrationChain, TLC

ChainSymmetry == Permutations(Class)
=============================================================================
