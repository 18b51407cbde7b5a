-------------------------- MODULE MCObjectLifetime --------------------------
(***************************************************************************)
(* Two objects and two userdata: enough for a shared and a pointer         *)
(* userdata of one object, for a userdata that is built while another is   *)
(* collected, and for one slot to be used again.                           *)
(***************************************************************************)
EXTENDS ObjectLifetime
=============================================================================
