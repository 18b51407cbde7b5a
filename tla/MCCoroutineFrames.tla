-------------------------- MODULE MCCoroutineFrames --------------------------
(***************************************************************************)
(* The main thread and two others, and three calls of coroutine functions: *)
(* a body that awaits a thread whose body is suspended, and a thread that  *)
(* calls one coroutine after another.                                      *)
(***************************************************************************)
EXTENDS CoroutineFrames
=============================================================================
