--------------------------- MODULE CoroutineFrames ---------------------------
(***************************************************************************)
(* C++20 coroutines called from Lua threads (Coroutine.h): the frame of a  *)
(* CppCoroutine is a userdata on the stack of the Lua thread that called   *)
(* it; every resume of the thread runs the body to its next co_yield or to *)
(* its end, and Lua destroys the frame by collecting the userdata.         *)
(*                                                                         *)
(* One step is what C++ does without giving control away: from a resume    *)
(* into the body, or from the body back to whoever resumed the thread.     *)
(***************************************************************************)
EXTENDS Naturals, Sequences, SequencesExt

CONSTANTS Thread,    \* Lua threads; a thread runs Lua code that may call coroutines
          Main,      \* the main thread, which cannot yield
          Frame,     \* coroutine frames, one for each call of a factory
          NoFrame,   \* a thread is not in a call of a coroutine function
          MaxValues  \* bound: values one body yields or returns

ASSUME CoroutineAssumption ==
  Main \in Thread /\ NoFrame \notin Frame /\ MaxValues \in Nat \ {0}

VARIABLES
  chain,       \* the threads that run, each resumed by the one before it
  status,      \* status[t]: "suspended", "active" (in the chain) or "dead"
  referenced,  \* the threads the program or Lua still refers to
  call,        \* call[t]: the frame of the coroutine function t is in
  stack,       \* stack[t]: the Lua stack of that C function call
  coro,        \* coro[f]: the C++ coroutine; "broken" after undefined behaviour
  collected,   \* the frames whose userdata was finalized
  produced,    \* produced[f]: how many values the body handed to Lua
  received     \* received[f]: what the threads that resumed it got

threads == <<chain, status, referenced>>
vars == <<threads, call, stack, coro, collected, produced, received>>

ArgsTop == 1                          \* one argument: the object of a member coroutine
FrameIndex == ArgsTop + 1             \* frame_abs_idx
Arg(f) == <<"argument", f>>
Ud(f) == <<"frame", f>>
Val(n) == <<"value", n>>
ResumeArg == <<"resume argument">>
Nil == <<"nil">>
SetTop(s, n) == [i \in 1..n |-> IF i <= Len(s) THEN s[i] ELSE Nil]
Slot == ({"argument", "frame"} \X Frame) \union ({"value"} \X (1..MaxValues))
          \union {ResumeArg, Nil}

Init ==
  /\ chain = <<Main>> /\ referenced = Thread
  /\ status = [t \in Thread |-> IF t = Main THEN "active" ELSE "suspended"]
  /\ call = [t \in Thread |-> NoFrame] /\ stack = [t \in Thread |-> <<>>]
  /\ coro = [f \in Frame |-> "unused"] /\ collected = {}
  /\ produced = [f \in Frame |-> 0] /\ received = [f \in Frame |-> <<>>]

Running == Last(chain)
InBody(t) == call[t] # NoFrame /\ coro[call[t]] = "running"

(* handle.resume(): defined for a suspended coroutine only.                *)
Resumed(f) == [coro EXCEPT ![f] = IF @ = "suspended" THEN "running" ELSE "broken"]

-----------------------------------------------------------------------------
(* Threads.                                                                *)

(* A thread is resumed by the code that runs: Lua (coroutine.resume, wrap) *)
(* or the body of a coroutine (LuaCoroutine::await_ready).  A thread that  *)
(* is in the chain or dead gives an error and nothing happens.  The Lua    *)
(* stack of a call that yielded gets the arguments of the resume on top.   *)
Resumable(t) == status[t] = "suspended" /\ t \in referenced

EnterThread(t) == /\ chain' = Append(chain, t)
                  /\ status' = [status EXCEPT ![t] = "active"]
                  /\ UNCHANGED referenced

(* Mutant: LuaCoroutine is not ready, and the body that awaits suspends.   *)
ResumeLuaSuspending(t) ==
  /\ Resumable(t) /\ call[t] = NoFrame
  /\ EnterThread(t)
  /\ coro' = IF InBody(Running) THEN [coro EXCEPT ![call[Running]] = "suspended"] ELSE coro
  /\ UNCHANGED <<call, stack, collected, produced, received>>

ResumeLua(t) ==
  /\ Resumable(t) /\ call[t] = NoFrame
  /\ EnterThread(t)
  /\ UNCHANGED <<call, stack, coro, collected, produced, received>>

(* coroutine_continuation_body up to handle.resume(): the arguments of the *)
(* resume are dropped and the frame is found where it was left.            *)
ResumeBody(t) ==
  /\ Resumable(t) /\ call[t] # NoFrame
  /\ EnterThread(t)
  /\ \E extra \in {<<>>, <<ResumeArg>>} :
        stack' = [stack EXCEPT ![t] = SetTop(@ \o extra, FrameIndex)]
  /\ coro' = Resumed(call[t])
  /\ UNCHANGED <<call, collected, produced, received>>

LeaveThread(s) == /\ chain' = Front(chain)
                  /\ status' = [status EXCEPT ![Running] = s]
                  /\ UNCHANGED referenced

(* The Lua code of the running thread yields, or returns, or raises an     *)
(* error nobody catches.                                                   *)
LeaveLua(s) ==
  /\ Running # Main /\ call[Running] = NoFrame
  /\ LeaveThread(s)
  /\ UNCHANGED <<call, stack, coro, collected, produced, received>>

(* The last reference to a thread goes, or a suspended thread is closed.   *)
(* A thread that is running is kept by the one that resumed it.            *)
Drop(t) == /\ t \in referenced \ Range(chain)
           /\ referenced' = referenced \ {t}
           /\ UNCHANGED <<chain, status, call, stack, coro, collected, produced, received>>

Close(t) ==
  /\ Resumable(t)
  /\ status' = [status EXCEPT ![t] = "dead"]
  /\ call' = [call EXCEPT ![t] = NoFrame] /\ stack' = [stack EXCEPT ![t] = <<>>]
  /\ UNCHANGED <<chain, referenced, coro, collected, produced, received>>

-----------------------------------------------------------------------------
(* The call of a coroutine function.                                       *)

(* Mutant: the arguments are popped before the frame is pushed.            *)
EnterWithoutArgument(f) ==
  /\ coro[f] = "unused" /\ ~InBody(Running) /\ call[Running] = NoFrame
  /\ call' = [call EXCEPT ![Running] = f]
  /\ stack' = [stack EXCEPT ![Running] = <<Ud(f)>>]
  /\ coro' = [coro EXCEPT ![f] = "running"]
  /\ UNCHANGED <<threads, collected, produced, received>>

(* invoke_coroutine_entry up to the first resume: the factory makes the    *)
(* coroutine, its frame goes on the stack above the arguments.  When the   *)
(* arguments do not convert or the factory throws nothing has happened.    *)
Enter(f) ==
  /\ coro[f] = "unused" /\ ~InBody(Running) /\ call[Running] = NoFrame
  /\ call' = [call EXCEPT ![Running] = f]
  /\ stack' = [stack EXCEPT ![Running] = <<Arg(f), Ud(f)>>]
  /\ coro' = [coro EXCEPT ![f] = "running"]
  /\ UNCHANGED <<threads, collected, produced, received>>

Body(f) == call[Running] = f /\ coro[f] = "running"

(* The C function is left by a Lua error: raise_from_exception, or         *)
(* lua_yieldk outside a coroutine.  A pcall of the Lua code of the thread  *)
(* catches it, or the thread dies.                                         *)
Abort ==
  /\ call' = [call EXCEPT ![Running] = NoFrame]
  /\ stack' = [stack EXCEPT ![Running] = <<>>]
  /\ \/ UNCHANGED threads
     \/ Running # Main /\ LeaveThread("dead")

Result(f, s) == received' = [received EXCEPT ![f] = Append(@, Last(s))]

(* Mutant: the frame is yielded away with the value.                       *)
BodyYieldDropsFrame(f) ==
  /\ Body(f) /\ Running # Main /\ produced[f] < MaxValues
  /\ coro' = [coro EXCEPT ![f] = "suspended"]
  /\ produced' = [produced EXCEPT ![f] = @ + 1]
  /\ LET s == Append(stack[Running], Val(produced[f] + 1)) IN
       /\ Result(f, s)
       /\ stack' = [stack EXCEPT ![Running] = SetTop(s, ArgsTop)]
  /\ LeaveThread("suspended")
  /\ UNCHANGED <<call, collected>>

(* co_yield of a value: yield_value pushes it above the frame, do_yield    *)
(* hands it to the resumer and leaves the frame on the stack.              *)
BodyYield(f) ==
  /\ Body(f) /\ Running # Main /\ produced[f] < MaxValues
  /\ coro' = [coro EXCEPT ![f] = "suspended"]
  /\ produced' = [produced EXCEPT ![f] = @ + 1]
  /\ LET s == Append(stack[Running], Val(produced[f] + 1)) IN
       /\ Result(f, s)
       /\ stack' = [stack EXCEPT ![Running] = Front(s)]
  /\ LeaveThread("suspended")
  /\ UNCHANGED <<call, collected>>

(* co_yield that does not reach the resumer: the value does not convert,   *)
(* or the thread is the main one.                                          *)
BodyYieldFails(f) ==
  /\ Body(f)
  /\ coro' = [coro EXCEPT ![f] = "suspended"]
  /\ Abort
  /\ UNCHANGED <<collected, produced, received>>

(* Mutant: the value is returned without taking the place of the frame, on *)
(* a count of results that includes the frame.                             *)
BodyReturnKeepsFrame(f) ==
  /\ Body(f) /\ produced[f] < MaxValues
  /\ coro' = [coro EXCEPT ![f] = "done"]
  /\ produced' = [produced EXCEPT ![f] = @ + 1]
  /\ Result(f, stack[Running])
  /\ call' = [call EXCEPT ![Running] = NoFrame]
  /\ stack' = [stack EXCEPT ![Running] = <<>>]
  /\ UNCHANGED <<threads, collected>>

(* co_return of a value: lua_replace puts the top of the stack in the      *)
(* place of the frame, and the top is the result of the call.              *)
BodyReturn(f) ==
  /\ Body(f) /\ produced[f] < MaxValues
  /\ coro' = [coro EXCEPT ![f] = "done"]
  /\ produced' = [produced EXCEPT ![f] = @ + 1]
  /\ LET s == Append(stack[Running], Val(produced[f] + 1))
     IN Result(f, [Front(s) EXCEPT ![FrameIndex] = Last(s)])
  /\ call' = [call EXCEPT ![Running] = NoFrame]
  /\ stack' = [stack EXCEPT ![Running] = <<>>]
  /\ UNCHANGED <<threads, collected>>

(* co_return of a void coroutine.                                          *)
BodyReturnVoid(f) ==
  /\ Body(f)
  /\ coro' = [coro EXCEPT ![f] = "done"]
  /\ call' = [call EXCEPT ![Running] = NoFrame]
  /\ stack' = [stack EXCEPT ![Running] = <<>>]
  /\ UNCHANGED <<threads, collected, produced, received>>

(* An exception leaves the body (unhandled_exception), or the value of     *)
(* co_return does not convert.                                             *)
BodyThrows(f) ==
  /\ Body(f)
  /\ coro' = [coro EXCEPT ![f] = "done"]
  /\ Abort
  /\ UNCHANGED <<collected, produced, received>>

-----------------------------------------------------------------------------
(* Collection of the userdata of a frame.                                  *)

OnStack(f) == \E t \in referenced \union Range(chain) : Ud(f) \in Range(stack[t])
Garbage(f) == coro[f] # "unused" /\ f \notin collected /\ ~OnStack(f)

(* Mutant: the test of done() the wrong way round.                         *)
DestructorInverted(f) == [coro EXCEPT ![f] = IF @ = "done" THEN "destroyed" ELSE @]

(* ~CppCoroutineFrame destroys a coroutine that is not done; to destroy    *)
(* one that is running is undefined.                                       *)
Destructor(f) ==
  [coro EXCEPT ![f] = CASE @ = "suspended" -> "destroyed"
                        [] @ = "done" -> "done"
                        [] OTHER -> "broken"]

Collect(f) ==
  /\ Garbage(f)
  /\ collected' = collected \union {f}
  /\ coro' = Destructor(f)
  /\ UNCHANGED <<threads, call, stack, produced, received>>

InCall(f) == \/ BodyYield(f) \/ BodyYieldFails(f) \/ BodyThrows(f)
             \/ BodyReturn(f) \/ BodyReturnVoid(f)

Next == \/ \E t \in Thread : ResumeLua(t) \/ ResumeBody(t) \/ Drop(t) \/ Close(t)
        \/ \E s \in {"suspended", "dead"} : LeaveLua(s)
        \/ \E f \in Frame : Enter(f) \/ InCall(f) \/ Collect(f)

Spec == Init /\ [][Next]_vars

(* Lua finalizes a dead userdata in some collection cycle, or when the     *)
(* state is closed.                                                        *)
FairSpec == Spec /\ \A f \in Frame : WF_vars(Collect(f))

-----------------------------------------------------------------------------
(* No coroutine is resumed when it is not suspended, nor destroyed while   *)
(* it runs: a frame is found on every resume, and is not collected under a *)
(* body, whichever threads are resumed, dropped and closed meanwhile.      *)
NeverBroken == \A f \in Frame : coro[f] # "broken"

(* Bodies nest as the threads that run them: a body runs exactly when its  *)
(* thread is in the chain and in its call, and no thread is there twice.   *)
BodiesNest ==
  /\ IsInjective(chain)
  /\ \A t \in Thread : status[t] = "active" <=> t \in Range(chain)
  /\ \A f \in Frame : coro[f] = "running" <=> \E t \in Range(chain) : call[t] = f

(* The values of a body reach those that resume it in order, each one      *)
(* once, and nothing else does: neither the arguments of a resume nor the  *)
(* frame itself.                                                           *)
ValuesInOrder == \A f \in Frame : received[f] = [i \in 1..produced[f] |-> Val(i)]

(* As long as a body may run again the object it was called on is on the   *)
(* stack below the frame, where Lua does not collect it.                   *)
ArgumentAnchored ==
  \A t \in Thread : call[t] # NoFrame => IsPrefix(<<Arg(call[t]), Ud(call[t])>>, stack[t])

(* coroutines.md: an abandoned coroutine is cleaned up by the garbage      *)
(* collector.                                                              *)
AbandonedIsDestroyed ==
  \A f \in Frame : coro[f] = "suspended" /\ ~OnStack(f) ~> coro[f] = "destroyed"

(* coroutines.md: "no manual resource management is needed": once Lua has  *)
(* collected the userdata nothing is left of the coroutine.                *)
CollectedIsDestroyed == \A f \in collected : coro[f] = "destroyed"
=============================================================================
