---------------------------- MODULE FunctionCalls ----------------------------
(***************************************************************************)
(* Calls that cross the boundary between Lua and C++, nested in any way:   *)
(* callWithHandler and pcall (Invoke.h), by which C++ code calls Lua;      *)
(* function::call (CFunctions.h), by which Lua calls a C++ function; and   *)
(* try_overload_functions, which tries C++ functions one after the other.  *)
(* What travels is results, Lua errors and C++ exceptions. The Lua stack   *)
(* is kept as the sequence of what its entries are for.                    *)
(***************************************************************************)
EXTENDS Integers, SequencesExt

CONSTANTS Type,         \* the types an argument may have
          Classes,      \* those that are registered classes
          Loose,        \* those whose isInstance is weaker than their get
          Functions,    \* the C++ functions: [pushed, form, arity, takes]
          Sets,         \* sets of overloads, as sequences of functions
          Arguments,    \* the argument lists Lua passes
          SafeCFunctions,   \* LUABRIDGE_SAFE_LUA_C_EXCEPTION_HANDLING
          MaxErrors,    \* bound: errors raised in a behaviour
          MaxFrames,    \* bound: depth of nested calls
          MaxKept       \* bound: entries kept when luabridge::pcall is called again

Variadic == -1          \* the arity of a lua_CFunction

(* How a function is called depends on which push_* it was given to and on *)
(* its form: through function::call and its try ("function"), after self   *)
(* was read outside of the try ("member"), or without any try ("bare").    *)
CFunctionEntry == IF SafeCFunctions THEN "function" ELSE "bare"
push_function(form) == IF form = "lua_CFunction" THEN CFunctionEntry ELSE "function"
push_member_function(form) ==
  CASE form = "lua_CFunction" -> CFunctionEntry
    [] form \in {"member function", "member lua_CFunction"} -> "member"
    [] OTHER -> "function"
push_property_getter(form) == IF form \in {"lua_CFunction", "variable"} THEN "bare" ELSE "function"
push_property_setter(form) == push_property_getter(form)
push_class_property_getter(form) ==
  CASE form = "lua_CFunction" -> "bare"
    [] form \in {"data member", "member function"} -> "member"
    [] OTHER -> "function"
push_class_property_setter(form) == push_class_property_getter(form)
Entry(i) ==
  LET form == Functions[i].form
  IN  CASE Functions[i].pushed = "function"        -> push_function(form)
        [] Functions[i].pushed = "member function" -> push_member_function(form)
        [] Functions[i].pushed = "getter"          -> push_property_getter(form)
        [] Functions[i].pushed = "setter"          -> push_property_setter(form)
        [] Functions[i].pushed = "class getter"    -> push_class_property_getter(form)
        [] OTHER                                   -> push_class_property_setter(form)
Self(i) == IF Entry(i) = "member" THEN 1 ELSE 0     \* arguments before ArgStorage
Object(i) == IF Functions[i].pushed = "member function" THEN 1 ELSE 0   \* not overloaded on

(* takes has self first, where there is one. A variable takes one value.   *)
ASSUME CallAssumption ==
  /\ Loose \subseteq Type /\ Classes \subseteq Type
  /\ SafeCFunctions \in BOOLEAN
  /\ Functions \in Seq([pushed : STRING, form : STRING,
                        arity : Nat \union {Variadic}, takes : Seq(Type)])
  /\ \A i \in DOMAIN Functions :
       /\ Self(i) <= Len(Functions[i].takes)
       /\ Functions[i].arity \in {Variadic, Len(Functions[i].takes) - Object(i)}
       /\ Entry(i) = "bare" => Len(Functions[i].takes) <= 1
  /\ Sets \subseteq Seq(DOMAIN Functions)
  /\ Arguments \subseteq Seq(Type)
  /\ MaxErrors \in Nat /\ MaxFrames \in Nat \ {0} /\ MaxKept \in Nat

VARIABLES
  frames,     \* the calls in progress, the running one last
  stack,      \* the Lua stack
  flight,     \* the error or exception that is unwinding the frames
  raised,     \* errors raised so far
  seen,       \* those whose message someone received
  lost,       \* those reported by an error code alone
  handed,     \* the values the last completed call handed over
  liveArgs,   \* decoded arguments that are alive
  leaked,     \* those whose storage is gone
  enabled,    \* enableExceptions was called
  cxx         \* Lua was compiled as C++

build == <<enabled, cxx>>
vars == <<frames, stack, flight, raised, seen, lost, handed, liveArgs, leaked, build>>

Results(n) == SubSeq(<<"first", "second">>, 1, n)
Given(args) == [i \in DOMAIN args |-> "argument"]
None == [kind |-> "none", errors |-> {}]

(* Frames. base is the height of the stack when the call began, kept what  *)
(* luabridge::pcall left on it for the C++ code that called it.            *)
Program == [kind |-> "program", base |-> 0, kept |-> 0]
Call(base, handler) == [kind |-> "call", base |-> base, handler |-> handler, step |-> "push"]
Lua(base) == [kind |-> "lua", base |-> base]
Protected(base) == [kind |-> "pcall", base |-> base]
Function(base, args, i) ==
  [kind |-> "function", base |-> base, args |-> args, entry |-> i, decoded |-> 0,
   step |-> IF Self(i) = 1 THEN "self" ELSE "decode", kept |-> 0]
Overloaded(base, args, set) ==
  [kind |-> "overloads", base |-> base, args |-> args, set |-> set, next |-> 1, messages |-> <<>>]

Running == Last(frames)
Calm == flight = None
Is(kind) == Calm /\ Running.kind = kind
InBody(f) == f.kind = "program" \/ (f.kind = "function" /\ f.step = "body")
InCpp == Calm /\ InBody(Running)
Room == Len(frames) < MaxFrames
Push(f) == Append(frames, f)
Replace(f) == Append(Front(frames), f)
Down(n) == SubSeq(stack, 1, n)

Init ==
  /\ frames = <<Program>> /\ stack = <<>> /\ flight = None
  /\ raised = 0 /\ seen = {} /\ lost = {}
  /\ handed = <<>> /\ liveArgs = 0 /\ leaked = 0
  /\ enabled \in BOOLEAN /\ cxx \in BOOLEAN

(* A new error, with a message of its own, unwinds from the running frame. *)
Raise(kind) ==
  /\ raised < MaxErrors
  /\ raised' = raised + 1
  /\ flight' = [kind |-> kind, errors |-> {raised + 1}]
-----------------------------------------------------------------------------
(* callWithHandler: the handler, the function and the arguments are pushed *)
(* above initialTop. handler is "none" for std::ignore, "null" for a       *)
(* callable that is empty at run time. "raw" is luabridge::pcall, with     *)
(* LUA_MULTRET, of a function that its caller pushed.                      *)
Pushed(handler) == IF handler = "valid" THEN <<"handler">> ELSE <<>>
BeginCall(handler) ==
  /\ InCpp /\ Room
  /\ handler = "raw" => Running.kept <= MaxKept
  /\ frames' = Push(Call(Len(stack), handler))
  /\ stack' = stack \o Pushed(handler) \o <<"function">>
  /\ UNCHANGED <<flight, raised, seen, lost, handed, liveArgs, leaked, build>>

(* An argument that does not convert: the call returns the error, and      *)
(* StackRestore removes what was pushed. It does the same when copying an  *)
(* argument throws, or reading a result does, with exceptions enabled.     *)
RestoredNot(top) == stack
Restored(top) == Down(top)
PushFails ==
  /\ Is("call") /\ Running.step = "push" /\ Running.handler # "raw"
  /\ stack' = Restored(Running.base)
  /\ frames' = Front(frames)
  /\ UNCHANGED <<flight, raised, seen, lost, handed, liveArgs, leaked, build>>
CallThrows ==
  /\ Is("call") /\ Running.handler # "raw"
  /\ Running.step = "push" \/ (Running.step = "decode" /\ enabled)
  /\ Raise("exception")
  /\ stack' = Restored(Running.base)
  /\ frames' = Front(frames)
  /\ UNCHANGED <<seen, lost, handed, liveArgs, leaked, build>>

(* lua_pcall takes the function and its arguments off the stack.           *)
Enter ==
  /\ Is("call") /\ Running.step = "push" /\ Room
  /\ stack' = Front(stack)
  /\ frames' = Replace([Running EXCEPT !.step = "run"]) \o <<Lua(Len(stack) - 1)>>
  /\ UNCHANGED <<flight, raised, seen, lost, handed, liveArgs, leaked, build>>

(* decode_call_result: the handler is removed, and every value above       *)
(* initialTop is a result. Their number has to fit the wanted type:        *)
(* exactly for void and a tuple of two, at least one for a single value.   *)
HandlerKept(f) == stack
HandlerRemoved(f) == IF f.handler = "valid" THEN RemoveAt(stack, f.base + 1) ELSE stack
Values(f) == SubSeq(HandlerRemoved(f), f.base + 1, Len(HandlerRemoved(f)))
Decode(wants) ==
  /\ Is("call") /\ Running.step = "decode" /\ Running.handler # "raw"
  /\ LET values == Values(Running)
     IN  handed' = CASE wants = Len(values) -> values
                     [] wants = 1 /\ Len(values) = 2 -> <<Head(values)>>
                     [] OTHER -> <<>>                  \* an error code instead
  /\ stack' = Restored(Running.base)
  /\ frames' = Front(frames)
  /\ UNCHANGED <<flight, raised, seen, lost, liveArgs, leaked, build>>

(* luabridge::pcall leaves its results, or the message of the error, to    *)
(* its caller, who takes them off when it likes.                           *)
Keeping(n) ==
  LET caller == frames[Len(frames) - 1]
  IN  Append(SubSeq(frames, 1, Len(frames) - 2), [caller EXCEPT !.kept = @ + n])
PcallReturns ==
  /\ Is("call") /\ Running.step = "decode" /\ Running.handler = "raw"
  /\ handed' = Values(Running)
  /\ frames' = Keeping(Len(stack) - Running.base)
  /\ UNCHANGED <<stack, flight, raised, seen, lost, liveArgs, leaked, build>>
Pop ==
  /\ InCpp /\ Running.kept > 0
  /\ stack' = Down(Len(stack) - Running.kept)
  /\ frames' = Replace([Running EXCEPT !.kept = 0])
  /\ UNCHANGED <<flight, raised, seen, lost, handed, liveArgs, leaked, build>>

(* The call ended with an error. With exceptions enabled and no handler in *)
(* the call, LuaException takes the message; else callWithHandler pops it  *)
(* and pcall leaves it. A handler has seen it, but memory errors do not    *)
(* reach it, and an exception that came through Lua has no message.        *)
Failed == flight.kind \in {"error", "critical", "foreign"}
Told == flight.kind \in {"error", "critical"}
Throws == enabled /\ Running.handler \in {"none", "raw"}
HandlerSaw == flight.kind = "error" /\ Running.handler = "valid"
Left == Running.handler = "raw" /\ ~Throws
CatchCall ==
  /\ Failed /\ Running.kind = "call"
  /\ stack' = IF Left THEN Append(Down(Running.base), "message") ELSE Restored(Running.base)
  /\ frames' = IF Left THEN Keeping(1) ELSE Front(frames)
  /\ flight' = IF Throws THEN [kind |-> "exception", errors |-> IF Told THEN flight.errors ELSE {}]
               ELSE None
  /\ seen' = IF HandlerSaw \/ (Left /\ Told) THEN seen \union flight.errors ELSE seen
  /\ lost' = IF HandlerSaw \/ (Told /\ (Left \/ Throws)) THEN lost ELSE lost \union flight.errors
  /\ UNCHANGED <<raised, handed, liveArgs, leaked, build>>
-----------------------------------------------------------------------------
(* Lua code returns values, raises an error, or calls.                     *)
LuaReturn(n) ==
  /\ Is("lua")
  /\ LET below == frames[Len(frames) - 1]
     IN  IF below.kind = "call"
           THEN /\ frames' = Append(SubSeq(frames, 1, Len(frames) - 2),
                                    [below EXCEPT !.step = "decode"])
                /\ stack' = stack \o Results(n)
           ELSE /\ frames' = SubSeq(frames, 1, Len(frames) - 2)    \* Lua's pcall
                /\ UNCHANGED stack
  /\ UNCHANGED <<flight, raised, seen, lost, handed, liveArgs, leaked, build>>
LuaRaise(kind) ==
  /\ Is("lua") /\ Raise(kind)
  /\ frames' = Front(frames)
  /\ UNCHANGED <<stack, seen, lost, handed, liveArgs, leaked, build>>
LuaPcall ==
  /\ Is("lua") /\ Len(frames) + 1 < MaxFrames
  /\ frames' = frames \o <<Protected(Len(stack)), Lua(Len(stack))>>
  /\ UNCHANGED <<stack, flight, raised, seen, lost, handed, liveArgs, leaked, build>>
CatchPcall ==
  /\ Failed /\ Running.kind = "pcall"
  /\ frames' = Front(frames)
  /\ stack' = Down(Running.base)
  /\ flight' = None
  /\ seen' = IF Told THEN seen \union flight.errors ELSE seen
  /\ lost' = IF Told THEN lost ELSE lost \union flight.errors
  /\ UNCHANGED <<raised, handed, liveArgs, leaked, build>>

CallFunction(args, i) ==
  /\ Is("lua") /\ Room
  /\ frames' = Push(Function(Len(stack), args, i))
  /\ stack' = stack \o Given(args)
  /\ UNCHANGED <<flight, raised, seen, lost, handed, liveArgs, leaked, build>>
CallOverloaded(args, set) ==
  /\ Is("lua") /\ Room
  /\ frames' = Push(Overloaded(Len(stack), args, set))
  /\ stack' = stack \o Given(args) \o <<"functions", "errors">>
  /\ UNCHANGED <<flight, raised, seen, lost, handed, liveArgs, leaked, build>>
-----------------------------------------------------------------------------
(* Self is read before anything else. make_arguments_list reads one        *)
(* argument after the other into storage, and destroys it before it raises *)
(* the error of one that fails. But with exceptions enabled Userdata::get  *)
(* throws when a class is expected, and what was read is left alive.       *)
Takes(f) == Functions[f.entry].takes
Instance(args, takes, k) == k \in DOMAIN args /\ args[k] = takes[k]
Position(f) == f.decoded + 1 + (IF f.step = "decode" THEN Self(f.entry) ELSE 0)
Decoding == Is("function") /\ Running.step \in {"self", "decode"} /\ Position(Running) <= Len(Takes(Running))
Fails(f) ==
  LET k == Position(f)
  IN  ~Instance(f.args, Takes(f), k) \/ f.args[k] \in Loose
GetThrows(f) == enabled /\ Takes(f)[Position(f)] \in Classes
DecodeSelf ==
  /\ Decoding /\ Running.step = "self"
  /\ Instance(Running.args, Takes(Running), 1)
  /\ frames' = Replace([Running EXCEPT !.step = "decode"])
  /\ UNCHANGED <<stack, flight, raised, seen, lost, handed, liveArgs, leaked, build>>
DecodeArg ==
  /\ Decoding /\ Running.step = "decode"
  /\ Instance(Running.args, Takes(Running), Position(Running))
  /\ liveArgs' = liveArgs + 1
  /\ frames' = Replace([Running EXCEPT !.decoded = @ + 1])
  /\ UNCHANGED <<stack, flight, raised, seen, lost, handed, leaked, build>>
StorageKept(f) == liveArgs
StorageDestroyed(f) == liveArgs - f.decoded
DecodeFails ==
  /\ Decoding /\ Fails(Running) /\ ~GetThrows(Running)
  /\ Raise("error")
  /\ liveArgs' = StorageDestroyed(Running)
  /\ frames' = Front(frames)
  /\ UNCHANGED <<stack, seen, lost, handed, leaked, build>>
DecodeThrows ==
  /\ Decoding /\ Fails(Running) /\ GetThrows(Running)
  /\ Raise("exception")
  /\ leaked' = leaked + Running.decoded
  /\ frames' = Replace([Running EXCEPT !.decoded = 0])
  /\ UNCHANGED <<stack, seen, lost, handed, liveArgs, build>>
BeginBody ==
  /\ Is("function") /\ Running.step = "decode" /\ Position(Running) > Len(Takes(Running))
  /\ frames' = Replace([Running EXCEPT !.step = "body"])
  /\ UNCHANGED <<stack, flight, raised, seen, lost, handed, liveArgs, leaked, build>>

(* What a function that returned n results hands over: to Lua, or to       *)
(* try_overload_functions, which returns all above its two tables.         *)
Above(f) == Len(f.args) + 2
Answer(n) ==
  LET below == frames[Len(frames) - 1]
      results == Down(Running.base) \o Results(n)
  IN  IF below.kind = "overloads"
        THEN /\ frames' = SubSeq(frames, 1, Len(frames) - 2)
             /\ handed' = SubSeq(results, below.base + Above(below) + 1, Len(results))
             /\ stack' = Down(below.base)
        ELSE /\ frames' = Front(frames)
             /\ handed' = Results(n)
             /\ stack' = Down(Running.base)

(* The body returns: its arguments go, and its results are pushed, unless  *)
(* one does not convert, or there is no memory for it. A body that throws  *)
(* loses its arguments to the unwinding, and function::call raises what    *)
(* the exception says, if it is a std::exception.                          *)
Body == Is("function") /\ Running.step = "body"
BodyReturn(n) ==
  /\ Body /\ Answer(n)
  /\ liveArgs' = StorageDestroyed(Running)
  /\ UNCHANGED <<flight, raised, seen, lost, leaked, build>>
ResultFails(kind) ==
  /\ Body /\ Raise(kind)
  /\ liveArgs' = StorageDestroyed(Running)
  /\ frames' = Front(frames)
  /\ UNCHANGED <<stack, seen, lost, handed, leaked, build>>
BodyThrows(kind) ==
  /\ Body /\ Raise(kind)
  /\ UNCHANGED <<frames, stack, seen, lost, handed, liveArgs, leaked, build>>
HasNoTry(f) == FALSE
HasTry(f) == Entry(f.entry) = "function" \/ (Entry(f.entry) = "member" /\ f.step # "self")
Thrown == flight.kind \in {"exception", "alien"}
Caught == flight.kind = "exception" /\ HasTry(Running)
CatchException ==
  /\ Thrown /\ Running.kind = "function" /\ Caught
  /\ flight' = [flight EXCEPT !.kind = "error"]
  /\ liveArgs' = StorageDestroyed(Running)
  /\ frames' = Front(frames)
  /\ UNCHANGED <<stack, raised, seen, lost, handed, leaked, build>>
CatchInProgram ==
  /\ Thrown /\ Running.kind = "program"
  /\ flight' = None
  /\ seen' = seen \union flight.errors
  /\ UNCHANGED <<frames, stack, raised, lost, handed, liveArgs, leaked, build>>

(* What is not caught goes into Lua. Compiled as C++ Lua takes it for a    *)
(* failure without a message; compiled as C it has no way to be passed.    *)
ExceptionEscapes ==
  /\ Thrown /\ Running.kind = "function" /\ ~Caught
  /\ flight' = [flight EXCEPT !.kind = IF cxx THEN "foreign" ELSE "undefined"]
  /\ liveArgs' = StorageDestroyed(Running)
  /\ frames' = Front(frames)
  /\ UNCHANGED <<stack, raised, seen, lost, handed, leaked, build>>

(* An error passes Lua code, which has no frame left to keep.              *)
Unwind ==
  /\ Failed /\ Running.kind = "lua"
  /\ frames' = Front(frames)
  /\ UNCHANGED <<stack, flight, raised, seen, lost, handed, liveArgs, leaked, build>>
-----------------------------------------------------------------------------
(* try_overload_functions: the next overload is skipped when the number or *)
(* the types of the arguments do not match, or else called; its error is   *)
(* put aside, and the last one is followed by an error with all of them.   *)
Matches(args, i) ==
  \/ Functions[i].arity = Variadic
  \/ /\ Functions[i].arity + Object(i) = Len(args)
     /\ \A k \in Object(i) + 1..Len(args) : Instance(args, Functions[i].takes, k)
Trying == Is("overloads") /\ Running.next <= Len(Running.set)
Candidate == Running.set[Running.next]
Overwriting(f, errors) == [f EXCEPT !.next = @ + 1, !.messages = <<errors>>]
WithMessage(f, errors) == [f EXCEPT !.next = @ + 1, !.messages = Append(@, errors)]
OverloadSkip ==
  /\ Trying /\ ~Matches(Running.args, Candidate)
  /\ frames' = Replace(WithMessage(Running, {}))
  /\ UNCHANGED <<stack, flight, raised, seen, lost, handed, liveArgs, leaked, build>>
OverloadTry ==
  /\ Trying /\ Room /\ Matches(Running.args, Candidate)
  /\ frames' = Push(Function(Len(stack), Running.args, Candidate))
  /\ stack' = stack \o Given(Running.args)
  /\ UNCHANGED <<flight, raised, seen, lost, handed, liveArgs, leaked, build>>
OverloadError ==
  /\ flight.kind = "error" /\ Running.kind = "overloads"
  /\ frames' = Replace(WithMessage(Running, flight.errors))
  /\ stack' = Down(Running.base + Above(Running))
  /\ flight' = None
  /\ UNCHANGED <<raised, seen, lost, handed, liveArgs, leaked, build>>
OverloadCritical ==
  /\ flight.kind = "critical" /\ Running.kind = "overloads"
  /\ frames' = Front(frames)
  /\ UNCHANGED <<stack, flight, raised, seen, lost, handed, liveArgs, leaked, build>>
(* The error of a failure without a message is what lies on the stack.    *)
OverloadForeign ==
  /\ flight.kind = "foreign" /\ Running.kind = "overloads"
  /\ frames' = Front(frames)
  /\ flight' = [kind |-> "error", errors |-> {}]
  /\ lost' = lost \union flight.errors
  /\ UNCHANGED <<stack, raised, seen, handed, liveArgs, leaked, build>>
OverloadsExhausted ==
  /\ Is("overloads") /\ Running.next > Len(Running.set) /\ raised < MaxErrors
  /\ raised' = raised + 1
  /\ flight' = [kind |-> "error", errors |-> {raised + 1} \union UNION Range(Running.messages)]
  /\ frames' = Front(frames)
  /\ UNCHANGED <<stack, seen, lost, handed, liveArgs, leaked, build>>

Unwinding == CatchCall \/ CatchPcall \/ CatchException \/ CatchInProgram \/ ExceptionEscapes
             \/ Unwind \/ OverloadError \/ OverloadCritical \/ OverloadForeign
Next ==
  \/ \E handler \in {"none", "null", "valid", "raw"} : BeginCall(handler)
  \/ PushFails \/ CallThrows \/ Enter \/ PcallReturns \/ Pop
  \/ \E n \in 0..2 : LuaReturn(n) \/ BodyReturn(n) \/ Decode(n)
  \/ \E kind \in {"error", "critical"} : LuaRaise(kind) \/ ResultFails(kind)
  \/ LuaPcall
  \/ \E args \in Arguments : \/ \E set \in Sets : CallOverloaded(args, set)
                             \/ \E i \in DOMAIN Functions : CallFunction(args, i)
  \/ DecodeSelf \/ DecodeArg \/ DecodeFails \/ DecodeThrows \/ BeginBody
  \/ \E kind \in {"exception", "alien"} : BodyThrows(kind)
  \/ OverloadSkip \/ OverloadTry \/ OverloadsExhausted
  \/ Unwinding

Spec == Init /\ [][Next]_vars
FairSpec == Spec /\ WF_vars(Unwinding)
-----------------------------------------------------------------------------
(* What a frame that waits for the one above it, or runs C++ code, has on  *)
(* the stack.                                                              *)
Held(f) == CASE f.kind = "program" -> f.kept
             [] f.kind = "call" -> Len(Pushed(f.handler))
             [] f.kind = "function" -> Len(f.args) + f.kept
             [] f.kind = "overloads" -> Above(f)
             [] OTHER -> 0

(* Whatever returned, failed or threw inside, C++ code finds on the stack  *)
(* what it left there and what luabridge::pcall kept for it, and so does   *)
(* every call that still waits (StackRestore in callWithHandler,           *)
(* Invoke.h:103; pcall, Invoke.h:213, has none).                           *)
StackRestored ==
  /\ \A k \in 1..Len(frames) - 1 : frames[k + 1].base = frames[k].base + Held(frames[k])
  /\ InCpp \/ Is("overloads") => Len(stack) = Running.base + Held(Running)

(* The values handed over are results and nothing else: no handler, no     *)
(* table of functions or errors (decode_call_result, and the count that    *)
(* try_overload_functions returns, CFunctions.h:2321).                     *)
ResultsOnly == handed \in {Results(n) : n \in 0..2}

(* No error vanishes: each is unwinding, put aside by an overloaded call,  *)
(* known to someone, or given as a code. Only an overloaded call that ends *)
(* before it tried everything, with results or a critical error, may drop  *)
(* what it put aside (CFunctions.h:2330).                                  *)
Aside(k) == IF frames[k].kind = "overloads" THEN UNION Range(frames[k].messages) ELSE {}
Pending == flight.errors \union UNION {Aside(k) : k \in DOMAIN frames}
NoErrorVanishes ==
  [][\A e \in 1..raised : e \in Pending \union seen \union lost
       => \/ e \in (Pending \union seen \union lost)'
          \/ \E k \in DOMAIN frames : /\ e \in Aside(k) /\ Len(frames') < k
                                       /\ \/ flight'.kind \in {"none", "critical"}
                                          \/ flight.kind = "foreign"]_vars

(* Decoded arguments live exactly as long as the frames that decoded them, *)
(* also when an argument fails, a body throws, or an error passes          *)
(* (ArgStorage, CFunctions.h:47). Only when exceptions are enabled may     *)
(* some be left alive for ever: those already in storage when the class    *)
(* expected of the next one is not what Lua passed (Userdata.h:138).       *)
Decoded(f) == IF f.kind = "function" THEN f.decoded ELSE 0
Owned(fs) == LET sum[k \in 0..Len(fs)] == IF k = 0 THEN 0 ELSE sum[k - 1] + Decoded(fs[k])
             IN  sum[Len(fs)]
ArgumentsOwned == liveArgs = Owned(frames) + leaked /\ (leaked > 0 => enabled)

(* An error or exception always comes to rest, with no frame that it       *)
(* passed left behind, unless Lua was compiled as C and an exception went  *)
(* into it. That happens only where LuaBridge has no try (self, variables, *)
(* lua_CFunctions) or no catch (what is not a std::exception).             *)
Unguarded(f) == Entry(f.entry) = "bare" \/ f.step = "self"
FlightsLand ==
  /\ flight # None ~> flight = None \/ (flight.kind = "undefined" /\ ~cxx)
  /\ [][flight.kind # flight'.kind /\ flight'.kind \in {"foreign", "undefined"}
          => flight.kind = "alien" \/ Unguarded(Running)]_vars

=============================================================================
