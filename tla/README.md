# LuaBridge3 in TLA+

LuaBridge3 is a header-only library that binds C++ to Lua. A program registers
classes, functions and properties; Lua scripts then call them, keep objects
alive, extend classes and resume C++20 coroutines. Nothing here runs in
parallel: C++ and Lua take turns on one OS thread. What is hard is the order of
things. Registration calls, scripts, the garbage collector and exceptions come in
any order, and the library keeps all its state in Lua tables, userdata and
stacks that a later call reads with raw pointers.

All line numbers refer to the headers under `src/Source/LuaBridge`.

## Inventory

| Component | State | Operations | Hard behaviour | What makes it right |
|---|---|---|---|---|
| Class registration (`Namespace.h`: `ClassBase`, `Class`, `beginClass`, `deriveClass`) | three metatables per class, parent lists, cast tables, registry entries | open, derive, close | a loop over several bases that throws halfway; diamonds; bases named twice | casts agree with the C++ layout; lists have no duplicates; a failed derivation is invisible |
| Type check (`Userdata.h`: `getClass`, `get`, `isInstance`) | none of its own: metatable of a userdata | check a type and constness, adjust the pointer | stale or missing entries of the tables above | no wrong pointer, no const object passed as mutable |
| Members and metamethods (`CFunctions.h`: `__index`, `__newindex`, extensible classes) | fields, `propget`/`propset` tables, fallbacks, `super_` entries | register members and fallbacks, read, write, override from Lua | registration in any order; two implementations of lookup (simple and full) | fixed priority; overriding keeps what it replaces and does not leak into other classes |
| Object lifetime (`Userdata.h`, constructors, factories, `__gc`) | userdata of four kinds, `m_p`, reference counts | construct, push, share, collect, hook | throwing constructors, unregistered classes, containers that travel both ways, hooks | each object destroyed once, by its last owner, and in the end |
| Coroutines (`Coroutine.h`) | a frame on a Lua thread's stack, a promise | enter, resume, yield, return, throw, await, abandon | nested threads, failed conversions, collection between resumes | no resume of a finished body, values in order, no leak |
| References (`LuaRef.h`: `LuaRef`, `TableItem`) | registry slots owned by C++ objects | create, copy, move, index, assign, release | chained proxies that share and adopt slots; self-assignment | one owner for each slot, none released twice or kept |
| Function calls and overloads (`CFunctions.h`, `Overload.h`) | arguments on the stack and in raw storage, list of overloads | decode, call, push the result, try the next | errors of one overload after side effects; exceptions into Lua errors | the first overload that fits is called; the stack holds the result alone |
| Registration chain (`Registrar`, `Namespace`, `Table`) | the Lua stack, counters of what each registrar owns | begin, end, move, unwind | chains that are interrupted or continued from a moved-from object | the stack ends where it began |
| Stack conversions (`Stack.h`, containers, `Converter.h`) | the Lua stack, registered converters and pushes of `std::any` | push, get, isInstance | integer ranges; failure at one element; a stack that is almost full; nested traversals | no truncation; stack restored; what was pushed is what is got |
| Calls into Lua (`Invoke.h`, `LuaException.h`) | the Lua stack, whether exceptions are enabled | pcall with and without handler, decode the results | error paths nested in each other | stack restored, every error reaches someone |
| Results (`Expected.h`) | a union of value and error | assign, swap, emplace | exceptions between destruction and construction | always one member alive |
| Iteration, option sets | small | | | used by the components above |

They meet in Lua's tables and stacks. Registration writes the metatables that the
type check and the metamethods read. Constructors, factories and pushes create
userdata with these metatables. The metamethods call functions that decode
their arguments with the type check. A member coroutine keeps a pointer from the
type check across suspensions. `LuaRef` pins values of all kinds.

## Modules

| Module | Models |
|---|---|
| `ClassHierarchy` | what registration promises: classes become known in one step, with the ancestors of their bases |
| `ClassRegistry` | `beginClass`, `deriveClass` with its loop step by step, `appendParentList`, the cast table, and the type check |
| `ClassRegistryProofs` | theorems about `ClassRegistry` and `ClassDispatch` |
| `ClassDispatch` | extends `ClassRegistry` with members, lookup, writes and overriding by scripts |
| `Ownership` | what the library promises about lifetime: one destruction, by the last owner |
| `ObjectLifetime` | the userdata kinds, what fills and empties them |
| `ObjectLifetimeProofs` | theorems about `ObjectLifetime` |
| `ReferenceValues` | what references promise: each stands for a value, each proxy for a place, and no operation disturbs another object |
| `RegistryReferences` | `LuaRef` and `TableItem` over the slots of the registry |
| `RegistryReferencesProofs` | theorems about `RegistryReferences` |
| `CoroutineFrames` | coroutine calls on Lua threads that resume each other |
| `CoroutineFramesProofs` | theorems about `CoroutineFrames` |
| `RegistrationChain` | `Namespace`, `Class` and `Table` objects that share one Lua stack |
| `RegistrationChainProofs` | theorems about `RegistrationChain` |
| `FunctionCalls` | calls from C++ into Lua and from Lua into C++, nested, with overloads, errors and exceptions |
| `FunctionCallsProofs` | theorems about `FunctionCalls` |
| `IntegerConversions` | the integer types, their casts and the tests of representability |
| `StackConversions` | extends `IntegerConversions` with `push`, `get` and `isInstance` of all types and containers over one stack, an element at a time |
| `ConversionChecks` | what arrives of a pushed value: for TLC only |
| `ConversionProofs` | theorems about `IntegerConversions` and `StackConversions` |
| `Outcomes` | what results promise: each is a value or an error and stays what it was made |
| `ExpectedResults` | `Expected` as a flag and a storage, with constructors that throw |
| `ExpectedResultsProofs` | theorems about `ExpectedResults` |
| `MC...` | instances of the above for TLC |

### ClassRegistry

A class has a const table `co`, a class table `cl` and the metatable `st` of its
static table; `<<c, k>>` names one. `registered` is the registry entries,
`bound` the names in the namespace, `parentList` and `cast` the lists and offset
tables stored in the metatables, `fast` the tables that carry the simple
metamethods. The layout of the C++ classes is the constant `Subobject`: the
pairs of class and byte offset that a class contains. `computeCastOffset` is
compiled only for a base that occurs once, which is `BaseListsAssumption`.

`deriveClass` (Namespace.h:512-675) is `DeriveOpen`, then for each base
`DeriveBase` (or `DeriveFail`, the exception) followed by one `AppendUnique` for
each class that the base brings, then `DeriveFinish`. The C++ call is not
interrupted, so no other operation is enabled meanwhile; the steps exist because
the exception leaves everything done up to then. `pending` is what
`appendParentList` has still to append; `clParents` and `castTable` are the
tables the loop builds.

Reopening a class of a bound name only fetches its tables and changes nothing,
so it is not an action.

### ClassDispatch

`field[t][k]` is a raw entry of a table under a plain or a `super_` key;
`propget` and `propset` say which getters and setters exist, `answers` and
`catches` which tables have an `__index` or `__newindex` fallback. `<<c, "vst">>`
is the table bound to the class name, in front of its metatable `st`. A value is
its kind and the class it came from.

The metamethods are sequences of *sources*: `IndexObject`, `IndexStatic`,
`SimpleObject`, `SimpleStatic`, `NewIndex` list them in the order the code asks,
and `FirstHit` is the answer. `options.test(...)` of `FlagSet` is true if *any*
bit is set, which decides two of the guards (`OverridingFirst`,
`SearchesExtension`). Every registration call is an action; `addPropertyReadWrite`
and the like store the same entries as the call they delegate to. The writes of
scripts are the raw write on the class's own table and
`try_call_newindex_extensible` (CFunctions.h:1022-1205) for functions
(`ExtendFunction`) and other values (`ExtendData`).

### ObjectLifetime

Places in memory (`Object`) where one object may live, and userdata slots
(`Handle`). The kinds are `value` (`UserdataValue`), `pointer` (`UserdataPtr`),
`external` (`UserdataValueExternal`, from a factory) and `shared`
(`UserdataShared`); a `block` is what remains on the stack of a push whose class
is not registered. `ptr` is `m_p`: it is set when a value is committed, so a
value whose constructor is running, or threw, has none. A constructor that a script
called and that throws becomes a Lua error, which takes the userdata off the stack
(`ConstructorThrows`); the copy of a push by value is under no catch (Userdata.h:459,
484), and the userdata stays within reach, empty (`PushThrows`). C++ may create, copy,
release and push objects at any time, also while a constructor or the hook runs.
It keeps one rule of the documentation: never delete an object that Lua refers
to by pointer. `BeginCollect` and `EndCollect` are `gc_metamethod` before and after the hook of
`addDestructor`; in between the hook may push, copy or share the object.

### CoroutineFrames

`chain` is the stack of running threads: each was resumed by the one before it,
from Lua or by `LuaCoroutine` in a body. `stack[t]` is the Lua stack of the
call of a coroutine function: one argument, the frame, and whatever a resume or a
`co_yield` puts above; `SetTop` and the top of the stack are the Lua API, so
what a resumer gets is what is really on top. A step goes from a resume into
the body or from the body to whoever resumed. `coro[f]` is the C++ coroutine;
`"broken"` is undefined behaviour: a resume of a body that is not suspended, or
a destruction of one that runs.

### RegistryReferences

`registry[n]` is the value in a slot of the registry, or `Free`; `index[m]` is
what a member of a C++ object holds: the index of a slot, `LUA_NOREF`,
`LUA_REFNIL` or, for a key member, a string literal, which needs no slot. A
`LuaRef` has one member; a `TableItem` has the table, the key and the parent key.
`m_ownsTableRef` is false exactly where `m_tableRef` is `LUA_NOREF` and nothing
is left to own, so it has no variable.

An operation of C++ makes several calls of `luaL_ref` and `luaL_unref` in a
fixed order, and that order decides which slot is used again. The operators
`Acquire`, `Release`, `Take` and `Swap` are these calls and member moves, on a
pair of registry and members; each action composes them as the code does.
Copy-and-swap goes through the members of `Tmp`, the local variable of the C++
function. A variable that does not exist, or was moved from, holds `LUA_NOREF`
in all members, so constructors and assignments are one action where they do the same.

A temporary proxy is an `Item` like a named one: `t[a][b]` with a temporary
`t[a]` is `Chain`, with a named one `Child`. Indexing something that is no table
raises a Lua error before anything has changed; such a step is not enabled.

`ReferenceValues` knows nothing of slots: a reference is a value and a proxy a
place, the root table and one or two keys. `ImplementsValues` maps each object to
what a program can see of it.

### RegistrationChain

`stack` is the Lua stack, whose entries are tables of `heap`; `obj[o]` is a C++
variable or temporary with its `m_stackSize` and `m_skipStackPops`, `alive` the
order of construction, the reverse of which is the order of destruction. `Move`
is the move constructor or assignment by which every begin and end call hands
its count to the object it returns. `Innermost(o)` is the precondition that the
code asserts ("The parent namespace is at the top of the Lua stack"): the program
uses the object whose tables are on top, and never moves into an object that
counts entries, which the move assignment would forget. Member functions store by
index from the top (`Register`), whatever lies there. `DeriveClassThrows` is the
exception for a base that is not registered: the half-built `Class` owns the
counts by then, and pops them all. A namespace opened on a table of the stack gets
new, empty `propget` and `propset` tables each time (Namespace.h:1696-1700), which
forgets the properties registered in it before.

### FunctionCalls

`frames` is the call stack over both languages; `stack` the Lua stack, as what
its entries are for; `flight` what is unwinding, with the set of original errors its
message tells of:

* `error`, or `critical`: a Lua error, or one of memory, whose `lua_pcall` status is
  neither `LUA_OK` nor `LUA_ERRRUN`;
* `exception`, `alien`: a C++ exception that is a `std::exception`, or is not;
* `foreign`: one of them that went through Lua compiled as C++, which takes it for a
  failure without a message;
* `undefined`: one that went into Lua compiled as C, where nothing further is said.

`cxx` says how Lua was compiled and `enabled` whether `enableExceptions` was called; both
are open at the start.

A `"call"` frame is `callWithHandler`, or `luabridge::pcall` (handler `"raw"`), with the
steps push, run and decode. `callWithHandler` restores the stack however it ends.
`luabridge::pcall` does not (Invoke.h:213-223): it leaves its results (`PcallReturns`), or the
message if no exception is thrown (`Left`), to the C++ code that called it, which counts them as
`kept` and takes them off when it likes (`Pop`).

A `"function"` frame is a C++ function called from Lua, with its arguments decoded one by
one and then its body. Which `push_*` it was given to and its form decide how it is called
(`Entry`): through `function::call` and its try (`"function"`); after self was read
outside of the try (`"member"`, CFunctions.h:1643, 1731, 1992-2032); or without any try
(`"bare"`: variables, CFunctions.h:1618 and 1704, and a `lua_CFunction` unless
`LUABRIDGE_SAFE_LUA_C_EXCEPTION_HANDLING` is set, which the constant `SafeCFunctions`
stands for). `HasTry` is what follows. An `"overloads"` frame is `try_overload_functions`.
Lua code calls, raises, returns or protects at will. A step of unwinding takes one frame.

`liveArgs` counts decoded arguments by their construction and destruction, which the
frames cannot know: that the two agree is `ArgumentsOwned`. An argument that does not convert
is an error, raised after the storage was emptied (`DecodeFails`), or, if a class is expected
and exceptions are enabled, an exception of `Userdata::get` that passes the storage by
(`DecodeThrows`): what was in it is `leaked`. `Loose` are types whose `isInstance`
accepts what `get` may refuse. Exceptions of the library's own allocations are not modelled.

### IntegerConversions and StackConversions

A width is half the number of its values, so that a proof can leave it open;
`Cast` wraps; `Representable` is the code's tests with the casts they contain. The
`__int128` conversions (Stack.h:691-773) are in `#if 0` and left out. A
Lua value is a kind and its data, numbers counted in halves so that some have no
integral value. A type is the sequence of a constructor and its parameters, so
that containers nest. `Integral` is `tointeger`: a number without fraction that a Lua
integer can hold. A floating type has a limit and the value up to which it holds halves:
`long double` holds more than a `lua_Number`, so that its push rounds (`CastFloating`,
Stack.h:872).

A class is asked for in four ways (`Ways`): by value or reference, by `T*`, by `const T*`,
and by value with a `StackConversion`, where an object of another class is converted by
what its own class has registered. An object has a class, a constness, and may point to
nothing, as a push by value whose copy threw leaves it. `T*` alone refuses const objects
(Userdata.h:1121); pointers take null objects and nil, values do not; each takes objects
of derived classes (`Bases`). What does not fit is told (`Told`) by an error code, by an
exception if they are enabled, or, where a value was expected and there is none, by a Lua
error (Userdata.h:132-140 and after); the latter two leave the calls that wait by `Leave`,
which restores what a visited table has on the stack.

The conversion of an element is a call of its own, so that a step ends where the code
calls another `Stack<T>` or returns from one. `now` is the call that begins or the result
of the last one; `calls` are those that wait, from the outermost inward: a container being
filled or visited, a variant trying its alternatives, an optional. The height of the stack
when a call began (`base`) is what its `StackRestore` knows; nothing else is undone. A
container is pushed by `Build`, then for each entry `Fill`, `FillKeyed` and `Store`, up to
`Filled` or `FillFailed`. It is got by `GetTable`, then for each entry `Visit` and
`VisitGot`, up to `VisitComplete` or `VisitFailed`. `lua_next` finds its
place by the key that is on the stack (`After`). `Layouts` gives tables in the hash
part another order. A nil key raises a Lua error, as `lua_settable` does. A
precondition kept out: an array is read from a table with no more entries than its
length, since `Array.h` writes beyond it otherwise.

`isInstance` reads only the type of a value, so it is a predicate: what a type accepts
itself (`Accepts`) and when it asks its `Parts`, the alternatives of a variant or what an
optional, an `Expected` or a pointer stands for. It disagrees with `get` for tables, whose
elements it does not look at, and where `Loose` says so: an enum accepts every number and
`get` only its values; `T*` accepts a const object, and a value an object that points to
nothing; and a variant one of whose alternatives throws or raises never tries the next one
(Variant.h:42; nil for a class alternative is enough). `CheckedConverts` states these as
exceptions, at any depth of nesting, and holds for everything else, with exceptions
enabled and without. `RoundTrip` has its own (`Faithful`), among them floating values
finer than a `lua_Number`.

### ExpectedResults

`box[h]` is one `Expected`: `valid_`, the object in its storage or `Gone`, a count of
objects constructed there and not destroyed, and how many of these lie under another. The
parameters of the template are the variable `type`, chosen at the start: trivially
destructible or not, with a default constructor or not, and which constructors throw.
`construct` sets the flag and then constructs, assignments destroy first. The copy, move
and converting constructors do not name their storage, so that it makes a default value if
`T` has one (Expected.h:177-180), and construct over it: `Base` is what they start from. A
copy or move whose constructor throws leaks that value too, with no `Expected` left to
count it.

`fault` records what has no next step: an exception that leaves a `noexcept` function,
the use of storage without its object, an assignment of a result with a destructor to
itself, which reads what it destroyed (Expected.h:1178-1204 do not test), and an `operator->`
of an error or `error()` of a value, which are not checked. `Outcomes` knows neither flag nor
storage; there an exception may spoil the result it was assigned to and no other.

## Runs

| Run | Instance | Shows |
|---|---|---|
| `registry` | six classes: a diamond, and a class that names a base also found inside another | `PointerSound`, `ConstRespected`, `ListedOnceWithCast`, and that the loop implements `ClassHierarchy` |
| `members` | three classes, one plain and one metamethod name, three operations of C++ or scripts | `NearestMemberWins`, `SettersFirst`, `FastIsFull`, `ProtectedMethods`, `OverrideKeepsSuper` |
| `lifetime` | two objects, two userdata, two containers in C++ for each object; constructors and copies that throw | `NoVainDestructor`, `ReachableObjectAlive`, `GarbageIsDestroyed`, and that the userdata implement `Ownership` |
| `references` | two references, two proxies, two tables, a literal key and one that takes a slot | `OneOwner`, `ChainIsChild`, and that the slots implement `ReferenceValues` |
| `coroutines` | the main thread and two others, three frames, two values for each | `NeverBroken`, `BodiesNest`, `ValuesInOrder`, `ArgumentAnchored`, `AbandonedIsDestroyed` |
| `chain` | two registration objects, two classes, one other name, seven tables | `StackBalanced`, `ChainsOnTheirTables`, `ReopenedIsSame` |
| `calls` | frames six deep, two errors; a function, a member function, a variable and a `lua_CFunction`, two sets of overloads; three argument types, one of them a class | `StackRestored`, `ResultsOnly`, `ArgumentsOwned`, `NoErrorVanishes`, `FlightsLand` |
| `conversions` | all types, widths of 1 to 5 bits, two classes in every way, four stack slots | `RoundTrip`, `IntegersArrive`, `CheckedConverts`, `PushIsWhole`, `GetReadsOnly` |
| `results` | three results, two values, one error, types of every kind | `HoldsWhatItSays`, `SafeWithoutThrow`, `Balanced`, and that flag and storage implement `Outcomes` |
| `hook_null`, `proxy_assign`, `frame_leak` | as above, smaller | disagreements with the documentation, below |

### Bounds

* `registry` has no bound: the instance is finite. Two paths to one class, with
  both orders of naming, is what makes flattening and composing offsets hard.
* `MaxOps` limits member operations. A wrong priority needs two competing
  definitions and one fallback; a wrong override needs a registration, a write
  and one more. Three classes give a parent that is reached directly and through another one.
  `MCWorlds` splits the behaviours in two, because together they are too many: in one
  world no class has options and both names are used; in the other every class but
  one has options, and the metamethod name is not registered. Each property
  speaks of one class hierarchy at a time, and both kinds occur in each world.
* `MaxHolders` limits the containers C++ has of one object: two, so that one is
  released while another lives. Two userdata let a pointer and a shared userdata
  of one object live together, and one be built while the other is collected;
  handles and places are used again.
* `MaxValues` limits what a body yields: two, so that a resume follows a
  yield and a value follows a resume. Three frames let a body wait for a thread
  with a body of its own, and a thread call one coroutine after another.

* `references`: `Slot` is what the members of two references, two proxies and one
  temporary can hold at once, so that the bound is never what stops an operation (`Room`).
  Two proxies are enough to copy, adopt and chain; a third level, which looks up the
  second, is `Child` of a chained proxy. `MaxFields` limits the fields of all tables to
  two, which is one nested element with a sibling.
* `chain`: two objects, so that one is moved into the other, or both are alive and
  nested. `MaxDepth` of five is a class in a namespace in the global one, and
  `MaxTables` of seven two classes besides the global table, or a class, a namespace
  and a table. One member shows where members go, since each is stored by the same
  indices; more would only multiply the states.
* `calls`: six frames are the program, a call, Lua code, an overloaded function, an
  overload and a call from its body, or a call in a call. Two errors are one that
  is put aside while another is raised, or one in the body that handles another.
  `MaxKept` of 0 lets a function call `luabridge::pcall` while nothing of an earlier one
  is left on its stack: what several leave adds up in the same way. `SafeCFunctions` is
  FALSE, the default of the macro; the functions have one of each `Entry`.
* `conversions`: `Capacity` is 4 slots with up to three values already there, so that each
  push fails at every depth of its own, and the elements of a container see each limit
  too; two of the values (`Below`) are the caller's. The widths are those of a build whose
  `lua_Integer` is an `int`: 1 bit for `char`, 2 for `short`, 4 for `int`, `long` and Lua,
  5 for `long long`: narrower, equal and wider types, signed and unsigned. Theorems cover
  all widths. Of the two classes one is derived from the other and convertible to it;
  objects of both occur, const and null ones too. Scripts pass nested tables, tables with
  other keys and out of order.
* `results`: three handles, so that a copy of the one swapped remains; values and the
  error are told apart by the properties, and two values suffice for a swap of values.

### Symmetry and view

`references` uses the symmetry of references, proxies and tables, which no definition
tells apart, and a view that leaves out the numbers of slots: `RefView` keeps
which members share a slot and what is in it, and no definition depends on which number a
slot has beyond taking a free one. `chain` uses the symmetry of classes and `results`
that of handles, with the same reason. None of the three checks liveness. The other
runs use neither.

### Fairness

* `lifetime`: weak fairness of `EndCollect`, since the hook is a function that
  returns, and strong fairness of `BeginCollect(h)`: Lua finalizes each userdata
  it finds dead, one after another, in a later cycle or in `lua_close`. Strong,
  because a finalizer that runs disables the others meanwhile. C++ and scripts
  have none: they may stop at any time.
* `coroutines`: weak fairness of `Collect(f)`, for the same reason.
* `calls`: weak fairness of `Unwinding`. Between the throw and the catch no user
  code runs; unwinding is steps of the C++ runtime and of Lua, which end. User code
  that returns, raises or calls has no fairness.

### Disagreements

Each is a run that must find a violation.

* `hook_null` — the hook of `addDestructor` is called with a null pointer when a
  constructor threw.
* `proxy_assign` — `v[3] = v[1]` assigns a temporary proxy to another one. That is
  the move assignment (LuaRef.h:869), which makes the left proxy stand for the
  other element; the table keeps its old field, while table-proxies.md:12 shows
  this line with the comment that it assigns.
* `frame_leak` — a coroutine that ran to its end is never destroyed:
  `final_suspend` suspends, and the frame's destructor skips coroutines that are
  `done()`.

Met while modelling, without a run:

* Namespace.h:472 says `co [staticKey] = st`, but at that point index -3 is `cl`:
  const instances do not reach static members, against CHANGES.md:81.
* The any-bit test at CFunctions.h:615 makes the `__index` fallback of a merely
  extensible class win over registered properties, against the comments at 607 and 764.
* Without `allowOverridingMethods` a script can replace a static C++ function
  (extending-classes.md:39 says it cannot): `process_metatable`, CFunctions.h:1052,
  looks in the class table, and static functions are in the static one.
* After "Base class is not registered" the name stays bound; `beginClass` on it
  fails the assertion at Namespace.h:493. A retry in another namespace succeeds and
  then shares tables with the first name.
* The move assignment of `Registrar` (Namespace.h:84) over an object that still counts
  entries forgets them: they stay on the stack.
* A moved-from registrar throws in the calls that begin something, but `addFunction`
  through it writes into whatever is on top.
* `beginTable` (Namespace.h:1601) always makes a new table, while the comment at 2048
  speaks of "a new or existing table". A table made so and opened by
  `beginNamespace` has no `propget`, and `addProperty` fails.
* calling-lua.md:128 says that the result of a failed call carries the message;
  without exceptions `callWithHandler` returns a code and pops the message, which
  only a handler sees. calling-lua.md:105 says that an argument which does not convert
  throws; the call returns an error.
* A handler that is an empty `std::function` or a null pointer counts as one at compile
  time: no `LuaException` is thrown and nobody sees the message.
* `call<void>` gives an error if the function returned a value.
* An error of an overload that is not `LUA_ERRRUN` discards the messages collected so far,
  and what an overload did before it failed stays done.
* `overload_type_checker` asks `isInstance`, so an argument that only a
  registered converter accepts never selects an overload. `isInstance` of an enum
  accepts every number and that of a container every table.
* For an unsigned type wider than a Lua integer `get` accepts negative integers and
  returns another number (`NegativeAccepted`): `unsigned long long` where Lua's integers
  are 32 bit.
* CFunctions.h:107-110 promises that every decoded argument is destroyed before an error
  leaves. With exceptions enabled `Userdata::get` throws instead (Userdata.h:138), and the
  arguments before it are never destroyed, since `ArgStorage` has no destructor;
  `ArgumentsOwned` counts them as leaked.
* An exception of a function that has no try, or one that is no `std::exception`, goes
  into Lua (`FlightsLand` says where): the `try` of member functions begins after self is
  read, and getters and setters of variables have none.
* `isInstance` of `T*` accepts a const object that `get` refuses (Userdata.h:1115-1124),
  and with exceptions enabled a variant of classes throws at the first alternative that
  does not fit (Variant.h:42), so that an overload chosen by `isInstance` may fail while
  another fits. nil for a variant with a class alternative raises an error before
  `std::monostate` is tried.
* A push by value whose copy throws leaves a userdata with a metatable and no object on
  the stack.
* `nil` elements of a vector of `std::optional` make no entry in the table and are lost, while
  lua-stack.md:308 says of all containers that they map to a table "and back".
* `Iterator` asks `lua_checkstack` for two slots and uses three.
* `Expected`: assignment destroys, sets the flag and then constructs, so that a
  constructor that throws leaves an object which the destructor destroys again (`fault`
  `"undefined"`; `SafeWithoutThrow` tells exactly when). The copy, move and converting
  constructors construct over a default `T` that is never destroyed (`under`, which
  `Balanced` counts). Assignment to itself reads the destroyed object (`"self-assigned"`),
  and `operator->` and `error()` are not checked (`"unchecked"`): both are undefined
  without any exception. `value()` of an error moves the error into the exception.
  `Expected<void, E>` does not compile.
* `TypeResult::error()` and `message()` of a value read the wrong member of
  the union without a check (api-reference/index.md:352).
* A value that is no function, written through an instance, goes to the last
  parent even when the class's own table has the key (CFunctions.h:1163), while
  the comment at 1031 speaks of the nearest table.
* When both a class and a parent have a C function `f`, `super_f` ends as the parent's.
* `C.f = 5` followed by `function C:f()` writes raw into the class's own table, where
  instances do not look.
* The simple metamethods look at properties before functions of the same name and
  answer a property named like a metamethod; the full ones do neither.
  `FastIsFull` therefore leaves out these names.
* `visibleMetatables` alone turns the search of extension tables on, and
  `allowOverridingMethods` alone that of the class's own. The full metamethods then look in
  the other table of the class: a const object finds methods that are not const, and data
  that scripts stored through a derived class. The simple metamethods, which such a class
  has until it is derived, do not look there, so that `FastIsFull` leaves out its objects.
* `LuaRef::operator=(LuaRef&&)` (LuaRef.h:1482) has no test for self-assignment: it
  releases its slot and keeps the index. `MoveAssign` leaves self-moves out.
* The hook of `addDestructor` also runs when a mere pointer to an object that C++
  owns is collected, while Documentation/passing-objects/index.md:31 says that
  Lua does nothing then.
* `LuaCoroutine` may give a status other than `LUA_OK` and `LUA_YIELD`, when the
  child raises an error or is not suspended.

## Proofs

`ClassRegistryProofs` proves, for every set of classes, every layout that obeys
`SubobjectAssumption` and all lists that obey `BaseListsAssumption`:

| Theorem | Statement |
|---|---|
| `TypeCorrect` | `Spec => []TypeOK` |
| `PointersSound` | `Spec => []PointerSound` |
| `ConstIsRespected` | `Spec => []ConstRespected`: what `getClass` finds with `canBeConst` and without |
| `ListsAreCasts` | `Spec => []ListedOnceWithCast` |
| `RefinesHierarchy` | `Spec => ImplementsHierarchy` |

`ConstRespected` is about `getClass` only. Which constness a `Stack<T>` asks it for differs:
a reference, const or not, asks for either (Userdata.h:985-995), `T*` for mutable
objects in `get` and either in `isInstance` (1121, 1124); `StackConversions` has these.

None of these is inductive. `IInv` adds what the loop of `deriveClass`
maintains:

* `CastInv`: every offset, in a class or in the cast table being built, is the
  place of a real subobject. The step that composes offsets rests on
  `SubobjectAssumption`, a subobject of a subobject is a subobject
  (`CastOffsetSound`).
* `ParallelInv`: the lists of the three tables of a class name the same classes.
* `ListInv`: a list has no repetition, does not hold its own class, and goes with
  exactly the casts of the class; unregistered classes have neither.
* `LoopInv`: the list being built together with `pending` covers exactly the
  classes of the cast table, without repetition, and the classes covered are the
  bases looked at and their ancestors.

There is one lemma for each part (`TypeStep`, `CastStep`, `ParallelStep`,
`ListStep`, `LoopStep`), with one step for each action; `Inductive` joins them.
The refinement uses `LoopInv` in `DeriveFinish`, where the abstract step happens;
all other steps of the loop are stutters, the exception included.

Of `ClassDispatch`, for any options and member names, it proves:

| Theorem | Statement |
|---|---|
| `DispatchInductive` | `DispatchSpec => []DInv` |
| `MethodsAreProtected` | `DispatchSpec => ProtectedMethods` |
| `SuperIsKept` | `DispatchSpec => OverrideKeepsSuper` |
| `SettersComeFirst` | `DispatchSpec => []SettersFirst` |
| `NearestComesFirst` | `DispatchSpec => []NearestMemberWins` |
| `FastAndFullAgree` | `DispatchSpec => []FastIsFull` |

`DInv` is `IInv`, the types of the members (`MembersOK`), and `SimpleInv`: a table with
the simple metamethods has neither parents nor a fallback, which is why they suffice. The
writes of scripts keep methods because each of their steps, the move to
`super_` and the two targets, is `Respectful`: it changes a C function only where
the class allows it (`FunctionWritten`, `DataWritten`).
The order of lookup is a matter of sequences. A sequence of sources is `Silent` or has a
first that answers; `Joining` says what two in a row answer and `FlattenSays` what
flattened pairs do. The theorems then compare the sequences
that the metamethods go through part by part (`InOrder`, `Agree`).

`RegistryReferencesProofs` proves, for any number of references, proxies,
tables, keys and slots:

| Theorem | Statement |
|---|---|
| `ReferencesTypeCorrect` | `Spec => []RTypeOK` |
| `SlotsOwned` | `Spec => []OneOwner` |
| `RefinesValues` | `Spec => ImplementsValues` |
| `ChainedIsChild` | `Spec => ChainIsChild` |

Its `IInv` is `Owned(Now)`, which joins `OneOwner` and the types and can be stated
of the registry and members in the middle of an operation; `TmpIdle`, the
temporary owns nothing between operations; and the type of the heap. `TmpIdle` is
what makes `OneOwner` inductive: copy-and-swap overwrites the temporary.
There is one lemma for each call (`AcquireOwned`, `ReleaseOwned`, `TakeOwned`,
`SwapOwned`): it keeps `Owned`, provided that the member it overwrites owns no slot.
Compound operations (`SetKeyOwned`, `ReleaseItemOwned`, `TakeItemOwned`,
`CopiedOwned`, `ReplacedOwned`) chain them, and `RefStep` and
`ItemStep` have one step for each action. `Room` gives the two free slots that an
operation may need, the second one remaining free after the first is taken.

The refinement follows what a member *holds* (`Held`), a value or nothing. Ownership makes
that independent of the other members' slots: each call changes what it names and `Stays`
says that nothing else moves (`AcquireHeld`, `ReleaseHeld`, `TakeHeld`, `SwapHeld` and the
compound operations over them). The place of a proxy is a function of what its members hold
(`PlaceAt`), given `Fits`: its keys are keys, a chained proxy has one, and a proxy
without a key stands for nil. `VInv` adds that to `IInv`. `ChainIsChild` says that the
place of a chained proxy is looked up in what its parent finds at that moment (`Finds`).

`ConversionProofs` proves, for all widths that obey `WidthAssumption` (powers of
two, of which some are narrower than a Lua integer):

| Theorem | Statement |
|---|---|
| `RepresentableExact` | the tests accept exactly the values that fit, unless the source is signed and the target unsigned and wider |
| `PushedIntegerExact` | an integer that `push` accepts is that integer in Lua |
| `GotIntegerExact` | `get` of a signed type, or of an unsigned one no wider than a Lua integer, accepts exactly the integers of the type, unchanged |
| `NegativeAccepted` | the other unsigned types accept every negative integer, and change it |
| `CallsNest` | `Spec => []CallsInv` |
| `PushesWhole` | `Spec => []PushIsWhole` |
| `GetsReadOnly` | `Spec => []GetReadsOnly` |
| `IntegersExact` | `Spec => []IntegersArrive` |
| `ChecksConvert` | `Spec => []CheckedConverts` |
| `ConversionsAtOnce` | `Spec => [][AtOnce]_vars`: the caller sees one value more, no change, or an error |

The first four split on widths and signs; the lemmas say what a cast does to a value that
fits and to one that is one span too low. The unchecked pushes (Stack.h:203) rest
on the widths of `char` and `short`, which the code asserts statically.

The others hold for any types, values, scripts, stack size and depth of nesting.
`PushIsWhole` and `GetReadsOnly` speak of the end of the outermost call only, and say
nothing of the calls inside it. `CallsInv` says it of each: the calls are `Chained`, every
`base` being the height at which the call before left the stack (`Top`: one value more for
a table being filled, two for the key and the value of a visit or of an entry); the values
of the caller are the `Same`; only calls of one kind wait, pushes or gets; and the key of
a visited table is one of its keys (`Visits`), which is why `lua_next` never fails. A step
is then one of few kinds, for which there is a lemma each: a call is made (`CallMade`),
goes on (`CallGoesOn`) or returns (`CallReturns`), and the stack changes above what the
calls hold (`ChangedAbove`). `IntegersArrive` adds that only `GetOne` returns integers,
which are exact by `GotIntegerExact`. In `ConversionsAtOnce`, `Seen` is the stack outside
of calls and the one the outermost call began with inside: a conversion of any container
is atomic for its caller. Stacks hold values of no named set: `List` types them by what
they hold.

`CheckedConverts` speaks of the answer to the outermost call, which may come from a
variant inside an optional inside a variant. `ChecksInv` says of every call that waits
what it still counts on: if its type `Holds` the value (is accepted and exact), so does
the type it asked, or an alternative after the one it tries (`Pending`); an answer is
`notgot` only if the type did not hold the value. Containers hold nothing, so that a visit
interrupts the chain. `WantedAssumption` says that C++ may ask for the parts of what it
asks for, and that the alternatives of a variant are a sequence; nesting has no bound.
Exceptions and errors of Lua leave several calls: `Heard` says that if the type asked
`MayLeave`, so may the type of its caller, and `Spoken` that what did leave might have:
together they make every variant on the way `Loose`. `isInstance`, `MayLeave` and `Loose`
are recursive functions of types: `PartsAsked` shows that such a predicate exists, as the
least set of types closed under its definition.

`ExpectedResultsProofs` proves, for any handles, values, errors and types:

| Theorem | Statement |
|---|---|
| `ResultsInvariant` | `Spec => []IInv` |
| `FlagIsRight` | `Spec => []HoldsWhatItSays` |
| `NoFaultWithoutThrow` | `Spec => []SafeWithoutThrow` |
| `BoxesTyped` | `Spec => []BoxTypeOK` |
| `DestroyedOnce` | `Spec => []Balanced` |
| `RefinesOutcomes` | `Spec => ImplementsOutcomes` |

`SafeWithoutThrow` is not inductive: a destructor runs on the wrong object only after an
earlier exception. `IInv` says of every box that it is `Sound`: typed, with flag and
object in agreement, and without an object only if it is `Excused`, that is, if its type
has a constructor of that kind that throws; and it says the cause of each fault, where
assignment to itself takes no exception, only a type with a destructor. The lemmas give
`Sound` for `Construct`, `Assigned` and `MovedFrom`; each action composes them.

`CInv` adds that each box counts what it holds and what is buried under it (`Counted`):
`Balanced`, stated of one box so that it can be said of a box in the middle of an
operation. `Stands` is what a box stands for in `Outcomes`. Each action has a lemma that
says both (`Kept`): the counts stay right, and the outcomes take one step of `Outcomes` or
none. Most assign one box (`OneKept`, `AbstractOne`), a move or a swap two (`TwoKept`,
`AbstractTwo`).

`ObjectLifetimeProofs` proves, for any number of objects, containers and userdata, the
last finite (`LifetimeAssumption`):

| Theorem | Statement |
|---|---|
| `LifetimeInvariant` | `Spec => []IInv` |
| `LifetimeTypeCorrect` | `Spec => []TypeOK` |
| `NoVainDestruction` | `Spec => []NoVainDestructor` |
| `ReachableAlive` | `Spec => []ReachableObjectAlive` |
| `RefinesOwnership` | `Spec => ImplementsOwnership` |

Neither property says who owns an object, so neither is inductive. `IInv` adds:

* `ShapeInv`: what a userdata of each kind holds; only a value can be unfilled.
* `BuildInv`: values whose constructor runs are unfilled, and the place of an unfilled
  value, also of one whose constructor or copy threw, is raw and nobody else's.
* `CountInv`: an object is alive exactly while `Count`, the owners in C++ and among the
  userdata, is not zero; the reference count of a shared object equals it, its owners in
  Lua are containers, and any other object has one owner at most.
* `FinalInv`: a userdata without a metatable is never finalized.

`CountInv` and the refinement have one argument, `EffectStep`: a step gives one object
its first owner, one more owner or one fewer, or changes no object (`Effect`).
`CppEffect`, `PushEffect` and `OtherEffect` show it action by action;
these are the three actions of `Ownership` and its stutter.

`CoroutineFramesProofs` proves, for any number of threads, frames and values:

| Theorem | Statement |
|---|---|
| `FramesInvariant` | `Spec => []IInv` |
| `FramesNeverBroken` | `Spec => []NeverBroken` |
| `BodiesAreNested` | `Spec => []BodiesNest` |
| `ValuesArriveInOrder` | `Spec => []ValuesInOrder` |
| `ArgumentsAnchored` | `Spec => []ArgumentAnchored` |

What decides whether a body may be resumed is the status of its thread, of which the
code knows nothing, so `IInv` ties them: a thread runs at most once in the chain
(`ChainInv`); at most one thread is in a call of a frame, which runs while the thread runs
and is suspended otherwise, until both are collected (`CallInv`, `FrameInv`); and the stack
of a thread in a call is its argument and its frame (`StackInv`).

`FunctionCallsProofs` proves, for any functions of every entry, overloads and arguments,
any depth, exceptions enabled or not and Lua compiled either way:

| Theorem | Statement |
|---|---|
| `CallsInvariant` | `Spec => []IInv` |
| `StackIsRestored` | `Spec => []StackRestored` |
| `OnlyResultsHandedOver` | `Spec => []ResultsOnly` |
| `ArgumentsAreOwned` | `Spec => []ArgumentsOwned` |
| `NoErrorIsLost` | `Spec => NoErrorVanishes` |

`IInv` says that each frame runs on what the frame below it holds on the stack (`Nested`,
`Sits`), which for C++ code includes what `luabridge::pcall` kept for it, and what is
above that: nothing or the value of the step, while nothing flies (`Rests`); anything, for
a frame that an error can land in, and nothing for one that an exception passes
(`Reached`). `ArgumentsOwned` is part of it: the arguments alive are those of the frames
and the leaked ones, of which there are none unless exceptions are enabled.
`NoErrorVanishes` follows from `Accounted`: the error under way goes on or becomes known,
and what a frame put aside stays, is taken along, or may be dropped.

`RegistrationChainProofs` proves, for any objects, names and classes and any bounds:

| Theorem | Statement |
|---|---|
| `ChainInvariant` | `Spec => []IInv` |
| `StackIsBalanced` | `Spec => []StackBalanced` |
| `ChainsStayOnTheirTables` | `Spec => []ChainsOnTheirTables` |
| `Reopened` | `Spec => ReopenedIsSame` |

`IInv` has the tables' contents (`HeapOK`, `RegisteredOK`), the objects, and `Chained`: the
part of the stack between two `Marks` is the chain of the object there, from a global or
program's table up, each entry `Linked` to the one below. `ChainsOnTheirTables` itself is
not inductive: a member function may overwrite the field by which an older chain opened
its table. What prevents it is in `ChainAt`, the table that a `Table` fills is nowhere else
in a chain, and in `HeapOK`, only namespaces, tables and the global table lead to other
tables. A step keeps the objects up to some place (`KeepsFirst`) and gives what is above
to one object (`Taken`, `TakenChains`) or to none (`Dropped`, `DroppedChains`); `Rebased`,
`Opening`, `NewChain`, `Released` and `SameStackKeeps` say so of the kinds of action, and
each action is an instance of one.

Where something is defined by recursion (`Owned`, `Below`, `FlattenSeq`), the proofs
show that the function exists and is unique, by the least place at which it would not:
`LeastNat` is the least-number principle, from the theorems on well-founded relations.

The assumptions are those the modules name, and TLC evaluates them in the runs. What is
model-checked only: `RoundTrip`, which follows a value as deep as it goes
(`ConversionChecks` has recursive operators, and the proof would be an
induction over values), and liveness, because of fairness and `ENABLED`.

## Not modelled

* `Iterator`, `Range`, `pairs`: a loop over `lua_next` with a key in a `LuaRef`; its
  step is `After`, its reference one of `RegistryReferences`.
* Text of errors, `tostring`, `Dump`: output only.
* Template metaprogramming (`FuncTraits.h`, `TypeTraits.h`), configuration macros, the C
  API shims for other Lua versions: no state at run time.
* The amalgamated header, which is generated from the sources modelled here;
  vendored Lua; tests and benchmarks.
* `Result` and `TypeResult`, which forward to an `std::error_code` and an `Expected`.
* Inside the modelled parts: out-of-memory errors and C++ exceptions of allocations
  outside the places that `FunctionCalls` names, the panic handler, `longjmp` out of a
  coroutine body or a constructor, `co_await` of an awaitable that suspends inside a
  `CppCoroutine` (`LuaCoroutine`, the documented one, does not), nil passed where a
  container is expected; of references, self-moves, nil as a key, keys and values that
  fail to convert, tables with metamethods, and moves between threads of a state, which
  share one registry.

## Plan

What is left: `Iterator` together with `RegistryReferences`, and the lookup in
namespaces.
