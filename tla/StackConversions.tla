--------------------------- MODULE StackConversions ---------------------------
(***************************************************************************)
(* Conversions between C++ values and Lua values: Stack<T>::push, get and  *)
(* isInstance (Stack.h, the container headers, Enum.h, Converter.h). A Lua *)
(* value is <<kind, data>>; a number is counted in halves, so the odd ones *)
(* have no integral value; a table is the sequence of its entries, <<key,  *)
(* value>>, in the order in which lua_next visits them. A C++ type is the  *)
(* sequence of a constructor and its parameters. The conversion of one     *)
(* element of a container is a call of its own: a step ends where the code *)
(* calls another Stack<T>, or returns from one.                            *)
(***************************************************************************)
EXTENDS IntegerConversions, SequencesExt, FiniteSetsExt

CONSTANTS Inputs,         \* what C++ pushes: pairs <<type, value>>
          Scripts,        \* the values Lua code passes
          Wanted,         \* the types C++ asks for
          Bases,          \* the classes each class is derived from, at any distance
          Conversions,    \* the pairs <<From, To>> that have a StackConverter
          Capacity,       \* the slots lua_checkstack can give
          Below           \* bound: values below those of this call

VARIABLES
  stack,        \* the Lua stack
  anyPush,      \* the types anyPushRegistry has a handler for
  converters,   \* pairs <<From, To>> registered with addConverter
  exceptions,   \* "enabled" after LuaException::enableExceptions, or "disabled"
  calls,        \* the calls of Stack<T> that wait for one they made, outermost first
  now,          \* the call of Stack<T> that begins, or what the last one returned
  before,       \* history: the stack when the outermost call began
  pushed        \* history: the last value that C++ pushed, as what, and its index

vars == <<stack, anyPush, converters, exceptions, calls, now, before, pushed>>

Nil == <<"nil">>
Boolean(b) == <<"boolean", b>>
Number(halves) == <<"number", halves>>
String(s) == <<"string", s>>
Table(entries) == <<"table", entries>>
(* A userdata: its class, whether it was pushed as const, and whether it   *)
(* points to nothing: that is how a push leaves it whose copy threw.       *)
Object(c, const, null) == <<"object", [class |-> c, const |-> const, null |-> null]>>
Pointer(p) == <<"lightuserdata", p>>
CFunction(f) == <<"cfunction", f>>
Kind(x) == x[1]
Integral(x) == \E n \in ValuesOf(LuaInteger) : x = Number(2 * n)    \* tointeger, valid
Whole(x) == x[2] \div 2
Text(x) == IF Kind(x) = "string" THEN x[2] ELSE ToString(x[2])

(* How a container is pushed and read back: its entries by lua_rawseti     *)
(* ("raw") or by key and lua_settable ("keyed"); the slots it asks for;    *)
(* what becomes of the values that are visited.                            *)
Traits(push, get) == [push |-> push, get |-> get]
VectorTraits        == Traits("raw", "append")
DequeTraits         == Traits("raw", "append")
ListTraits          == Traits("raw", "append")
SpanTraits          == Traits("raw", "none")
ForwardListTraits   == Traits("keyed", "append")
SetTraits           == Traits("keyed", "insert")
UnorderedSetTraits  == Traits("keyed", "insert")
FlatSetTraits       == Traits("keyed", "insert")
MapTraits           == Traits("pairs", "emplace")
UnorderedMapTraits  == Traits("pairs", "emplace")
FlatMapTraits       == Traits("pairs", "emplace")

Sequence(traits, T) == <<"sequence", traits, T>>
Mapping(traits, K, V) == <<"map", traits, K, V>>
MultiMap(K, V) == <<"multimap", K, V>>
Tuple(types) == <<"tuple", types>>
Pair(T1, T2) == Tuple(<<T1, T2>>)

(* A floating type: its limit, and the value up to which it holds halves:  *)
(* above, a cast rounds to a whole. lua_Number is double.                  *)
FloatingType(limit, exact) == <<"floating", limit, exact>>
Float == FloatingType(4, 2)
Double == FloatingType(16, 8)
LongDouble == FloatingType(64, 64)
LuaNumber == Double
FitsFloating(T, halves) == -T[2] <= halves /\ halves <= T[2]
CastFloating(T, halves) ==
  IF -T[3] <= halves /\ halves <= T[3] THEN halves ELSE 2 * (halves \div 2)

(* A class is asked for by value or reference, by pointer, by pointer to   *)
(* const, or by value with StackConversion ("converted").                  *)
Ways == {"value", "pointer", "const pointer", "converted"}
ClassType(c, way) == <<"class", c, way>>

Wrappers == {"optional", "expected", "address"}
Containers == {"sequence", "map", "multimap", "values", "tuple", "array", "carray"}

(* The types a type asks in its place. C++ that asks for a type may ask    *)
(* for these too.                                                          *)
Parts(T) == CASE T[1] = "variant" -> {T[2][n] : n \in DOMAIN T[2]}
              [] T[1] \in Wrappers -> {T[2]}
              [] OTHER -> {}
ASSUME WantedAssumption ==
  \A T \in Wanted : /\ T[1] = "variant" => T[2] \in Seq(Wanted) \ {<<>>}
                    /\ T[1] = "class" => T[3] \in Ways
                    /\ T[1] = "address" => T[2][1] # "class"    \* the pointer to a class
                    /\ Parts(T) \subseteq Wanted
-----------------------------------------------------------------------------
(* What C++ does now: it calls push or get, or such a call has returned;   *)
(* "loop" is the head of the loop of a container. An error of Lua jumps    *)
(* out of all the calls, and the frame it leaves is discarded.             *)
At(at, T, v, i) == [at |-> at, type |-> T, value |-> v, index |-> i]
ToPush(T, v) == At("push", T, v, 0)
Pushed       == At("pushed", <<>>, <<>>, 0)
NotPushed    == At("notpushed", <<>>, <<>>, 0)
ToGet(T, i)  == At("get", T, <<>>, i)
Got(T, v, i) == At("got", T, v, i)
NotGot(T, i) == At("notgot", T, <<>>, i)
Looping      == At("loop", <<>>, <<>>, 0)
Idle         == At("idle", <<>>, <<>>, 0)
IndexIsNil   == At("index is nil", <<>>, <<>>, 0)
InvalidKey   == At("invalid key to 'next'", <<>>, <<>>, 0)
Left(how, T, i) == At(how, T, <<>>, i)                 \* "threw" or "raised"
Raise(error) == stack' = <<>> /\ calls' = <<>> /\ now' = error

(* A call that waits: a container being pushed or visited, a variant       *)
(* trying its alternatives, an optional or Expected. base is the height of *)
(* the stack when it began.                                                *)
FillFrame(T, base, items, stage) ==
  [of |-> "fill", type |-> T, base |-> base, items |-> items, stage |-> stage]
VisitFrame(T, i, base, pairs, first) ==
  [of |-> "visit", type |-> T, index |-> i, base |-> base, pairs |-> pairs, first |-> first]
TryFrame(T, i, base, n) == [of |-> "try", type |-> T, index |-> i, base |-> base, n |-> n]
WrapFrame(T, i, base) == [of |-> "wrap", type |-> T, index |-> i, base |-> base]

Caller == Last(calls)
Waiting(of) == calls # <<>> /\ Caller.of = of
Call(frame, to) == calls' = Append(calls, frame) /\ now' = to
Goto(frame, to) == calls' = Append(Front(calls), frame) /\ now' = to
Return(result) == calls' = Front(calls) /\ now' = result
Aside == UNCHANGED <<anyPush, converters, exceptions, before, pushed>>

Room(n) == Len(stack) + n <= Capacity                   \* lua_checkstack
(* ~StackRestore.                                                          *)
NotRestored(s, top) == s
Restored(s, top) == SubSeq(s, 1, top)
(* The entries of the table a container becomes.                           *)
Item(keyType, key, type, value) ==
  [keyType |-> keyType, key |-> key, type |-> type, value |-> value]
Indexed(how, types(_), values) ==
  [i \in DOMAIN values |-> Item(<<how>>, i, types(i), values[i])]
Entries(T, v) ==
  CASE T[1] = "tuple" -> Indexed("keyed", LAMBDA i : T[2][i], v)
    [] T[1] = "carray" -> Indexed("keyed", LAMBDA i : T[2], v)
    [] T[1] \in {"array", "values"} -> Indexed("raw", LAMBDA i : T[2], v)
    [] T[1] = "sequence" ->
         Indexed(T[2].push, LAMBDA i : T[3], IF T[2].get = "insert" THEN SetToSeq(v) ELSE v)
    [] T[1] = "map" ->
         LET keys == SetToSeq(DOMAIN v)
         IN  [i \in DOMAIN keys |-> Item(T[3], keys[i], T[4], v[keys[i]])]
    [] T[1] = "multimap" ->
         LET keys == SetToSeq(DOMAIN v)
         IN  [i \in DOMAIN keys |-> Item(T[2], keys[i], <<"values", T[3]>>, v[keys[i]])]
Slots(T) == CASE T[1] = "carray" -> 2 [] T[1] = "values" -> 0 [] OTHER -> 3

(* lua_rawseti and lua_settable store what is on top into the table at n.  *)
(* A nil makes no entry; a nil key raises an error.                        *)
StoredShifted(s, n, key, popped) ==             \* indices from zero
  LET k == IF Kind(key) = "number" THEN Number(key[2] - 2) ELSE key
      below == SubSeq(s, 1, Len(s) - popped)
  IN  IF Last(s) = Nil THEN below
      ELSE [below EXCEPT ![n] = Table(Append(s[n][2], <<k, Last(s)>>))]
Stored(s, n, key, popped) ==
  LET t == s[n][2]
      below == SubSeq(s, 1, Len(s) - popped)
  IN  IF Last(s) = Nil THEN below
      ELSE [below EXCEPT ![n] = Table(Append(t, <<key, Last(s)>>))]

(* The Lua value of a C++ value that is no container and wraps none, as a  *)
(* set: the empty one, if Lua cannot hold it.                              *)
When(possible, x) == IF possible THEN {x} ELSE {}
PushInteger(T, n) == When(PushesInteger(T, n), Number(2 * PushedInteger(T, n)))
AsLua(T, v) ==
  CASE T[1] \in {"integer", "enum"} -> PushInteger(T[2], v)
    [] T[1] = "floating" -> When(FitsFloating(LuaNumber, v), Number(CastFloating(LuaNumber, v)))
    [] T[1] = "bool" -> {Boolean(v)}
    [] T[1] \in {"char", "view", "string", "path"} -> {String(v)}
    [] T[1] = "cstring" -> {IF v = <<>> THEN Nil ELSE String(v[1])}
    [] T[1] = "pointer" -> {Pointer(v[1])}
    [] T[1] = "cfunction" -> {CFunction(v)}
    [] OTHER -> {Nil}
Wraps(T, v) == T[1] = "variant" \/ (T[1] \in Wrappers \union {"any"} /\ v # <<>>)

PushOne ==
  /\ now.at = "push" /\ now.type[1] \notin Containers /\ ~Wraps(now.type, now.value)
  /\ LET lua == AsLua(now.type, now.value)
     IN  \/ \E x \in lua : Room(1) /\ stack' = Append(stack, x) /\ now' = Pushed
         \/ (lua = {} \/ ~Room(1)) /\ now' = NotPushed /\ UNCHANGED stack
  /\ UNCHANGED calls /\ Aside

(* What is inside is pushed in its place. An optional restores the stack   *)
(* after a push that failed, which has restored it already.                *)
PushWrapped ==
  LET T == now.type
      v == now.value
  IN  /\ now.at = "push" /\ Wraps(T, v)
      /\ now' = CASE T[1] \in Wrappers -> ToPush(T[2], v[1])
                  [] T[1] = "variant" -> ToPush(T[2][v[1]], v[2])
                  [] T[1] = "any" -> IF Room(1) /\ v[1] \in anyPush THEN ToPush(v[1], v[2])
                                    ELSE NotPushed
      /\ UNCHANGED <<stack, calls>> /\ Aside

(* A container: its table, then an entry at a time.                        *)
Build ==
  /\ now.at = "push" /\ now.type[1] \in Containers
  /\ IF Room(Slots(now.type))
       THEN /\ stack' = Append(stack, Table(<<>>))
            /\ Call(FillFrame(now.type, Len(stack), Entries(now.type, now.value), "next"), Looping)
       ELSE now' = NotPushed /\ UNCHANGED <<stack, calls>>
  /\ Aside
Filling(frame, stage, to) == Goto(FillFrame(frame.type, frame.base, frame.items, stage), to)
Fill ==
  LET item == Head(Caller.items)
  IN  /\ now.at = "loop" /\ Waiting("fill") /\ Caller.items # <<>>
      /\ \/ /\ item.keyType = <<"raw">>
            /\ UNCHANGED stack
            /\ Filling(Caller, "raw", ToPush(item.type, item.value))
         \/ /\ item.keyType = <<"keyed">>
            /\ stack' = Append(stack, Number(2 * item.key))
            /\ Filling(Caller, "keyed", ToPush(item.type, item.value))
         \/ /\ item.keyType \notin {<<"raw">>, <<"keyed">>}
            /\ UNCHANGED stack
            /\ Filling(Caller, "key", ToPush(item.keyType, item.key))
      /\ Aside
FillKeyed ==
  /\ now.at = "pushed" /\ Waiting("fill") /\ Caller.stage = "key"
  /\ LET item == Head(Caller.items)
     IN  Filling(Caller, "keyed", ToPush(item.type, item.value))
  /\ UNCHANGED stack /\ Aside
Store ==
  LET raw == Caller.stage = "raw"
      key == IF raw THEN Number(2 * Head(Caller.items).key) ELSE stack[Len(stack) - 1]
  IN  /\ now.at = "pushed" /\ Waiting("fill") /\ Caller.stage \in {"raw", "keyed"}
      /\ IF key = Nil THEN Raise(IndexIsNil)
         ELSE /\ stack' = Stored(stack, Caller.base + 1, key, IF raw THEN 1 ELSE 2)
              /\ Goto(FillFrame(Caller.type, Caller.base, Tail(Caller.items), "next"), Looping)
      /\ Aside

(* A map or a set is kept in the hash part of its table, whose order is    *)
(* not that of the insertions.                                             *)
Hashed(T) == T[1] \in {"map", "multimap"} \/ (T[1] = "sequence" /\ T[2].get = "insert")
Layouts(T, s) ==
  {s} \union IF Hashed(T) THEN {Append(Front(s), Table(Reverse(Last(s)[2])))} ELSE {}
Filled ==
  /\ now.at = "loop" /\ Waiting("fill") /\ Caller.items = <<>>
  /\ stack' \in Layouts(Caller.type, stack)
  /\ Return(Pushed) /\ Aside
FillFailed ==
  /\ now.at = "notpushed" /\ Waiting("fill")
  /\ stack' = Restored(stack, Caller.base)
  /\ Return(NotPushed) /\ Aside
-----------------------------------------------------------------------------
(* The C++ value of a Lua value, again as a set, for types that are no     *)
(* containers and wrap none.                                               *)
GetIntegerNarrow(T, x) ==                       \* the largest value left out
  When(Integral(x) /\ GetsInteger(T, Whole(x)) /\ Whole(x) < MaxOf(T), GotInteger(T, Whole(x)))
GetInteger(T, x) == When(Integral(x) /\ GetsInteger(T, Whole(x)), GotInteger(T, Whole(x)))
GetEnum(T, x) == {n \in GetInteger(T[2], x) : T[3] = {} \/ n \in T[3]}

(* Userdata::isInstance, const or not, and Userdata::get, which takes a    *)
(* const object only as const. A pointer may be null, what is taken by     *)
(* value may not. With StackConversion, another object is converted, if    *)
(* its own class has a converter.                                          *)
IsA(c, x) == Kind(x) = "object" /\ c \in {x[2].class} \union Bases[x[2].class]
Found(T, x) == IsA(T[2], x) /\ (x[2].const => T[3] # "pointer")
Convertible(x, To) == Kind(x) = "object" /\ <<x[2].class, To>> \in converters
Serves(T, x) ==
  IF T[3] \in {"pointer", "const pointer"} THEN x = Nil \/ Found(T, x)
                                          ELSE Found(T, x) /\ ~x[2].null
Takes(T, x) ==
  Serves(T, x) \/ (T[3] = "converted" /\ Convertible(x, T[2]) /\ ~x[2].null)
GetClass(T, x) == When(Takes(T, x), x)

FromLua(T, x) ==
  CASE T[1] = "integer" -> GetInteger(T[2], x)
    [] T[1] = "enum" -> GetEnum(T, x)
    [] T[1] = "floating" ->
         When(Kind(x) = "number" /\ FitsFloating(T, x[2]), CastFloating(T, x[2]))
    [] T[1] = "bool" -> {x # Nil /\ x # Boolean(FALSE)}
    [] T[1] = "char" -> When(Kind(x) = "string" /\ Len(Text(x)) = 1, x[2])
    [] T[1] \in {"view", "path"} -> When(Kind(x) = "string", x[2])
    [] T[1] = "string" -> When(Kind(x) = "string" \/ (Kind(x) = "number" /\ Room(1)), Text(x))
    [] T[1] = "cstring" -> When(Kind(x) \in {"nil", "string"}, Tail(x))
    [] T[1] = "pointer" -> When(Kind(x) \in {"lightuserdata", "nil"}, Tail(x))
    [] T[1] = "cfunction" -> When(Kind(x) = "cfunction", x[2])
    [] T[1] = "class" -> GetClass(T, x)
    [] OTHER -> When(x = Nil, <<>>)             \* std::nullptr_t, std::monostate

(* Text is read without changing the value: a number is converted in a     *)
(* copy.                                                                   *)
ConvertedInPlace(s, i) == IF Kind(s[i]) = "number" THEN [s EXCEPT ![i] = String(Text(s[i]))] ELSE s
ConvertedCopy(s, i) == s

(* How a failure is told: by an error code; for an object of another class *)
(* or constness (getBadArgError), by an exception if they are enabled; for *)
(* a value that is missing (getNilBadArgError), by an exception or an      *)
(* error of Lua, if the index is not counted from the top.                 *)
Told(T, x) ==
  CASE T[1] # "class" -> "code"
    [] T[1] = "class" /\ T[3] = "converted" -> "code"
    [] T[1] = "class" /\ T[3] # "converted" ->
         IF x = Nil \/ Found(T, x) THEN "no value"
         ELSE IF exceptions = "enabled" THEN "bad argument" ELSE "code"

GetOne ==
  LET T == now.type
      i == now.index
      values == FromLua(T, stack[i])
  IN  /\ now.at = "get" /\ T[1] \notin Containers \union Wrappers \union {"variant"}
      /\ \/ \E v \in values : now' = Got(T, v, i)
         \/ values = {} /\ Told(T, stack[i]) # "bad argument" /\ now' = NotGot(T, i)
      /\ stack' = IF T[1] = "string" THEN ConvertedCopy(stack, i) ELSE stack
      /\ UNCHANGED calls /\ Aside

(* The exception or the error goes through the calls that wait. What is    *)
(* visited is restored; its elements are at indices from the top.          *)
InTable == \E n \in DOMAIN calls : calls[n].of = "visit"
BadArgument ==
  LET T == now.type
      i == now.index
      told == Told(T, stack[i])
  IN  /\ now.at = "get" /\ T[1] = "class" /\ FromLua(T, stack[i]) = {}
      /\ told = "bad argument" \/ (told = "no value" /\ ~InTable)
      /\ now' = Left(IF exceptions = "enabled" THEN "threw" ELSE "raised", T, i)
      /\ UNCHANGED <<stack, calls>> /\ Aside
Leave ==
  /\ now.at \in {"threw", "raised"} /\ calls # <<>>
  /\ stack' = IF Caller.of = "visit" THEN Restored(stack, Caller.base) ELSE stack
  /\ Return(Left(now.at, Caller.type, Caller.index))
  /\ Aside

(* T* takes what T takes, unless T is a class; nil is an empty optional    *)
(* and no Expected value.                                                  *)
GetAddress ==
  /\ now.at = "get" /\ now.type[1] = "address"
  /\ now' = ToGet(now.type[2], now.index)
  /\ UNCHANGED <<stack, calls>> /\ Aside
GetNullable ==
  LET T == now.type
      i == now.index
  IN  /\ now.at = "get" /\ T[1] \in {"optional", "expected"}
      /\ IF stack[i] = Nil
           THEN /\ now' = IF T[1] = "optional" THEN Got(T, <<>>, i) ELSE NotGot(T, i)
                /\ UNCHANGED calls
           ELSE Call(WrapFrame(T, i, Len(stack)), ToGet(T[2], i))
      /\ UNCHANGED stack /\ Aside
GotNullable ==
  /\ now.at \in {"got", "notgot"} /\ Waiting("wrap")
  /\ Return(IF now.at = "got" THEN Got(Caller.type, <<now.value>>, Caller.index)
                              ELSE NotGot(Caller.type, Caller.index))
  /\ UNCHANGED stack /\ Aside

(* A variant is the first alternative that can be got.                     *)
GetVariant ==
  /\ now.at = "get" /\ now.type[1] = "variant"
  /\ Call(TryFrame(now.type, now.index, Len(stack), 1), ToGet(now.type[2][1], now.index))
  /\ UNCHANGED stack /\ Aside
TryGet ==
  LET f == Caller
  IN  /\ now.at \in {"got", "notgot"} /\ Waiting("try")
      /\ \/ now.at = "got" /\ Return(Got(f.type, <<f.n, now.value>>, f.index))
         \/ /\ now.at = "notgot" /\ f.n < Len(f.type[2])
            /\ Goto(TryFrame(f.type, f.index, f.base, f.n + 1), ToGet(f.type[2][f.n + 1], f.index))
         \/ /\ now.at = "notgot" /\ f.n >= Len(f.type[2])
            /\ Return(NotGot(f.type, f.index))
      /\ UNCHANGED stack /\ Aside
-----------------------------------------------------------------------------
(* get_length: a border of the table, the largest one.                     *)
Length(x) ==
  LET keys == {x[2][i][1] : i \in DOMAIN x[2]}
  IN  Max({0} \union {n \in 1..Len(x[2]) + 1 : /\ Number(2 * n) \in keys
                                               /\ Number(2 * n + 2) \notin keys})

(* lua_next continues after the key on the stack, which has to be a key of *)
(* the table.                                                              *)
After(t, key) ==
  IF key = Nil THEN {1} ELSE {i + 1 : i \in {j \in DOMAIN t : t[j][1] = key}}

(* What the visited entries become.                                        *)
KeyType(T) == CASE T[1] = "map" -> <<T[3]>> [] T[1] = "multimap" -> <<T[2]>> [] OTHER -> <<>>
ElementType(T, n) ==
  CASE T[1] = "tuple" -> T[2][n]
    [] T[1] = "sequence" -> T[3]
    [] T[1] = "map" -> T[4]
    [] T[1] = "multimap" -> <<"values", T[3]>>
    [] OTHER -> T[2]
Contents(pairs, how) ==
  LET keys == {pairs[i][1] : i \in DOMAIN pairs}
      OfKey(k) == SelectSeq(pairs, LAMBDA p : p[1] = k)
  IN  CASE how = "append" -> [i \in DOMAIN pairs |-> pairs[i][2]]
        [] how = "insert" -> {pairs[i][2] : i \in DOMAIN pairs}
        [] how = "emplace" -> [k \in keys |-> OfKey(k)[1][2]]
        [] how = "multi" -> [k \in keys |-> FlattenSeq([i \in DOMAIN OfKey(k) |-> OfKey(k)[i][2]])]
How(T) == CASE T[1] \in {"sequence", "map"} -> T[2].get
            [] T[1] = "multimap" -> "multi"
            [] OTHER -> "append"

(* A container: its entries in the order of lua_next, the key and the      *)
(* value on top of the stack; of a map, both are got.                      *)
Sized(T, x) == CASE T[1] = "tuple" -> Length(x) = Len(T[2])
                 [] T[1] = "array" -> Length(x) = T[3]
                 [] OTHER -> TRUE
GetTable ==
  LET T == now.type
      i == now.index
  IN  /\ now.at = "get" /\ T[1] \in Containers
      /\ IF Kind(stack[i]) = "table" /\ Sized(T, stack[i])
           THEN /\ stack' = Append(stack, Nil)
                /\ Call(VisitFrame(T, i, Len(stack), <<>>, <<>>), Looping)
           ELSE now' = NotGot(T, i) /\ UNCHANGED <<stack, calls>>
      /\ Aside
Returned(result) == stack' = Restored(stack, Caller.base) /\ Return(result)
Complete(frame) == frame.type[1] = "tuple" /\ Len(frame.pairs) = Len(frame.type[2])
GotAll(frame) == Got(frame.type, Contents(frame.pairs, How(frame.type)), frame.index)
KeyFirst(T) == T[1] = "multimap"
GetElement(T, pairs, top) == ToGet(ElementType(T, Len(pairs) + 1), top)
GetKey(T, top) == ToGet(KeyType(T)[1], top - 1)

Visit ==
  LET f == Caller
      t == stack[f.index][2]
      next == After(t, Last(stack))
      top == Len(stack) + 1
  IN  /\ now.at = "loop" /\ Waiting("visit") /\ ~Complete(f)
      /\ IF next = {} THEN Raise(InvalidKey)
         ELSE \E j \in next :
           IF j \notin DOMAIN t
             THEN Returned(IF f.type[1] = "tuple" THEN NotGot(f.type, f.index) ELSE GotAll(f))
             ELSE /\ stack' = Append(Append(Front(stack), t[j][1]), t[j][2])
                  /\ Goto(f, IF KeyFirst(f.type) THEN GetKey(f.type, top)
                                                 ELSE GetElement(f.type, f.pairs, top))
      /\ Aside
VisitComplete ==
  /\ now.at = "loop" /\ Waiting("visit") /\ Complete(Caller)
  /\ Returned(GotAll(Caller)) /\ Aside
VisitGot ==
  LET f == Caller
      keyed == KeyType(f.type) # <<>>
      pair == IF ~keyed THEN <<<<>>, now.value>>
              ELSE IF KeyFirst(f.type) THEN <<f.first[1], now.value>> ELSE <<now.value, f.first[1]>>
      Goes(pairs, first, to) == Goto(VisitFrame(f.type, f.index, f.base, pairs, first), to)
  IN  /\ now.at = "got" /\ Waiting("visit")
      /\ IF keyed /\ f.first = <<>>
           THEN /\ UNCHANGED stack
                /\ Goes(f.pairs, <<now.value>>,
                        IF KeyFirst(f.type) THEN GetElement(f.type, f.pairs, Len(stack))
                                            ELSE GetKey(f.type, Len(stack)))
           ELSE stack' = Front(stack) /\ Goes(Append(f.pairs, pair), <<>>, Looping)
      /\ Aside
VisitFailed ==
  /\ now.at = "notgot" /\ Waiting("visit")
  /\ Returned(NotGot(Caller.type, Caller.index)) /\ Aside
-----------------------------------------------------------------------------
(* A call begins with any number of values already on the stack, and one   *)
(* value of its own at a time.                                             *)
Nothing == [type |-> <<>>, value |-> <<>>, index |-> 0]
Init ==
  /\ \E n \in 0..Below : stack = [i \in 1..n |-> Boolean(TRUE)]
  /\ anyPush = {} /\ converters = {} /\ exceptions = "disabled" /\ calls = <<>>
  /\ now = Idle /\ before = <<>> /\ pushed = Nothing
Free == \A i \in DOMAIN stack : stack[i] = Boolean(TRUE)

TakeResult ==                                  \* an error of Lua leaves no frame
  /\ calls = <<>> /\ now.at \notin {"idle", "push", "get"}
  /\ stack' = IF now.at = "raised" THEN <<>> ELSE stack
  /\ now' = Idle /\ before' = <<>>
  /\ UNCHANGED <<anyPush, converters, exceptions, calls, pushed>>

PushValue(T, v) ==
  /\ now.at = "idle" /\ Free
  /\ now' = ToPush(T, v) /\ before' = stack
  /\ pushed' = [type |-> T, value |-> v, index |-> Len(stack) + 1]
  /\ UNCHANGED <<stack, anyPush, converters, exceptions, calls>>

(* An array is written at as many places as there are entries.             *)
Fits(T, x) == T[1] = "array" /\ Kind(x) = "table" => Len(x[2]) <= T[3]
GetValue(T, i) ==
  /\ now.at = "idle" /\ Fits(T, stack[i])
  /\ now' = ToGet(T, i) /\ before' = stack
  /\ UNCHANGED <<stack, anyPush, converters, exceptions, calls, pushed>>

PassValue(x) ==
  /\ now.at = "idle" /\ Free /\ Len(stack) <= Below
  /\ stack' = Append(stack, x) /\ pushed' = Nothing
  /\ UNCHANGED <<anyPush, converters, exceptions, calls, now, before>>
Pop ==
  /\ now.at = "idle" /\ stack # <<>>
  /\ stack' = Front(stack) /\ pushed' = Nothing
  /\ UNCHANGED <<anyPush, converters, exceptions, calls, now, before>>

RegisterAnyPush(T) ==
  /\ now.at = "idle"
  /\ anyPush' = anyPush \union {T}
  /\ UNCHANGED <<stack, converters, exceptions, calls, now, before, pushed>>
AddConverter(From, To) ==
  /\ now.at = "idle"
  /\ converters' = converters \union {<<From, To>>}
  /\ UNCHANGED <<stack, anyPush, exceptions, calls, now, before, pushed>>

EnableExceptions ==
  /\ now.at = "idle"
  /\ exceptions' = "enabled"
  /\ UNCHANGED <<stack, anyPush, converters, calls, now, before, pushed>>

AnyTypes == {input[2][1] : input \in {p \in Inputs : p[1] = <<"any">> /\ p[2] # <<>>}}
Next ==
  \/ TakeResult
  \/ \E input \in Inputs : PushValue(input[1], input[2])
  \/ \E T \in Wanted, i \in DOMAIN stack : GetValue(T, i)
  \/ \E x \in Scripts : PassValue(x)
  \/ Pop
  \/ \E T \in AnyTypes : RegisterAnyPush(T)
  \/ \E pair \in Conversions : AddConverter(pair[1], pair[2])
  \/ EnableExceptions
  \/ PushOne \/ PushWrapped
  \/ Build \/ Fill \/ FillKeyed \/ Store \/ Filled \/ FillFailed
  \/ GetOne \/ BadArgument \/ Leave \/ GetAddress \/ GetNullable \/ GotNullable \/ GetVariant \/ TryGet
  \/ GetTable \/ Visit \/ VisitComplete \/ VisitGot \/ VisitFailed

Spec == Init /\ [][Next]_vars
-----------------------------------------------------------------------------
(* isInstance, by which overloads are chosen: what a type accepts itself,  *)
(* and when it asks its parts.                                             *)
Accepts(T, x) ==
  CASE T[1] = "integer" -> Integral(x) /\ GetsInteger(T[2], Whole(x))
    [] T[1] = "enum" -> Kind(x) = "number"
    [] T[1] = "floating" -> Kind(x) = "number" /\ FitsFloating(T, x[2])
    [] T[1] = "bool" -> Kind(x) = "boolean"
    [] T[1] = "char" -> Kind(x) = "string" /\ Len(Text(x)) = 1
    [] T[1] \in {"view", "path", "string"} -> Kind(x) = "string"
    [] T[1] = "cstring" -> Kind(x) \in {"nil", "string"}
    [] T[1] \in {"nullptr", "monostate", "optional"} -> x = Nil
    [] T[1] = "pointer" -> Kind(x) \in {"lightuserdata", "nil"}
    [] T[1] = "cfunction" -> Kind(x) = "cfunction"
    [] T[1] = "class" -> IsA(T[2], x)
    [] T[1] = "tuple" -> Kind(x) = "table" /\ Length(x) = Len(T[2])
    [] T[1] \in {"array", "carray"} -> Kind(x) = "table" /\ Length(x) = T[3]
    [] T[1] \in {"any", "variant", "expected", "address"} -> FALSE
    [] OTHER -> Kind(x) = "table"
Asks(T, x) == T[1] = "expected" => x # Nil
IsInstance(T, x) ==
  LET is[U \in Wanted] == Accepts(U, x) \/ (Asks(U, x) /\ \E P \in Parts(U) : is[P])
  IN  is[T]
-----------------------------------------------------------------------------
(* A push leaves one value more, or none: also when one element in the     *)
(* middle of a container does not convert, or the stack is full            *)
(* (Vector.h:41, StackRestore). An error of Lua leaves no frame to look at.*)
PushIsWhole ==
  calls = <<>> => /\ now.at = "pushed" => Len(stack) = Len(before) + 1 /\ Front(stack) = before
                  /\ now.at = "notpushed" => stack = before

(* A get leaves the stack as it was, with every value on it unchanged      *)
(* (Stack.h:1010), an exception or an error too, and lua_next always       *)
(* finds the key it continues from.                                        *)
GetReadsOnly ==
  /\ calls = <<>> /\ now.at \in {"got", "notgot", "threw", "raised"} => stack = before
  /\ now.at # InvalidKey.at

(* The types for which isInstance promises more than get keeps, as a       *)
(* predicate of a type and its parts: an enum, whose values it does not    *)
(* know; a pointer to an object that is const; an object that points to    *)
(* nothing; a variant, if asking an alternative for this value does not    *)
(* end in an error code, by which the next one would be tried.             *)
Unkept(T, x) ==
  \/ T[1] = "enum"
  \/ /\ T[1] = "class" /\ Kind(x) = "object"
     /\ \/ T[3] = "pointer" /\ x[2].const
        \/ T[3] \in {"value", "converted"} /\ x[2].null
Leaves(T, x, mode) ==
  /\ T[1] = "class" /\ T[3] # "converted" /\ ~Serves(T, x)
  /\ mode = "enabled" \/ x = Nil \/ Found(T, x)
MayLeave(T, x, mode) ==
  LET may[U \in Wanted] == Leaves(U, x, mode) \/ \E P \in Parts(U) : may[P]
  IN  may[T]
Loose(T, x, mode) ==
  LET loose[U \in Wanted] == \/ Unkept(U, x) \/ (U[1] = "variant" /\ MayLeave(U, x, mode))
                             \/ \E P \in Parts(U) : loose[P]
  IN  loose[T]

(* An argument that isInstance accepts for an overload converts            *)
(* (Stack.h:1064, Variant.h:35), if it is not a table, whose elements      *)
(* isInstance does not look at, and the type is none of those above.       *)
Exact(T, x, mode) == Kind(x) # "table" /\ ~Loose(T, x, mode)
CheckedConverts ==
  calls = <<>> /\ now.at \in {"notgot", "threw", "raised"}
               /\ Exact(now.type, stack[now.index], exceptions)
    => ~IsInstance(now.type, stack[now.index])

(* An integer that C++ gets, by itself or in a container, is the number    *)
(* Lua has at that place, whatever the width and the sign                  *)
(* (is_integral_representable_by, LuaHelpers.h:620): unsigned types wider  *)
(* than lua_Integer are excepted, which take a negative number.            *)
Exactly(t) == t \in IntegerTypes /\ (t.signed \/ t.half <= LuaHalf)
IntegersArrive ==
  now.at = "got" /\ now.type[1] \in {"integer", "enum"} /\ Exactly(now.type[2])
    => stack[now.index] = Number(2 * now.value)
=============================================================================
