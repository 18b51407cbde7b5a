-------------------------- MODULE RegistrationChain --------------------------
(***************************************************************************)
(* The registration objects of Namespace.h: Namespace, Class and Table,    *)
(* which keep the tables they fill on the Lua stack between the calls of a *)
(* chain, count in m_stackSize how many, and pop that many when they are   *)
(* destroyed. A begin or end call moves the count to the object it         *)
(* returns; an exception leaves it with nobody but the destructors.        *)
(*                                                                         *)
(* An object of the model is a C++ variable or temporary; it lives from    *)
(* its construction to its place in the reverse order of destruction. The  *)
(* program uses the object whose tables are on top, as the code requires   *)
(* ("The parent namespace is at the top of the Lua stack").                *)
(***************************************************************************)
EXTENDS Integers, FiniteSets, SequencesExt

CONSTANTS Obj,         \* registration objects
          Name,        \* names of functions, namespaces and tables
          Class,       \* C++ classes; a class is bound to its own name
          MaxTables,   \* bound: tables created
          MaxDepth,    \* bound: entries on the stack
          MaxMembers   \* bound: no more members once there are as many

(* Keys of the library: light userdata, which no name equals, and the      *)
(* metamethods that it stores in a class itself.                           *)
LightKeys == {"converters", "properties"}
Reserved == LightKeys \union {"__call", "__destruct"}

ASSUME ChainAssumption == /\ MaxTables \in Nat \ {0}
                          /\ MaxDepth \in Nat /\ MaxMembers \in Nat
                          /\ Name \cap Class = {}
                          /\ (Name \union Class) \cap LightKeys = {}

VARIABLES
  stack,      \* the Lua stack: tables, as indices of heap
  own,        \* how many of its entries the program itself pushed
  heap,       \* the tables created: their part and their fields
  obj,        \* obj[o]: kind and m_stackSize, m_skipStackPops of o
  alive,      \* the objects in order of construction
  registered  \* registered[c]: co, cl and st of c in the Lua registry, or <<>>

vars == <<stack, own, heap, obj, alive, registered>>

Key == Name \union Class \union Reserved
Nil == 0
Function == -1          \* a C function; a positive value is a table
Global == 1
NewTable(part) == [part |-> part, field |-> [k \in Key |-> Nil]]
Empty == [kind |-> "none", size |-> 0, skip |-> 0]

Init ==
  /\ stack = <<>> /\ own = 0
  /\ heap = <<NewTable("global")>>
  /\ obj = [o \in Obj |-> Empty]
  /\ alive = <<>>
  /\ registered = [c \in Class |-> <<>>]

Top(k) == stack[Len(stack) + 1 - k]      \* the k-th entry from the top
Popped(n) == SubSeq(stack, 1, Len(stack) - n)
Fits(n) == Len(heap) + n <= MaxTables
Room(n) == Len(stack) + n <= MaxDepth
Active(o) == obj[o].size > 0
Living(o) == o \in Range(alive)
Younger(o) == {alive[i] : i \in {j \in DOMAIN alive : \E k \in 1..j - 1 : alive[k] = o}}
Innermost(o) == Living(o) /\ Active(o) /\ \A p \in Younger(o) : ~Active(p)

(* Store value under k in table t.                                         *)
Set(h, t, k, value) == [h EXCEPT ![t].field[k] = value]

(* w receives kind and counters, and from, when it is another object, is   *)
(* moved from. w is a new object, or one that counts nothing: the move     *)
(* assignment forgets the count it overwrites. Objects stay nested.        *)
MayReceive(from, w, kind) ==
  IF Living(w) THEN /\ obj[w].kind = kind
                    /\ w = from \/ ~Active(w)
                    /\ \A p \in Younger(w) : p = from \/ ~Active(p)
               ELSE TRUE
Move(from, w, kind, size, skip) ==
  /\ MayReceive(from, w, kind)
  /\ obj' = [[obj EXCEPT ![from].size = 0, ![from].skip = 0]
               EXCEPT ![w] = [kind |-> kind, size |-> size, skip |-> skip]]
  /\ alive' = IF Living(w) THEN alive ELSE Append(alive, w)
-----------------------------------------------------------------------------
(* The program pushes a table of its own and removes it.                   *)
ProgramPush ==
  /\ \A o \in Obj : ~Active(o)
  /\ own = 0 /\ Fits(1)
  /\ \A t \in DOMAIN heap : heap[t].part # "user"     \* bound: once
  /\ heap' = Append(heap, NewTable("user"))
  /\ stack' = Append(stack, Len(heap) + 1) /\ own' = own + 1
  /\ UNCHANGED <<obj, alive, registered>>
ProgramPop ==
  /\ \A o \in Obj : ~Active(o)
  /\ own > 0
  /\ stack' = Popped(1) /\ own' = own - 1
  /\ UNCHANGED <<heap, obj, alive, registered>>

(* getGlobalNamespace and getNamespaceFromStack. The second takes the      *)
(* table on top, which it leaves there, and gives it empty tables of       *)
(* properties, also when it had some.                                      *)
GlobalNamespace(w) ==
  /\ Room(1)
  /\ Move(w, w, "ns", 1, 0) /\ ~Active(w)
  /\ stack' = Append(stack, Global)
  /\ UNCHANGED <<own, heap, registered>>
NamespaceFromStack(w) ==
  /\ stack # <<>> /\ heap[Top(1)].part = "user"
  /\ Move(w, w, "ns", 1, 1) /\ ~Active(w)
  /\ heap' = Set(heap, Top(1), "properties", Nil)
  /\ UNCHANGED <<stack, own, registered>>

(* The calls that open something move *this first, whether they succeed    *)
(* or not.                                                                 *)
Opens(o, kind) == Innermost(o) /\ obj[o].kind = kind

(* beginNamespace: the table of that name is opened, or created.           *)
FoundNothing(n) == Nil
Found(n) == heap[Top(1)].field[n]
BeginNamespace(o, w, n) ==
  /\ Opens(o, "ns") /\ Room(1)
  /\ LET old == Found(n)
         t == IF old = Nil THEN Len(heap) + 1 ELSE old
     IN  /\ old # Function                        \* LUABRIDGE_ASSERT: a table
         /\ IF old = Nil
              THEN /\ Fits(1)
                   /\ heap' = Set(Append(heap, NewTable("ns")), Top(1), n, t)
              ELSE UNCHANGED heap
         /\ stack' = Append(stack, t)
  /\ Move(o, w, "ns", obj[o].size + 1, obj[o].skip)
  /\ UNCHANGED <<own, registered>>

(* beginTable: always a new table, and its metatable on top of it.         *)
BeginTable(o, w, n) ==
  /\ Opens(o, "ns") /\ Fits(2) /\ Room(2)
  /\ heap[Top(1)].field[n] \notin Range(stack)    \* not one in use by a chain
  /\ LET t == Len(heap) + 1
     IN  /\ heap' = Set(heap \o <<NewTable("tb"), NewTable("mt")>>, Top(1), n, t)
         /\ stack' = stack \o <<t, t + 1>>
  /\ Move(o, w, "table", obj[o].size + 2, obj[o].skip)
  /\ UNCHANGED <<own, registered>>

(* beginClass: three new tables in the registry, or those found there. A   *)
(* class is registered in one place, as its tables are found by type.      *)
ContinuedUnordered(c, st) == <<st, registered[c][1], registered[c][2]>>
Continued(c, st) == <<registered[c][1], registered[c][2], st>>
BeginClass(o, w, c) ==
  /\ Opens(o, "ns") /\ Room(3)
  /\ IF heap[Top(1)].field[c] = Nil
       THEN LET t == Len(heap) + 1
            IN  /\ Fits(3) /\ registered[c] = <<>>
                /\ heap' = Set(heap \o <<NewTable("co"), NewTable("cl"), NewTable("st")>>,
                               Top(1), c, t + 2)
                /\ registered' = [registered EXCEPT ![c] = <<t, t + 1, t + 2>>]
       ELSE /\ registered[c] # <<>> /\ heap[Top(1)].field[c] = registered[c][3]
            /\ UNCHANGED <<heap, registered>>
  /\ stack' = stack \o (IF registered[c] = <<>> THEN registered'[c]
                        ELSE Continued(c, heap[Top(1)].field[c]))
  /\ Move(o, w, "class", obj[o].size + 3, obj[o].skip)
  /\ UNCHANGED own

(* deriveClass with one base. Without the base the exception destroys the  *)
(* half-built Class and with it the tables of the whole chain; the name    *)
(* stays bound.                                                            *)
DeriveTables(c) ==
  LET t == Len(heap) + 1
  IN  Set(heap \o <<NewTable("co"), NewTable("cl"), NewTable("st")>>, Top(1), c, t + 2)
DeriveClass(o, w, c, base) ==
  /\ Opens(o, "ns") /\ Fits(3) /\ Room(3)
  /\ registered[c] = <<>> /\ heap[Top(1)].field[c] = Nil   \* "only once"
  /\ c # base /\ registered[base] # <<>>
  /\ heap' = DeriveTables(c)
  /\ LET t == Len(heap) + 1
     IN  /\ registered' = [registered EXCEPT ![c] = <<t, t + 1, t + 2>>]
         /\ stack' = stack \o <<t, t + 1, t + 2>>
  /\ Move(o, w, "class", obj[o].size + 3, obj[o].skip)
  /\ UNCHANGED own
DeriveClassThrows(o, c, base) ==
  /\ Opens(o, "ns") /\ Fits(3) /\ Room(3)
  /\ registered[c] = <<>> /\ heap[Top(1)].field[c] = Nil
  /\ c # base /\ registered[base] = <<>>
  /\ heap' = DeriveTables(c)
  /\ stack' = Popped(obj[o].size - obj[o].skip)
  /\ obj' = [obj EXCEPT ![o].size = 0, ![o].skip = 0]
  /\ UNCHANGED <<own, alive, registered>>

(* The calls that close what was opened. endNamespace on the outermost     *)
(* namespace throws and changes nothing.                                   *)
Closed(kind) == CASE kind = "ns" -> 1 [] kind = "table" -> 2 [] kind = "class" -> 3
End(o, w) ==
  LET n == Closed(obj[o].kind)
  IN  /\ Innermost(o) /\ obj[o].size > n
      /\ stack' = Popped(n)
      /\ Move(o, w, "ns", obj[o].size - n, obj[o].skip)
      /\ UNCHANGED <<own, heap, registered>>

(* The destructor pops what the object still counts.                       *)
DestroyUnskipped(o) ==
  /\ alive # <<>> /\ Last(alive) = o
  /\ stack' = Popped(obj[o].size)
  /\ obj' = [obj EXCEPT ![o] = Empty]
  /\ alive' = Front(alive)
  /\ UNCHANGED <<own, heap, registered>>
Destroy(o) ==
  /\ alive # <<>> /\ Last(alive) = o
  /\ stack' = Popped(obj[o].size - obj[o].skip)
  /\ obj' = [obj EXCEPT ![o] = Empty]
  /\ alive' = Front(alive)
  /\ UNCHANGED <<own, heap, registered>>
-----------------------------------------------------------------------------
(* What is registered through an open object, k entries from the top.      *)
Members == {m \in (DOMAIN heap) \X Key : heap[m[1]].field[m[2]] = Function}
Register(o, kind, ks, name) ==
  /\ Innermost(o) /\ obj[o].kind = kind
  /\ Cardinality(Members) < MaxMembers
  /\ heap' = [t \in DOMAIN heap |->
                IF t \in {Top(k) : k \in ks}
                THEN [heap[t] EXCEPT !.field[name] = Function] ELSE heap[t]]
  /\ UNCHANGED <<stack, own, obj, alive, registered>>

(* addFunction, addVariable and addCoroutine of Namespace. A variable that *)
(* fails to convert throws before it is stored.                            *)
AddToNamespace(o, n) == /\ Register(o, "ns", {1}, n)
                        /\ heap[Top(1)].field[n] \notin Range(stack)

(* addProperty needs the propget table that the namespaces made here have, *)
(* and throws on the global table.                                         *)
AddProperty(o) == /\ Register(o, "ns", {1}, "properties")
                  /\ heap[Top(1)].part \in {"ns", "user"}
AddToTable(o, n) == Register(o, "table", {2}, n)
AddToMetatable(o, n) == Register(o, "table", {1}, n)
AddStatic(o, n) == Register(o, "class", {1}, n)
AddMethod(o, n) == Register(o, "class", {2}, n)
AddConstMethod(o, n) == Register(o, "class", {2, 3}, n)
AddConstructor(o) == Register(o, "class", {1}, "__call")
AddDestructor(o) == Register(o, "class", {2}, "__destruct")
AddConverter(o) == Register(o, "class", {2, 3}, "converters")

Open(o, w) ==
  \/ \E n \in Name : BeginNamespace(o, w, n) \/ BeginTable(o, w, n)
  \/ \E c \in Class : \/ BeginClass(o, w, c)
                      \/ \E base \in Class : DeriveClass(o, w, c, base)
Add(o) ==
  \/ \E n \in Name : \/ AddToNamespace(o, n) \/ AddToTable(o, n) \/ AddToMetatable(o, n)
                     \/ AddStatic(o, n) \/ AddMethod(o, n) \/ AddConstMethod(o, n)
  \/ AddProperty(o) \/ AddConstructor(o) \/ AddDestructor(o) \/ AddConverter(o)

Next ==
  \/ ProgramPush \/ ProgramPop
  \/ \E o \in Obj : GlobalNamespace(o) \/ NamespaceFromStack(o) \/ Destroy(o) \/ Add(o)
  \/ \E o, w \in Obj : Open(o, w) \/ End(o, w)
  \/ \E o \in Obj : \E c, base \in Class : DeriveClassThrows(o, c, base)

Spec == Init /\ [][Next]_vars
-----------------------------------------------------------------------------
(* Where the tables of the i-th living object end on the stack.            *)
Pops(o) == obj[o].size - obj[o].skip
Below(i) ==
  LET top[k \in 0..Len(alive)] == IF k = 0 THEN own ELSE top[k - 1] + Pops(alive[k])
  IN  top[i]
Segment(i) == SubSeq(stack, Below(i - 1) + 1 - obj[alive[i]].skip, Below(i))

(* The stack holds the program's entries and exactly those that the living *)
(* objects still have to pop, whatever was moved, ended or thrown          *)
(* (m_stackSize and m_skipStackPops of Registrar, Namespace.h:60).         *)
StackBalanced == Len(stack) = Below(Len(alive))

(* What an object has on the stack is what its member functions index:     *)
(* each table was opened in the one before it, and the last ones are those *)
(* of its kind, for a class the three of the registry                      *)
(* (assertStackState, the LUABRIDGE_ASSERTs on lua_istable).               *)
Opened(s, i) ==
  CASE heap[s[i]].part \in {"ns", "tb"} ->
         i > 1 /\ \E n \in Name : heap[s[i - 1]].field[n] = s[i]
    [] heap[s[i]].part = "co" ->
         /\ i > 1 /\ i + 2 = Len(s)
         /\ \E c \in Class : /\ registered[c] = SubSeq(s, i, i + 2)
                              /\ heap[s[i - 1]].field[c] = s[i + 2]
    [] heap[s[i]].part \in {"cl", "st"} -> i > 2 /\ heap[s[Len(s) - 2]].part = "co"
    [] heap[s[i]].part = "mt" -> i = Len(s) /\ heap[s[i - 1]].part = "tb"
    [] OTHER -> i = 1
LastParts == [ns |-> {"global", "user", "ns", "tb"}, class |-> {"st"}, table |-> {"mt"}]
ChainsOnTheirTables ==
  \A i \in DOMAIN alive :
    Active(alive[i]) => LET s == Segment(i)
                        IN  /\ \A j \in DOMAIN s : Opened(s, j)
                            /\ heap[Last(s)].part \in LastParts[obj[alive[i]].kind]

(* A namespace or class that was opened is found again under its name by   *)
(* later chains; only a table, a variable or a function of that name takes *)
(* its place.                                                              *)
ReopenedIsSame ==
  [][\A t \in DOMAIN heap, k \in Name \union Class :
        heap[t].field[k] > 0 /\ heap'[t].field[k] # heap[t].field[k]
          => /\ k \in Name
             /\ heap'[t].field[k] = Function \/ heap'[heap'[t].field[k]].part = "tb"]_vars
=============================================================================
