-------------------------- MODULE RegistryReferences --------------------------
(***************************************************************************)
(* LuaRef and TableItem (LuaRef.h): C++ objects that pin Lua values in     *)
(* slots of the registry.  A member of an object holds the index of a      *)
(* slot, and the object must release it exactly once, whatever way it is   *)
(* copied, moved, swapped, adopted or chained.                             *)
(*                                                                         *)
(* A LuaRef has one such member, m_ref; a TableItem has three, m_tableRef, *)
(* m_keyRef and m_parentKeyRef, and keys that are literals need no slot.   *)
(***************************************************************************)
EXTENDS Naturals, FiniteSets

CONSTANTS Ref,      \* LuaRef variables of the program
          Item,     \* TableItem variables and temporaries of the program
          Tmp,      \* the temporary of a copy-and-swap
          Table,    \* Lua tables
          Key,      \* values used as keys
          Literal,  \* the keys that are string literals
          Slot,     \* bound: slots of the registry
          Free,     \* content of a slot that is not in use
          Nil,      \* nil
          NoRef,    \* LUA_NOREF
          RefNil,   \* LUA_REFNIL
          MaxFields \* bound: fields of all tables

ASSUME ReferenceAssumption ==
  /\ Tmp \notin Ref \union Item /\ Ref \intersect Item = {} /\ Literal \subseteq Key
  /\ Free \notin Table \union Key /\ Nil \notin Table \union Key
  /\ Slot # {} /\ Slot \intersect (Literal \union {NoRef, RefNil}) = {}
  /\ {NoRef, RefNil} \intersect Literal = {} /\ NoRef # RefNil

VARIABLES registry,  \* registry[n]: the value in a slot, or Free
          index,     \* index[m]: the index, or literal, a member holds
          heap       \* heap[t][k]: the fields of the tables

vars == <<registry, index, heap>>

Value == Table \union Key
Index == Slot \union Literal \union {NoRef, RefNil}

RefOf(r) == <<r, "ref">>          \* m_ref
TableOf(i) == <<i, "table">>      \* m_tableRef
KeyOf(i) == <<i, "key">>          \* m_keyRef, m_keyLiteral
ParentOf(i) == <<i, "parent">>    \* m_parentKeyRef, m_parentKeyLiteral
Member == ((Ref \union {Tmp}) \X {"ref"}) \union ((Item \union {Tmp}) \X {"table", "key", "parent"})

RTypeOK == /\ registry \in [Slot -> Value \union {Free}]
           /\ index \in [Member -> Index]
           /\ heap \in [Table -> [Key -> Value \union {Nil}]]

Init == /\ registry = [n \in Slot |-> Free]
        /\ index = [m \in Member |-> NoRef]
        /\ heap \in [Table -> [Key -> {Nil}]]

-----------------------------------------------------------------------------
(* The registry and the members, as the calls of one operation change them *)
(* one after another.                                                      *)

Now == [reg |-> registry, at |-> index]
Become(s) == registry' = s.reg /\ index' = s.at

(* Two slots are free, as many as an operation takes.                      *)
Room == \A n \in Slot : {m \in Slot \ {n} : registry[m] = Free} # {}

(* Mutant: nil takes a slot like any value.                                *)
AcquireNil(s, m, v) ==
  LET n == CHOOSE n \in Slot : s.reg[n] = Free
  IN [reg |-> [s.reg EXCEPT ![n] = v], at |-> [s.at EXCEPT ![m] = n]]

(* luaL_ref into member m: nil needs no slot.                              *)
Acquire(s, m, v) ==
  IF v = Nil THEN [s EXCEPT !.at[m] = RefNil]
  ELSE LET n == CHOOSE n \in Slot : s.reg[n] = Free
       IN [reg |-> [s.reg EXCEPT ![n] = v], at |-> [s.at EXCEPT ![m] = n]]

(* luaL_unref of what m holds, where m is then overwritten or destroyed.   *)
Release(s, m) ==
  [reg |-> IF s.at[m] \in Slot THEN [s.reg EXCEPT ![s.at[m]] = Free] ELSE s.reg,
   at |-> [s.at EXCEPT ![m] = NoRef]]

(* m = std::exchange(o, LUA_NOREF)                                         *)
Take(s, m, o) == [s EXCEPT !.at = [@ EXCEPT ![m] = s.at[o], ![o] = NoRef]]

Swap(s, m, o) == [s EXCEPT !.at = [@ EXCEPT ![m] = s.at[o], ![o] = s.at[m]]]

(* lua_rawgeti with the index of m, or lua_pushstring of the literal.      *)
Pushed(s, m) == CASE s.at[m] \in Slot -> s.reg[s.at[m]]
                  [] s.at[m] \in Literal -> s.at[m]
                  [] OTHER -> Nil

ReleaseItem(s, i) == Release(Release(Release(s, KeyOf(i)), ParentOf(i)), TableOf(i))
TakeItem(s, i, j) ==
  Take(Take(Take(s, TableOf(i), TableOf(j)), KeyOf(i), KeyOf(j)), ParentOf(i), ParentOf(j))
SwapItem(s, i, j) ==
  Swap(Swap(Swap(s, TableOf(i), TableOf(j)), KeyOf(i), KeyOf(j)), ParentOf(i), ParentOf(j))

(* The key of a new proxy; a literal is kept as a pointer.                 *)
SetKey(s, i, k) == IF k \in Literal THEN [s EXCEPT !.at[KeyOf(i)] = k]
                                    ELSE Acquire(s, KeyOf(i), k)

-----------------------------------------------------------------------------
(* What objects refer to.  Indexing what is no table raises an error,      *)
(* before anything has changed.                                            *)

Get(t, k) == IF t \in Table /\ k \in Key THEN heap[t][k] ELSE Nil

Chained(i) == index[ParentOf(i)] # NoRef
Root(i) == Pushed(Now, TableOf(i))

(* TableItem::pushTable                                                    *)
Holder(i) == IF Chained(i) THEN Get(Root(i), Pushed(Now, ParentOf(i))) ELSE Root(i)
HasHolder(i) == Chained(i) => Root(i) \in Table

(* TableItem::push                                                         *)
Element(i) == Get(Holder(i), Pushed(Now, KeyOf(i)))
HasElement(i) == HasHolder(i) /\ Holder(i) \in Table

(* There is no object i, or it was moved from.                             *)
Blank(i) == \A m \in {TableOf(i), KeyOf(i), ParentOf(i)} : index[m] = NoRef

-----------------------------------------------------------------------------
(* LuaRef.                                                                 *)

(* A new LuaRef, or an assignment, of any value: copy and swap.            *)
Replaced(r, v) == Release(Swap(Acquire(Now, RefOf(Tmp), v), RefOf(r), RefOf(Tmp)), RefOf(Tmp))

AssignValue(r, v) == Room /\ Become(Replaced(r, v)) /\ UNCHANGED heap

(* operator=(const LuaRef&), also with r = q, and moveTo.                  *)
CopyAssign(r, q) == Room /\ Become(Replaced(r, Pushed(Now, RefOf(q)))) /\ UNCHANGED heap

(* operator=(LuaRef&&) of another object.  It has no test for r = q, which *)
(* releases the slot and keeps its index: such a program is not modelled.  *)
MoveAssign(r, q) == /\ r # q
                    /\ Become(Take(Release(Now, RefOf(r)), RefOf(r), RefOf(q)))
                    /\ UNCHANGED heap

(* LuaRef(const TableItem&) and operator=(const TableItem&)                *)
AssignItem(r, i) == /\ HasElement(i) /\ Room
                    /\ Become(Replaced(r, Element(i)))
                    /\ UNCHANGED heap

(* pop: the old slot goes first.                                           *)
Pop(r, v) == /\ Room
             /\ Become(Acquire(Release(Now, RefOf(r)), RefOf(r), v))
             /\ UNCHANGED heap

(* The destructor, and operator=(const LuaNil&).                           *)
DestroyRef(r) == Become(Release(Now, RefOf(r))) /\ UNCHANGED heap

-----------------------------------------------------------------------------
(* TableItem.                                                              *)

(* LuaRef::operator[] const&: the proxy pins the table itself.             *)
IndexRef(i, r, k) ==
  /\ Blank(i) /\ Room
  /\ Become(Acquire(SetKey(Now, i, k), TableOf(i), Pushed(Now, RefOf(r))))
  /\ UNCHANGED heap

(* Mutant: the reference keeps its index.                                  *)
AdoptShared(i, r, k) ==
  /\ Blank(i) /\ Room
  /\ Become([SetKey(Now, i, k) EXCEPT !.at[TableOf(i)] = index[RefOf(r)]])
  /\ UNCHANGED heap

(* LuaRef::operator[] &&: the proxy adopts the slot of the reference.      *)
AdoptRef(i, r, k) ==
  /\ Blank(i) /\ Room
  /\ Become(Take(SetKey(Now, i, k), TableOf(i), RefOf(r)))
  /\ UNCHANGED heap

(* TableItem::operator[] const&, and && of a proxy that cannot chain.      *)
Child(i, j, k) ==
  /\ i # j /\ Blank(i) /\ HasElement(j) /\ Room
  /\ Become(Acquire(SetKey(Now, i, k), TableOf(i), Element(j)))
  /\ UNCHANGED heap

(* m_ownsTableRef is false only where there is nothing to own any more.    *)
CanChain(j) == ~Blank(j) /\ ~Chained(j)

(* Mutants: the key and the parent key the wrong way round; the parent key *)
(* left in the proxy it came from.                                         *)
ChainSwapped(i, j, k) ==
  /\ i # j /\ Blank(i) /\ CanChain(j) /\ Room
  /\ Become(Swap(SetKey(Take(Take(Now, TableOf(i), TableOf(j)), ParentOf(i), KeyOf(j)), i, k),
                 KeyOf(i), ParentOf(i)))
  /\ UNCHANGED heap
ChainShared(i, j, k) ==
  /\ i # j /\ Blank(i) /\ CanChain(j) /\ Room
  /\ LET s == Take(Now, TableOf(i), TableOf(j))
     IN Become(SetKey([s EXCEPT !.at[ParentOf(i)] = index[KeyOf(j)]], i, k))
  /\ UNCHANGED heap

(* TableItem::operator[] &&: the lookup of the parent key is put off.      *)
Chain(i, j, k) ==
  /\ i # j /\ Blank(i) /\ CanChain(j) /\ Room
  /\ Become(SetKey(Take(Take(Now, TableOf(i), TableOf(j)), ParentOf(i), KeyOf(j)), i, k))
  /\ UNCHANGED heap

(* TableItem(const TableItem&): a chained proxy is looked up, and the copy *)
(* is not chained.  A proxy without key leaves the copy without.           *)
Copied(s, i, j) ==
  LET t == Acquire(s, TableOf(i), Holder(j))
      key == index[KeyOf(j)]
  IN IF key = NoRef THEN t ELSE SetKey(t, i, Pushed(Now, KeyOf(j)))

CopyItem(i, j) == /\ i # j /\ Blank(i) /\ HasHolder(j) /\ Room
                  /\ Become(Copied(Now, i, j))
                  /\ UNCHANGED heap

CopyAssignItem(i, j) == /\ i # j /\ HasHolder(j) /\ Room
                        /\ Become(ReleaseItem(SwapItem(Copied(Now, Tmp, j), i, Tmp), Tmp))
                        /\ UNCHANGED heap

(* Both the move constructor and operator=(TableItem&&).                   *)
MoveAssignItem(i, j) == /\ i # j
                        /\ Become(TakeItem(ReleaseItem(Now, i), i, j))
                        /\ UNCHANGED heap

DestroyItem(i) == Become(ReleaseItem(Now, i)) /\ UNCHANGED heap

Fields(h) == {tk \in Table \X Key : h[tk[1]][tk[2]] # Nil}
SetField(t, k, v) == /\ heap' = [heap EXCEPT ![t][k] = v]
                     /\ Cardinality(Fields(heap')) <= MaxFields
                     /\ UNCHANGED <<registry, index>>

(* operator=(const T&) and rawset: the field changes, the proxy does not.  *)
Write(i, v) ==
  /\ HasElement(i) /\ Pushed(Now, KeyOf(i)) \in Key
  /\ SetField(Holder(i), Pushed(Now, KeyOf(i)), v)

(* A script, or LuaRef::setField and its like.                             *)
Script(t, k, v) == SetField(t, k, v)

-----------------------------------------------------------------------------
Contents == Table \union {Nil}

NextRef(r) ==
  \/ \E v \in Contents : AssignValue(r, v) \/ Pop(r, v)
  \/ \E q \in Ref : CopyAssign(r, q) \/ MoveAssign(r, q)
  \/ \E i \in Item : AssignItem(r, i)
  \/ DestroyRef(r)

NextItem(i) ==
  \/ \E r \in Ref, k \in Key : IndexRef(i, r, k) \/ AdoptRef(i, r, k)
  \/ \E j \in Item, k \in Key : Child(i, j, k) \/ Chain(i, j, k)
  \/ \E j \in Item : CopyItem(i, j) \/ CopyAssignItem(i, j) \/ MoveAssignItem(i, j)
  \/ \E v \in Contents : Write(i, v)
  \/ DestroyItem(i)

Next == \/ \E r \in Ref : NextRef(r)
        \/ \E i \in Item : NextItem(i)
        \/ \E t \in Table, k \in Key, v \in Contents : Script(t, k, v)

Spec == Init /\ [][Next]_vars

-----------------------------------------------------------------------------
NotDangling == \A m \in Member : index[m] \in Slot => registry[index[m]] # Free
NotShared == \A m, o \in Member : index[m] \in Slot /\ index[m] = index[o] => m = o
NotLeaked == \A n \in Slot : registry[n] # Free => \E m \in Member : index[m] = n

(* Each slot in use belongs to one member of one object, and no object     *)
(* holds a slot that was given back: every slot is released once, however  *)
(* the objects were copied, moved, adopted and chained.                    *)
OneOwner == NotDangling /\ NotShared /\ NotLeaked

(* An operation on one object changes what that object stands for, and of  *)
(* a moved-from one that it stands for nothing; all others keep their      *)
(* value or place, also when slots are used again.                         *)
PlaceOf(i) ==
  IF Blank(i) THEN [root |-> Nil, path |-> <<>>]
  ELSE [root |-> Root(i),
        path |-> CASE Chained(i) -> <<Pushed(Now, ParentOf(i)), Pushed(Now, KeyOf(i))>>
                   [] index[KeyOf(i)] = NoRef -> <<>>
                   [] OTHER -> <<Pushed(Now, KeyOf(i))>>]
Abstract == INSTANCE ReferenceValues WITH
              value <- [r \in Ref |-> Pushed(Now, RefOf(r))], place <- [i \in Item |-> PlaceOf(i)]
ImplementsValues == Abstract!RSpec

(* t[a][b] names the same element whether the proxy t[a] is a named        *)
(* variable, and looked up at once, or a temporary, and looked up later.   *)
ChainIsChild ==
  [][\A i, j \in Item, k \in Key :
       Chain(i, j, k) => Holder(i)' = Element(j) /\ Element(i)' = Get(Element(j), k)]_vars

(* table-proxies.md: after "v [3] = v [1]" the element 3 is what the       *)
(* element 1 is.                                                           *)
AssignmentWrites ==
  [][\A i, j \in Item :
       MoveAssignItem(i, j) /\ HasElement(i) /\ HasElement(j) /\ Pushed(Now, KeyOf(i)) \in Key
         => heap'[Holder(i)][Pushed(Now, KeyOf(i))] = Element(j)]_vars
=============================================================================
