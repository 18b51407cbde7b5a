--------------------------- MODULE ObjectLifetime ---------------------------
(***************************************************************************)
(* The four kinds of userdata that hold an object of a registered class    *)
(* (Userdata.h), the constructors and factories that fill them and the     *)
(* __gc metamethod that empties them (CFunctions.h), for one class.        *)
(*                                                                         *)
(* Lua and C++ take turns on one thread, but a turn may end anywhere user  *)
(* code runs: inside a constructor, and inside the hook of addDestructor,  *)
(* which may do all that C++ may do.                                       *)
(***************************************************************************)
EXTENDS Integers, FiniteSets

CONSTANTS Object,     \* places in memory where one object may live
          Null,       \* the null pointer
          Handle,     \* userdata slots; a collected one is used again
          NoHandle,   \* no finalizer is running
          MaxHolders  \* bound: shared_ptr copies C++ holds of one object

ASSUME LifetimeAssumption ==
  /\ Null \notin Object /\ NoHandle \notin Handle
  /\ IsFiniteSet(Handle) /\ MaxHolders \in Nat \ {0}

VARIABLES
  life,        \* "raw", "alive", "dead", or "broken" by a destructor run in vain
  strong,      \* the reference count in the control block of a shared object
  holders,     \* the owners C++ has: containers, or the one of a plain object
  handle,      \* the userdata
  reachable,   \* the userdata Lua still refers to, its stack included
  building,    \* those whose constructor is running
  finalizing,  \* the one whose __gc is running the destructor hook
  registered,  \* the class is registered
  hook         \* addDestructor was called

objects == <<life, strong, holders>>
class == <<registered, hook>>
vars == <<objects, handle, reachable, building, finalizing, class>>

(* "at" is where the object is or will be, "ptr" is m_p.  A block is a     *)
(* userdata whose push failed: it never got a metatable.                   *)
Userdata == [kind : {"free", "block", "value", "pointer", "external", "shared"},
             at : Object \union {Null}, ptr : Object \union {Null},
             meta : {"none", "cl", "co"}]
Blank(kind) == [kind |-> kind, at |-> Null, ptr |-> Null, meta |-> "none"]
Holding(kind, o, meta) == [kind |-> kind, at |-> o, ptr |-> o, meta |-> meta]

TypeOK ==
  /\ life \in [Object -> {"raw", "alive", "dead", "broken"}]
  /\ strong \in [Object -> Int] /\ holders \in [Object -> 0..MaxHolders]
  /\ handle \in [Handle -> Userdata]
  /\ building \subseteq reachable /\ reachable \subseteq {h \in Handle : handle[h].kind # "free"}
  /\ finalizing \in (Handle \ reachable) \union {NoHandle}
  /\ registered \in BOOLEAN /\ hook \in BOOLEAN

Init ==
  /\ life = [o \in Object |-> "raw"]
  /\ strong = [o \in Object |-> 0] /\ holders = [o \in Object |-> 0]
  /\ handle = [h \in Handle |-> Blank("free")]
  /\ reachable = {} /\ building = {} /\ finalizing = NoHandle
  /\ registered = FALSE /\ hook = FALSE

Fresh(o) == life[o] = "raw" /\ \A h \in Handle : handle[h].at # o
Free(h) == handle[h].kind = "free"

(* A destructor where no object lives is undefined behaviour.              *)
Destroyed(o) == [life EXCEPT ![o] = IF @ = "alive" THEN "dead" ELSE "broken"]

-----------------------------------------------------------------------------
(* The class.                                                              *)

RegisterClass == /\ ~registered /\ registered' = TRUE
                 /\ UNCHANGED <<objects, handle, reachable, building, finalizing, hook>>

AddDestructor == /\ registered /\ hook' = TRUE
                 /\ UNCHANGED <<objects, handle, reachable, building, finalizing, registered>>

-----------------------------------------------------------------------------
(* What C++ does with its objects: new, make_shared, copy, and delete or   *)
(* release.  It keeps the rule of the documentation, never to delete an    *)
(* object while Lua still refers to it by pointer.                         *)

Create(o, count) ==
  /\ Fresh(o)
  /\ life' = [life EXCEPT ![o] = "alive"]
  /\ strong' = [strong EXCEPT ![o] = count]

CppCreate(o) ==
  /\ \E count \in {0, 1} : Create(o, count)
  /\ holders' = [holders EXCEPT ![o] = 1]
  /\ UNCHANGED <<handle, reachable, building, finalizing, class>>

CppCopy(o) ==
  /\ strong[o] > 0 /\ holders[o] \in 1..(MaxHolders - 1)
  /\ strong' = [strong EXCEPT ![o] = @ + 1]
  /\ holders' = [holders EXCEPT ![o] = @ + 1]
  /\ UNCHANGED <<life, handle, reachable, building, finalizing, class>>

(* The last of the owners destroys the object.                             *)
ReleaseShared(o) ==
  /\ strong' = [strong EXCEPT ![o] = @ - 1]
  /\ life' = IF strong[o] = 1 THEN Destroyed(o) ELSE life

CppRelease(o) ==
  /\ holders[o] > 0
  /\ strong[o] <= 1 => \A h \in reachable : ~(handle[h].kind = "pointer" /\ handle[h].at = o)
  /\ IF strong[o] > 0 THEN ReleaseShared(o)
                      ELSE life' = Destroyed(o) /\ UNCHANGED strong
  /\ holders' = [holders EXCEPT ![o] = @ - 1]
  /\ UNCHANGED <<handle, reachable, building, finalizing, class>>

-----------------------------------------------------------------------------
(* Pushing.  Every push creates the userdata and then looks for the        *)
(* metatable; without one the userdata is destroyed by hand and stays on   *)
(* the stack as a block.                                                   *)

Pushed(h, ud) ==
  /\ Free(h)
  /\ handle' = [handle EXCEPT ![h] = ud]
  /\ reachable' = reachable \union {h}
  /\ UNCHANGED <<finalizing, class>>

(* UserdataValue::place, for a constructor or a push by value.             *)
Place(h, o) ==
  /\ Fresh(o)
  /\ IF registered
     THEN /\ Pushed(h, [kind |-> "value", at |-> o, ptr |-> Null, meta |-> "cl"])
          /\ building' = building \union {h}
     ELSE Pushed(h, Blank("block")) /\ UNCHANGED building
  /\ UNCHANGED objects

(* The constructor returns, and commit confirms the object.                *)
Construct(h) ==
  /\ h \in building
  /\ life' = [life EXCEPT ![handle[h].at] = "alive"]
  /\ handle' = [handle EXCEPT ![h].ptr = handle[h].at]
  /\ building' = building \ {h}
  /\ UNCHANGED <<strong, holders, reachable, finalizing, class>>

(* A constructor called by a script throws: the Lua error unwinds the      *)
(* stack, and the userdata with it.                                        *)
ConstructorThrows(h) ==
  /\ h \in building
  /\ building' = building \ {h} /\ reachable' = reachable \ {h}
  /\ UNCHANGED <<objects, handle, finalizing, class>>

(* The copy of a push by value throws.  Nothing is caught on the way, and  *)
(* the userdata stays on the stack, with its metatable and no object.      *)
PushThrows(h) ==
  /\ h \in building
  /\ building' = building \ {h}
  /\ UNCHANGED <<objects, handle, reachable, finalizing, class>>

HookRuns(h) == hook /\ handle[h].meta = "cl"

(* C++ has a pointer to o: it is an owner, got it from a userdata, or is   *)
(* in the hook.                                                            *)
Known(o) == \/ holders[o] > 0
            \/ \E h \in reachable : handle[h].ptr = o
            \/ finalizing # NoHandle /\ HookRuns(finalizing) /\ handle[finalizing].ptr = o

(* UserdataPtr::push, of an object or of a const one.                      *)
PushPointer(h, o, meta) ==
  /\ life[o] = "alive" /\ Known(o)
  /\ Pushed(h, IF registered THEN Holding("pointer", o, meta) ELSE Blank("block"))
  /\ UNCHANGED <<objects, building>>

(* Mutant: the userdata of a failed push is not destroyed.                 *)
PushSharedLeaking(h, o, meta) ==
  /\ strong[o] > 0 /\ holders[o] > 0
  /\ Pushed(h, IF registered THEN Holding("shared", o, meta) ELSE Blank("block"))
  /\ strong' = [strong EXCEPT ![o] = @ + 1]
  /\ UNCHANGED <<life, holders, building>>

(* UserdataSharedHelper::push: the userdata has a copy of the container,   *)
(* which dies with the userdata when the class is not registered.          *)
PushShared(h, o, meta) ==
  /\ strong[o] > 0 /\ holders[o] > 0
  /\ Pushed(h, IF registered THEN Holding("shared", o, meta) ELSE Blank("block"))
  /\ strong' = IF registered THEN [strong EXCEPT ![o] = @ + 1] ELSE strong
  /\ UNCHANGED <<life, holders, building>>

(* constructor_container_proxy, container_forwarder: the container of the  *)
(* userdata is the only one that outlives the call.                        *)
ConstructShared(h, o) ==
  /\ registered
  /\ Create(o, 1)
  /\ Pushed(h, Holding("shared", o, "cl"))
  /\ UNCHANGED <<holders, building>>

(* factory_forwarder: the object comes from the allocator.                 *)
Factory(h, o) ==
  /\ registered
  /\ Create(o, 0)
  /\ Pushed(h, Holding("external", o, "cl"))
  /\ UNCHANGED <<holders, building>>

(* Mutant: the container is made from the raw pointer, with its own count. *)
GetSharedUncounted(h, o) ==
  /\ h \in reachable \/ (h = finalizing /\ HookRuns(h))
  /\ handle[h].ptr = o
  /\ strong[o] > 0 /\ holders[o] < MaxHolders
  /\ holders' = [holders EXCEPT ![o] = @ + 1]
  /\ UNCHANGED <<life, strong, handle, reachable, building, finalizing, class>>

(* Stack<shared_ptr>::get, or shared_from_this in the hook: a container    *)
(* made from the raw pointer joins the owners.                             *)
GetShared(h, o) ==
  /\ h \in reachable \/ (h = finalizing /\ HookRuns(h))
  /\ handle[h].ptr = o
  /\ strong[o] > 0 /\ holders[o] < MaxHolders
  /\ strong' = [strong EXCEPT ![o] = @ + 1]
  /\ holders' = [holders EXCEPT ![o] = @ + 1]
  /\ UNCHANGED <<life, handle, reachable, building, finalizing, class>>

-----------------------------------------------------------------------------
(* Collection.                                                             *)

(* Lua loses its last reference to the userdata.                           *)
Drop(h) ==
  /\ h \in reachable \ building
  /\ reachable' = reachable \ {h}
  /\ UNCHANGED <<objects, handle, building, finalizing, class>>

Garbage(h) == ~Free(h) /\ h \notin reachable

(* gc_metamethod calls the hook first.                                     *)
BeginCollect(h) ==
  /\ Garbage(h) /\ handle[h].meta # "none" /\ finalizing = NoHandle
  /\ finalizing' = h
  /\ UNCHANGED <<objects, handle, reachable, building, class>>

(* Mutants: the value destructor does not look at m_p; the external one    *)
(* forgets the deallocator.                                                *)
DestructorUnchecked(ud) ==
  CASE ud.kind \in {"value", "external"} -> life' = Destroyed(ud.at) /\ UNCHANGED strong
    [] ud.kind = "shared" -> ReleaseShared(ud.at)
    [] OTHER -> UNCHANGED <<life, strong>>
DestructorLeaking(ud) ==
  CASE ud.kind = "value" -> /\ life' = IF ud.ptr # Null THEN Destroyed(ud.at) ELSE life
                            /\ UNCHANGED strong
    [] ud.kind = "shared" -> ReleaseShared(ud.at)
    [] OTHER -> UNCHANGED <<life, strong>>

(* The destructor of each kind of userdata.                                *)
Destructor(ud) ==
  CASE ud.kind = "value" -> /\ life' = IF ud.ptr # Null THEN Destroyed(ud.at) ELSE life
                            /\ UNCHANGED strong
    [] ud.kind = "external" -> life' = Destroyed(ud.at) /\ UNCHANGED strong
    [] ud.kind = "shared" -> ReleaseShared(ud.at)
    [] OTHER -> UNCHANGED <<life, strong>>

EndCollect ==
  /\ finalizing # NoHandle
  /\ Destructor(handle[finalizing])
  /\ handle' = [handle EXCEPT ![finalizing] = Blank("free")]
  /\ finalizing' = NoHandle
  /\ UNCHANGED <<holders, reachable, building, class>>

(* A block has no metamethods: its memory is freed, nothing else.          *)
Sweep(h) ==
  /\ Garbage(h) /\ handle[h].meta = "none"
  /\ handle' = [handle EXCEPT ![h] = Blank("free")]
  /\ UNCHANGED <<objects, reachable, building, finalizing, class>>

Cpp(o) == CppCreate(o) \/ CppCopy(o) \/ CppRelease(o)
Push(h, o) == \/ Place(h, o) \/ ConstructShared(h, o) \/ Factory(h, o) \/ GetShared(h, o)
              \/ \E meta \in {"cl", "co"} : PushPointer(h, o, meta) \/ PushShared(h, o, meta)
Collector(h) == Drop(h) \/ BeginCollect(h) \/ Sweep(h)

Next == \/ RegisterClass \/ AddDestructor \/ EndCollect
        \/ \E o \in Object : Cpp(o) \/ \E h \in Handle : Push(h, o)
        \/ \E h \in Handle : \/ Construct(h) \/ ConstructorThrows(h) \/ PushThrows(h)
                             \/ Collector(h)

Spec == Init /\ [][Next]_vars

(* The hook returns, and Lua finalizes every userdata it finds dead, in    *)
(* turn, in some collection cycle or when the state is closed.             *)
FairSpec == Spec /\ WF_vars(EndCollect) /\ \A h \in Handle : SF_vars(BeginCollect(h))

-----------------------------------------------------------------------------
Owning == {"value", "external", "shared"}
Owns(h, o) == handle[h].kind \in Owning /\ handle[h].ptr = o

(* No destructor or deallocator runs where no object lives: not for an     *)
(* object whose constructor threw, not twice, and never by collecting a    *)
(* pointer to an object of C++.                                            *)
NoVainDestructor == \A o \in Object : life[o] # "broken"

(* A userdata that a script can reach holds, if it is of a kind that owns  *)
(* its object, one that is alive and complete, whatever C++ released; or   *)
(* it is one whose copy threw, and the object in it was never alive.       *)
ReachableObjectAlive ==
  \A h \in reachable \ building :
     handle[h].kind \in Owning =>
       IF handle[h].ptr = Null THEN handle[h].kind = "value" /\ life[handle[h].at] = "raw"
                               ELSE life[handle[h].ptr] = "alive"

(* The object of a userdata lives while its last owner lives, no longer    *)
(* and no shorter, through every path of construction and collection.      *)
Owners == [o \in Object |-> holders[o] + Cardinality({h \in Handle : Owns(h, o)})]
Abstract == INSTANCE Ownership WITH state <- life, owners <- Owners
ImplementsOwnership == Abstract!OSpec

(* An object only garbage userdata own is destroyed in the end, unless the *)
(* hook hands a container of it to C++.                                    *)
Orphan(o) == /\ life[o] = "alive" /\ holders[o] = 0
             /\ \A h \in reachable : handle[h].ptr # o
             /\ \E h \in Handle : Owns(h, o)
GarbageIsDestroyed ==
  \A o \in Object : Orphan(o) ~> (life[o] = "dead" \/ holders[o] > 0)

(* constructors.md: the hook runs "in a context where the object is still  *)
(* fully valid".                                                           *)
HookSeesObject ==
  finalizing # NoHandle /\ HookRuns(finalizing)
    => handle[finalizing].ptr # Null
=============================================================================
