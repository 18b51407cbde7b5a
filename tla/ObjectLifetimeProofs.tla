------------------------ MODULE ObjectLifetimeProofs ------------------------
(***************************************************************************)
(* Proof that no destructor runs in vain, that what a script can reach is  *)
(* alive, and that userdata and containers implement Ownership, for every  *)
(* number of objects, userdata and containers.                             *)
(***************************************************************************)
EXTENDS ObjectLifetime, FiniteSetTheorems, TLAPS

OwnersOf(hd, o) == {g \in Handle : hd[g].kind \in Owning /\ hd[g].ptr = o}
Count(o) == holders[o] + Cardinality(OwnersOf(handle, o))

(* A value whose constructor did not return.                               *)
Unfilled(h) == handle[h].kind = "value" /\ handle[h].ptr = Null

Shape(ud) ==
  /\ ud.kind \in {"free", "block"} => ud = Blank(ud.kind)
  /\ ud.kind = "value" => ud.at \in Object /\ ud.ptr \in {ud.at, Null} /\ ud.meta = "cl"
  /\ ud.kind \in {"pointer", "external", "shared"} =>
       ud.at \in Object /\ ud.ptr = ud.at /\ ud.meta # "none"
ShapeInv == \A h \in Handle : Shape(handle[h])

(* A place that is built on belongs to one userdata, and nobody built there*)
(* before. Those that run a constructor are unfilled, and so stays one     *)
(* whose constructor threw.                                                *)
BuildInv ==
  /\ \A h \in building : Unfilled(h)
  /\ \A h \in Handle : Unfilled(h) =>
       /\ life[handle[h].at] = "raw"
       /\ \A g \in Handle \ {h} : handle[g].at # handle[h].at

FinalInv == finalizing # NoHandle => handle[finalizing].meta # "none"

(* An object lives as long as it has owners. A shared one counts them all, *)
(* and they are containers; another has one.                               *)
Counted(o) ==
  /\ life[o] # "broken"
  /\ life[o] = "alive" <=> Count(o) # 0
  /\ IF strong[o] = 0 THEN Count(o) <= 1 ELSE strong[o] = Count(o)
  /\ \A h \in OwnersOf(handle, o) : handle[h].kind = "shared" <=> strong[o] # 0
CountInv == \A o \in Object : Counted(o)

LocalInv == TypeOK /\ ShapeInv /\ FinalInv
IInv == LocalInv /\ BuildInv /\ CountInv
-----------------------------------------------------------------------------
(* How one userdata changes the owners of an object.                       *)

LEMMA OwnersFinite ==
  ASSUME NEW hd, NEW o
  PROVE  /\ IsFiniteSet(OwnersOf(hd, o)) /\ Cardinality(OwnersOf(hd, o)) \in Nat
         /\ Cardinality(OwnersOf(hd, o)) = 0 <=> OwnersOf(hd, o) = {}
<1>1. OwnersOf(hd, o) \subseteq Handle
  BY DEF OwnersOf
<1>2. IsFiniteSet(OwnersOf(hd, o))
  BY <1>1, LifetimeAssumption, FS_Subset
<1> QED BY <1>2, FS_CardinalityType, FS_EmptySet

LEMMA OwnersSame ==
  ASSUME NEW hd \in [Handle -> Userdata], NEW o, NEW h \in Handle, NEW ud \in Userdata,
         h \in OwnersOf(hd, o) <=> ud.kind \in Owning /\ ud.ptr = o
  PROVE  OwnersOf([hd EXCEPT ![h] = ud], o) = OwnersOf(hd, o)
BY DEF OwnersOf
-----------------------------------------------------------------------------
(* Types, and what a userdata of each kind holds.                          *)

LEMMA BlankIsUserdata ==
  ASSUME NEW kind \in {"free", "block"}
  PROVE  Blank(kind) \in Userdata /\ Shape(Blank(kind))
BY DEF Blank, Userdata, Shape

LEMMA HoldingIsUserdata ==
  ASSUME NEW kind \in {"pointer", "external", "shared"}, NEW o \in Object,
         NEW meta \in {"cl", "co"}
  PROVE  Holding(kind, o, meta) \in Userdata /\ Shape(Holding(kind, o, meta))
BY DEF Holding, Userdata, Shape

LEMMA PushedLocal ==
  ASSUME LocalInv, NEW h \in Handle, NEW ud \in Userdata, Pushed(h, ud), Shape(ud),
         ud.kind # "free",
         life' \in [Object -> {"raw", "alive", "dead", "broken"}],
         strong' \in [Object -> Int], holders' \in [Object -> 0..MaxHolders],
         building' \subseteq reachable'
  PROVE  LocalInv'
<1>1. /\ handle' \in [Handle -> Userdata] /\ handle' = [handle EXCEPT ![h] = ud]
      /\ reachable' = reachable \union {h} /\ UNCHANGED <<finalizing, class>>
      /\ handle[h].kind = "free"
  BY DEF LocalInv, TypeOK, Pushed, Free
<1>2. handle[h].meta = "none"
  BY <1>1 DEF LocalInv, ShapeInv, Shape, Blank
<1>3. finalizing # h
  BY <1>2, LifetimeAssumption DEF LocalInv, FinalInv
<1>4. TypeOK'
  BY <1>1, <1>3 DEF LocalInv, TypeOK, class
<1>5. ShapeInv'
  BY <1>1 DEF LocalInv, ShapeInv, TypeOK
<1>6. FinalInv'
  BY <1>1, <1>3 DEF LocalInv, FinalInv, TypeOK
<1> QED BY <1>4, <1>5, <1>6 DEF LocalInv

LEMMA DestroyedType ==
  ASSUME TypeOK, NEW o \in Object
  PROVE  Destroyed(o) \in [Object -> {"raw", "alive", "dead", "broken"}]
BY DEF TypeOK, Destroyed

LEMMA ReleaseSharedType ==
  ASSUME TypeOK, NEW o \in Object, ReleaseShared(o)
  PROVE  /\ life' \in [Object -> {"raw", "alive", "dead", "broken"}]
         /\ strong' \in [Object -> Int]
BY DestroyedType DEF TypeOK, ReleaseShared

LEMMA CreateType ==
  ASSUME TypeOK, NEW o \in Object, NEW count \in {0, 1}, Create(o, count)
  PROVE  /\ life' \in [Object -> {"raw", "alive", "dead", "broken"}]
         /\ strong' \in [Object -> Int]
BY DEF TypeOK, Create

LEMMA CppLocal ==
  ASSUME IInv, NEW o \in Object, Cpp(o)
  PROVE  LocalInv'
<1>1. UNCHANGED <<handle, reachable, building, finalizing, class>>
  BY DEF Cpp, CppCreate, CppCopy, CppRelease
<1>2. ASSUME life' \in [Object -> {"raw", "alive", "dead", "broken"}],
             strong' \in [Object -> Int], holders' \in [Object -> 0..MaxHolders]
      PROVE  LocalInv'
  BY <1>1, <1>2 DEF IInv, LocalInv, TypeOK, ShapeInv, FinalInv, class
<1>3. CASE CppCreate(o)
  <2>1. holders' \in [Object -> 0..MaxHolders]
    BY <1>3, LifetimeAssumption DEF CppCreate, IInv, LocalInv, TypeOK
  <2> QED BY <1>2, <1>3, <2>1, CreateType DEF CppCreate, IInv, LocalInv
<1>4. CASE CppCopy(o)
  <2>1. holders' \in [Object -> 0..MaxHolders] /\ strong' \in [Object -> Int]
    BY <1>4, LifetimeAssumption DEF CppCopy, IInv, LocalInv, TypeOK
  <2> QED BY <1>2, <1>4, <2>1 DEF CppCopy, IInv, LocalInv, TypeOK
<1>5. CASE CppRelease(o)
  <2>1. holders' \in [Object -> 0..MaxHolders]
    BY <1>5, LifetimeAssumption DEF CppRelease, IInv, LocalInv, TypeOK
  <2>2. /\ life' \in [Object -> {"raw", "alive", "dead", "broken"}]
        /\ strong' \in [Object -> Int]
    BY <1>5, ReleaseSharedType, DestroyedType DEF CppRelease, IInv, LocalInv, TypeOK
  <2> QED BY <1>2, <2>1, <2>2
<1> QED BY <1>3, <1>4, <1>5 DEF Cpp

LEMMA PushLocal ==
  ASSUME IInv, NEW h \in Handle, NEW o \in Object, Push(h, o)
  PROVE  LocalInv'
<1>1. LocalInv /\ TypeOK /\ building \subseteq reachable
  BY DEF IInv, LocalInv, TypeOK
<1>2. ASSUME NEW ud, Pushed(h, ud) PROVE reachable \subseteq reachable' /\ h \in reachable'
  BY <1>2 DEF Pushed
<1>3. CASE Place(h, o)
  <2>1. CASE registered
    <3> DEFINE ud == [kind |-> "value", at |-> o, ptr |-> Null, meta |-> "cl"]
    <3>1. Pushed(h, ud) /\ building' = building \union {h} /\ UNCHANGED objects
      BY <1>3, <2>1 DEF Place
    <3>2. ud \in Userdata /\ Shape(ud) /\ ud.kind # "free"
      BY DEF Userdata, Shape
    <3> HIDE DEF ud
    <3> QED BY <1>1, <1>2, <3>1, <3>2, PushedLocal DEF objects, TypeOK
  <2>2. CASE ~registered
    <3>1. Pushed(h, Blank("block")) /\ building' = building /\ UNCHANGED objects
      BY <1>3, <2>2 DEF Place
    <3>2. Blank("block").kind # "free"
      BY DEF Blank
    <3> QED BY <1>1, <1>2, <3>1, <3>2, PushedLocal, BlankIsUserdata DEF objects, TypeOK
  <2> QED BY <2>1, <2>2
<1>4. CASE ConstructShared(h, o)
  <2>1. /\ Pushed(h, Holding("shared", o, "cl")) /\ Create(o, 1)
        /\ UNCHANGED <<holders, building>>
    BY <1>4 DEF ConstructShared
  <2>2. Holding("shared", o, "cl").kind # "free"
    BY DEF Holding
  <2> QED BY <1>1, <1>2, <2>1, <2>2, PushedLocal, HoldingIsUserdata, CreateType DEF TypeOK
<1>5. CASE Factory(h, o)
  <2>1. /\ Pushed(h, Holding("external", o, "cl")) /\ Create(o, 0)
        /\ UNCHANGED <<holders, building>>
    BY <1>5 DEF Factory
  <2>2. Holding("external", o, "cl").kind # "free"
    BY DEF Holding
  <2> QED BY <1>1, <1>2, <2>1, <2>2, PushedLocal, HoldingIsUserdata, CreateType DEF TypeOK
<1>6. CASE GetShared(h, o)
  <2>1. /\ holders' \in [Object -> 0..MaxHolders] /\ strong' \in [Object -> Int]
    BY <1>1, <1>6, LifetimeAssumption DEF GetShared, TypeOK
  <2> QED BY <1>1, <1>6, <2>1 DEF GetShared, LocalInv, TypeOK, ShapeInv, FinalInv, class
<1>7. ASSUME NEW meta \in {"cl", "co"}, PushPointer(h, o, meta) PROVE LocalInv'
  <2>1. PICK ud \in {Holding("pointer", o, meta), Blank("block")} : Pushed(h, ud)
    BY <1>7 DEF PushPointer
  <2>2. ud \in Userdata /\ Shape(ud)
    BY HoldingIsUserdata, BlankIsUserdata
  <2>3. ud.kind # "free"
    BY DEF Holding, Blank
  <2>4. UNCHANGED <<life, strong, holders, building>>
    BY <1>7 DEF PushPointer, objects
  <2> QED BY <1>1, <1>2, <2>1, <2>2, <2>3, <2>4, PushedLocal DEF TypeOK
<1>8. ASSUME NEW meta \in {"cl", "co"}, PushShared(h, o, meta) PROVE LocalInv'
  <2>1. PICK ud \in {Holding("shared", o, meta), Blank("block")} : Pushed(h, ud)
    BY <1>8 DEF PushShared
  <2>2. ud \in Userdata /\ Shape(ud)
    BY HoldingIsUserdata, BlankIsUserdata
  <2>3. ud.kind # "free"
    BY DEF Holding, Blank
  <2>4. UNCHANGED <<life, holders, building>> /\ strong' \in [Object -> Int]
    BY <1>8, <1>1 DEF PushShared, TypeOK
  <2> QED BY <1>1, <1>2, <2>1, <2>2, <2>3, <2>4, PushedLocal DEF TypeOK
<1> QED BY <1>3, <1>4, <1>5, <1>6, <1>7, <1>8 DEF Push

LEMMA DestructorType ==
  ASSUME LocalInv, NEW h \in Handle, Destructor(handle[h])
  PROVE  /\ life' \in [Object -> {"raw", "alive", "dead", "broken"}]
         /\ strong' \in [Object -> Int]
<1> DEFINE ud == handle[h]
<1>1. TypeOK /\ Shape(ud)
  BY DEF LocalInv, ShapeInv
<1>2. ud.kind \in {"value", "external", "shared"} => ud.at \in Object
  BY <1>1 DEF Shape
<1>3. CASE ud.kind \in {"value", "external"}
  BY <1>1, <1>2, <1>3, DestroyedType DEF Destructor, TypeOK
<1>4. CASE ud.kind = "shared"
  BY <1>1, <1>2, <1>4, ReleaseSharedType DEF Destructor
<1>5. CASE ud.kind \notin {"value", "external", "shared"}
  BY <1>1, <1>5 DEF Destructor, TypeOK
<1> QED BY <1>3, <1>4, <1>5

LEMMA OtherLocal ==
  ASSUME IInv, \/ RegisterClass \/ AddDestructor \/ EndCollect
               \/ \E h \in Handle : \/ Construct(h) \/ ConstructorThrows(h) \/ PushThrows(h)
                                    \/ Collector(h)
  PROVE  LocalInv'
<1>1. LocalInv /\ TypeOK
  BY DEF IInv, LocalInv
<1>2. CASE RegisterClass
  BY <1>1, <1>2 DEF RegisterClass, objects, LocalInv, TypeOK, ShapeInv, FinalInv
<1>3. CASE AddDestructor
  BY <1>1, <1>3 DEF AddDestructor, objects, LocalInv, TypeOK, ShapeInv, FinalInv
<1>4. CASE EndCollect
  <2>1. /\ handle' = [handle EXCEPT ![finalizing] = Blank("free")] /\ finalizing' = NoHandle
        /\ finalizing \in Handle \ reachable /\ UNCHANGED <<holders, reachable, building, class>>
    BY <1>1, <1>4 DEF EndCollect, TypeOK
  <2>2. /\ life' \in [Object -> {"raw", "alive", "dead", "broken"}]
        /\ strong' \in [Object -> Int]
    BY <1>1, <1>4, <2>1, DestructorType DEF EndCollect
  <2>3. TypeOK'
    BY <1>1, <2>1, <2>2, BlankIsUserdata DEF TypeOK, class
  <2>4. ShapeInv'
    BY <1>1, <2>1, BlankIsUserdata DEF LocalInv, TypeOK, ShapeInv
  <2> QED BY <2>1, <2>3, <2>4 DEF LocalInv, FinalInv
<1>5. ASSUME NEW h \in Handle, Construct(h) PROVE LocalInv'
  <2>1. handle[h].kind = "value" /\ handle[h].at \in Object /\ h \in reachable
    BY <1>1, <1>5 DEF Construct, IInv, BuildInv, Unfilled, TypeOK, LocalInv, ShapeInv, Shape
  <2>2. handle' = [handle EXCEPT ![h].ptr = handle[h].at] /\ life' = [life EXCEPT ![handle[h].at] = "alive"]
        /\ building' = building \ {h} /\ UNCHANGED <<strong, holders, reachable, finalizing, class>>
    BY <1>5 DEF Construct
  <2>3. handle'[h] \in Userdata /\ handle' \in [Handle -> Userdata]
    BY <1>1, <2>1, <2>2 DEF TypeOK, Userdata
  <2>4. /\ handle'[h].kind = "value" /\ handle'[h].at = handle[h].at
        /\ handle'[h].ptr = handle[h].at /\ handle'[h].meta = handle[h].meta
        /\ \A g \in Handle \ {h} : handle'[g] = handle[g]
    BY <1>1, <2>1, <2>2 DEF TypeOK, Userdata
  <2>5. finalizing # h
    BY <1>1, <2>1, LifetimeAssumption DEF TypeOK
  <2>6. TypeOK'
    BY <1>1, <2>1, <2>2, <2>3, <2>4 DEF TypeOK, class
  <2>7. ShapeInv'
    BY <1>1, <2>1, <2>4 DEF LocalInv, ShapeInv, Shape, Blank
  <2>8. FinalInv'
    BY <1>1, <2>2, <2>4, <2>5 DEF LocalInv, TypeOK, FinalInv
  <2> QED BY <2>6, <2>7, <2>8 DEF LocalInv
<1>6. ASSUME NEW h \in Handle, ConstructorThrows(h) \/ PushThrows(h) PROVE LocalInv'
  BY <1>1, <1>6, LifetimeAssumption
     DEF ConstructorThrows, PushThrows, objects, class, LocalInv, TypeOK, ShapeInv, FinalInv
<1>7. ASSUME NEW h \in Handle, Drop(h) PROVE LocalInv'
  BY <1>1, <1>7, LifetimeAssumption DEF Drop, objects, class, LocalInv, TypeOK, ShapeInv, FinalInv
<1>8. ASSUME NEW h \in Handle, BeginCollect(h) PROVE LocalInv'
  BY <1>1, <1>8 DEF BeginCollect, Garbage, objects, class, LocalInv, TypeOK, ShapeInv, FinalInv
<1>9. ASSUME NEW h \in Handle, Sweep(h) PROVE LocalInv'
  <2>1. h # finalizing
    BY <1>1, <1>9, LifetimeAssumption DEF Sweep, LocalInv, FinalInv
  <2>2. TypeOK'
    BY <1>1, <1>9, BlankIsUserdata DEF Sweep, Garbage, objects, class, TypeOK
  <2>3. ShapeInv' /\ FinalInv'
    BY <1>1, <1>9, <2>1, BlankIsUserdata DEF Sweep, LocalInv, TypeOK, ShapeInv, FinalInv
  <2> QED BY <2>2, <2>3 DEF LocalInv
<1> QED BY <1>2, <1>3, <1>4, <1>5, <1>6, <1>7, <1>8, <1>9 DEF Collector

LEMMA LocalStep == IInv /\ [Next]_vars => LocalInv'
<1> SUFFICES ASSUME IInv, [Next]_vars PROVE LocalInv'
  OBVIOUS
<1>1. CASE UNCHANGED vars
  BY <1>1 DEF vars, objects, class, IInv, LocalInv, TypeOK, ShapeInv, FinalInv
<1> QED BY <1>1, CppLocal, PushLocal, OtherLocal DEF Next
-----------------------------------------------------------------------------
(* What the unfilled userdata of a place are.                              *)

(* A new userdata that is no value leaves the unfilled ones as they were,  *)
(* if it stays away from their places.                                     *)
LEMMA PushedBuild ==
  ASSUME LocalInv, BuildInv, NEW h \in Handle, NEW ud \in Userdata, Pushed(h, ud),
         ud.kind # "value", building' = building,
         \A g \in Handle : Unfilled(g) => /\ ud.at # handle[g].at
                                          /\ life'[handle[g].at] = "raw"
  PROVE  BuildInv'
<1>1. /\ handle' = [handle EXCEPT ![h] = ud] /\ handle \in [Handle -> Userdata]
      /\ reachable' = reachable \union {h} /\ handle[h].kind = "free"
      /\ building \subseteq reachable /\ reachable \subseteq Handle
  BY DEF LocalInv, TypeOK, Pushed, Free
<1>2. /\ \A g \in Handle : handle'[g] = IF g = h THEN ud ELSE handle[g]
      /\ h \notin reachable /\ h \notin building
  BY <1>1 DEF LocalInv, TypeOK
<1>3. \A g \in Handle : Unfilled(g)' <=> Unfilled(g) /\ g # h
  BY <1>1, <1>2 DEF Unfilled
<1> QED BY <1>1, <1>2, <1>3 DEF BuildInv

(* The places of unfilled userdata are raw, so nobody owns or uses them.   *)
LEMMA RawPlace ==
  ASSUME IInv, NEW g \in Handle, Unfilled(g)
  PROVE  LET o == handle[g].at
         IN  o \in Object /\ life[o] = "raw" /\ strong[o] = 0 /\ holders[o] = 0 /\ ~Fresh(o)
<1> DEFINE o == handle[g].at
<1>1. o \in Object /\ life[o] = "raw" /\ ~Fresh(o)
  BY DEF IInv, LocalInv, ShapeInv, Shape, Unfilled, BuildInv, Fresh
<1>2. Counted(o) /\ holders[o] \in 0..MaxHolders /\ MaxHolders \in Nat /\ strong[o] \in Int
  BY <1>1, LifetimeAssumption DEF IInv, CountInv, LocalInv, TypeOK
<1>3. Count(o) = 0
  BY <1>1, <1>2 DEF Counted
<1>4. holders[o] = 0
  BY <1>2, <1>3, OwnersFinite DEF Count
<1>5. strong[o] = 0
  BY <1>2, <1>3 DEF Counted
<1> QED BY <1>1, <1>4, <1>5

LEMMA BuildSame ==
  ASSUME BuildInv, UNCHANGED <<handle, reachable, building>>,
         \A g \in Handle : Unfilled(g) => life'[handle[g].at] = "raw"
  PROVE  BuildInv'
BY DEF BuildInv, Unfilled

LEMMA BuildStep == IInv /\ [Next]_vars => BuildInv'
<1> SUFFICES ASSUME IInv, [Next]_vars PROVE BuildInv'
  OBVIOUS
<1>0. LocalInv /\ TypeOK /\ BuildInv
  BY DEF IInv, LocalInv
<1>1. ASSUME NEW o \in Object, Cpp(o) PROVE BuildInv'
  <2>1. \A g \in Handle : Unfilled(g) => life'[handle[g].at] = life[handle[g].at]
    BY <1>0, <1>1, RawPlace DEF Cpp, CppCreate, Create, CppCopy, CppRelease, ReleaseShared, Destroyed, TypeOK
  <2> QED BY <1>0, <1>1, <2>1, RawPlace, BuildSame DEF Cpp, CppCreate, CppCopy, CppRelease
<1>2. ASSUME NEW h \in Handle, NEW o \in Object, Place(h, o) PROVE BuildInv'
  <2>1. /\ UNCHANGED objects /\ handle \in [Handle -> Userdata] /\ reachable \subseteq Handle
        /\ building \subseteq reachable /\ h \notin reachable
    BY <1>0, <1>2 DEF Place, TypeOK, Pushed, Free
  <2>2. CASE registered
    <3> DEFINE ud == [kind |-> "value", at |-> o, ptr |-> Null, meta |-> "cl"]
    <3>1. /\ handle' = [handle EXCEPT ![h] = ud] /\ reachable' = reachable \union {h}
          /\ building' = building \union {h} /\ Fresh(o)
      BY <1>2, <2>2 DEF Place, Pushed
    <3>2. \A g \in Handle : handle'[g] = IF g = h THEN ud ELSE handle[g]
      BY <2>1, <3>1
    <3>3. Unfilled(h)' /\ \A g \in Handle \ {h} : Unfilled(g)' <=> Unfilled(g)
      BY <3>2 DEF Unfilled
    <3>4. \A g \in Handle : handle[g].at # o
      BY <3>1 DEF Fresh
    <3>5. life' = life /\ life[o] = "raw"
      BY <2>1, <3>1 DEF objects, Fresh
    <3> QED BY <1>0, <2>1, <3>1, <3>2, <3>3, <3>4, <3>5 DEF BuildInv
  <2>3. CASE ~registered
    <3>1. Pushed(h, Blank("block")) /\ building' = building
      BY <1>2, <2>3 DEF Place
    <3>2. Blank("block").at = Null /\ Blank("block").kind # "value" /\ life' = life
      BY <2>1 DEF Blank, objects
    <3> QED BY <1>0, <3>1, <3>2, RawPlace, PushedBuild, BlankIsUserdata, LifetimeAssumption
  <2> QED BY <2>2, <2>3
<1>3. ASSUME NEW h \in Handle, NEW o \in Object, ConstructShared(h, o) \/ Factory(h, o)
      PROVE  BuildInv'
  <2>1. PICK ud \in {Holding("shared", o, "cl"), Holding("external", o, "cl")} :
          Pushed(h, ud) /\ Fresh(o) /\ building' = building /\ life' = [life EXCEPT ![o] = "alive"]
    BY <1>3 DEF ConstructShared, Factory, Create
  <2>2. ud \in Userdata
    BY HoldingIsUserdata
  <2>4. ud.kind # "value" /\ ud.at = o
    BY DEF Holding
  <2>3. \A g \in Handle : Unfilled(g) => handle[g].at # o /\ life'[handle[g].at] = "raw"
    BY <1>0, <2>1, RawPlace DEF Fresh, TypeOK
  <2> QED BY <1>0, <2>1, <2>2, <2>3, <2>4, PushedBuild
<1>4. ASSUME NEW h \in Handle, NEW o \in Object, GetShared(h, o) PROVE BuildInv'
  BY <1>0, <1>4, RawPlace, BuildSame DEF GetShared
<1>5. ASSUME NEW h \in Handle, NEW o \in Object, NEW meta \in {"cl", "co"},
             PushPointer(h, o, meta) \/ PushShared(h, o, meta)
      PROVE  BuildInv'
  <2>1. PICK ud \in {Holding("pointer", o, meta), Holding("shared", o, meta), Blank("block")} :
          Pushed(h, ud) /\ building' = building /\ life' = life
    BY <1>5 DEF PushPointer, PushShared, objects
  <2>2. ud \in Userdata
    BY HoldingIsUserdata, BlankIsUserdata
  <2>5. ud.kind # "value" /\ ud.at \in {o, Null}
    BY DEF Holding, Blank
  <2>3. life[o] = "alive" \/ strong[o] > 0
    BY <1>5 DEF PushPointer, PushShared
  <2>4. \A g \in Handle : Unfilled(g) => handle[g].at \notin {o, Null}
    BY <2>3, RawPlace, LifetimeAssumption
  <2> QED BY <1>0, <2>1, <2>2, <2>4, <2>5, RawPlace, PushedBuild
<1>6. ASSUME NEW h \in Handle, Construct(h) PROVE BuildInv'
  <2>1. Unfilled(h) /\ handle[h].at \in Object /\ h \in reachable
    BY <1>0, <1>6, RawPlace DEF Construct, BuildInv, TypeOK
  <2>2. /\ life' = [life EXCEPT ![handle[h].at] = "alive"]
        /\ handle' = [handle EXCEPT ![h].ptr = handle[h].at]
        /\ building' = building \ {h} /\ reachable' = reachable
    BY <1>6 DEF Construct
  <2>3. /\ \A g \in Handle \ {h} : handle'[g] = handle[g]
        /\ handle'[h].ptr # Null /\ handle'[h].at = handle[h].at
    BY <1>0, <2>1, <2>2, LifetimeAssumption DEF TypeOK, Userdata
  <2>4. ~Unfilled(h)' /\ \A g \in Handle \ {h} : Unfilled(g)' <=> Unfilled(g)
    BY <2>3 DEF Unfilled
  <2>5. \A g \in Handle \ {h} : Unfilled(g) => life'[handle[g].at] = "raw"
    BY <1>0, <2>1, <2>2, RawPlace DEF BuildInv, TypeOK
  <2> QED BY <1>0, <2>1, <2>2, <2>3, <2>4, <2>5 DEF BuildInv, TypeOK
<1>7. ASSUME NEW h \in Handle,
             ConstructorThrows(h) \/ PushThrows(h) \/ Drop(h) \/ BeginCollect(h)
      PROVE  BuildInv'
  <2>1. life' = life /\ handle' = handle /\ building' \subseteq building
    BY <1>7 DEF ConstructorThrows, PushThrows, Drop, BeginCollect, objects
  <2> QED BY <1>0, <2>1 DEF BuildInv, Unfilled
<1>8. ASSUME NEW h \in Handle, Sweep(h) \/ (h = finalizing /\ EndCollect) PROVE BuildInv'
  <2>1. /\ handle' = [handle EXCEPT ![h] = Blank("free")] /\ h \notin reachable
        /\ UNCHANGED <<reachable, building>>
    BY <1>0, <1>8, LifetimeAssumption DEF Sweep, EndCollect, Garbage, TypeOK
  <2>2. \A g \in Handle : handle'[g] = IF g = h THEN Blank("free") ELSE handle[g]
    BY <1>0, <2>1 DEF TypeOK
  <2>3. ~Unfilled(h)' /\ \A g \in Handle \ {h} : Unfilled(g)' <=> Unfilled(g)
    BY <2>2 DEF Unfilled, Blank
  <2>4. \A g \in Handle \ {h} : Unfilled(g) => life'[handle[g].at] = "raw"
    <3>1. CASE Sweep(h)
      BY <3>1, RawPlace DEF Sweep, objects
    <3>2. CASE EndCollect /\ h = finalizing
      <4>1. Destructor(handle[h])
        BY <3>2 DEF EndCollect
      <4>2. handle[h].kind = "value" => handle[h].ptr = Null \/ handle[h].ptr = handle[h].at
        BY <1>0 DEF LocalInv, ShapeInv, Shape
      <4>3. life' = life \/ life' = Destroyed(handle[h].at)
        BY <4>1 DEF Destructor, ReleaseShared
      <4>4. \A g \in Handle \ {h} : Unfilled(g) => handle[g].at # handle[h].at
        BY <1>0 DEF BuildInv
      <4> QED BY <1>0, <4>3, <4>4, RawPlace DEF Destroyed, TypeOK
    <3> QED BY <1>8, <3>1, <3>2
  <2>5. Blank("free").at = Null
    BY DEF Blank
  <2>6. \A g \in Handle \ {h} : Unfilled(g) => handle[g].at # Null
    BY RawPlace, LifetimeAssumption
  <2>7. building \subseteq Handle \ {h}
    BY <1>0, <2>1 DEF TypeOK
  <2>8. \A g \in building' : Unfilled(g)'
    BY <1>0, <2>1, <2>3, <2>7 DEF BuildInv
  <2> QED BY <1>0, <2>1, <2>2, <2>3, <2>4, <2>5, <2>6, <2>8 DEF BuildInv
<1>9. CASE RegisterClass \/ AddDestructor \/ UNCHANGED vars
  BY <1>0, <1>9, RawPlace, BuildSame DEF RegisterClass, AddDestructor, vars, objects
<1>10. ASSUME EndCollect PROVE BuildInv'
  BY <1>0, <1>8, <1>10 DEF EndCollect, TypeOK
<1> QED BY <1>1, <1>2, <1>3, <1>4, <1>5, <1>6, <1>7, <1>8, <1>9, <1>10 DEF Next, Push, Collector
-----------------------------------------------------------------------------
(* What a step does to the owners of an object: one object at most is      *)
(* born, gains an owner or loses one, and the rest is steady.              *)

Steady(o) == life'[o] = life[o] /\ Count(o)' = Count(o) /\ Counted(o)'
Born(o) == /\ life[o] = "raw" /\ life'[o] = "alive"
           /\ Count(o)' = 1 /\ Counted(o)'
Gained(o) == /\ life[o] = "alive" /\ Count(o) > 0 /\ life'[o] = "alive"
             /\ Count(o)' = Count(o) + 1 /\ Counted(o)'
Lost(o) == /\ life[o] = "alive" /\ Count(o) > 0
           /\ life'[o] = (IF Count(o) = 1 THEN "dead" ELSE "alive")
           /\ Count(o)' = Count(o) - 1 /\ Counted(o)'
Effect == \/ \A o \in Object : Steady(o)
          \/ \E o \in Object : /\ Born(o) \/ Gained(o) \/ Lost(o)
                               /\ \A p \in Object \ {o} : Steady(p)

LEMMA CountFacts ==
  ASSUME IInv, NEW o \in Object
  PROVE  /\ Count(o) \in Nat /\ Counted(o) /\ strong[o] \in Int
         /\ life[o] \in {"raw", "alive", "dead"}
         /\ Count(o) = holders[o] + Cardinality(OwnersOf(handle, o)) /\ holders[o] \in Nat
         /\ Cardinality(OwnersOf(handle, o)) \in Nat
         /\ Count(o)' = holders'[o] + Cardinality(OwnersOf(handle', o))
<1>1. holders[o] \in Nat /\ strong[o] \in Int /\ life[o] \in {"raw", "alive", "dead", "broken"}
  BY LifetimeAssumption DEF IInv, LocalInv, TypeOK
<1>2. Cardinality(OwnersOf(handle, o)) \in Nat
  BY OwnersFinite
<1>3. Counted(o) /\ life[o] # "broken"
  BY DEF IInv, CountInv, Counted
<1> QED BY <1>1, <1>2, <1>3 DEF Count

(* Nothing of an object changes: no owner came or went.                    *)
LEMMA SteadyKept ==
  ASSUME IInv, NEW o \in Object, UNCHANGED handle,
         life'[o] = life[o], strong'[o] = strong[o], holders'[o] = holders[o]
  PROVE  Steady(o)
BY CountFacts DEF Steady, Counted, Count

LEMMA SteadyPut ==
  ASSUME IInv, NEW o \in Object, NEW h \in Handle, NEW ud \in Userdata,
         handle' = [handle EXCEPT ![h] = ud],
         h \notin OwnersOf(handle, o), ~(ud.kind \in Owning /\ ud.ptr = o),
         life'[o] = life[o], strong'[o] = strong[o], holders'[o] = holders[o]
  PROVE  Steady(o)
<1>1. handle \in [Handle -> Userdata]
  BY DEF IInv, LocalInv, TypeOK
<1>2. OwnersOf(handle', o) = OwnersOf(handle, o)
  BY <1>1, OwnersSame
<1>3. Count(o)' = Count(o)
  BY <1>2, CountFacts
<1>4. \A g \in OwnersOf(handle, o) : handle'[g] = handle[g]
  BY <1>1 DEF OwnersOf
<1>5. Counted(o)
  BY CountFacts
<1>6. (OwnersOf(handle, o))' = OwnersOf(handle, o)
  BY <1>2 DEF OwnersOf
<1>7. Counted(o)'
  BY <1>3, <1>4, <1>5, <1>6 DEF Counted
<1> QED BY <1>3, <1>7 DEF Steady

(* What C++ does.                                                          *)
LEMMA CppEffect ==
  ASSUME IInv, NEW o \in Object, Cpp(o)
  PROVE  Effect
<1>1. handle' = handle /\ TypeOK /\ OwnersOf(handle', o) = OwnersOf(handle, o)
  BY DEF Cpp, CppCreate, CppCopy, CppRelease, IInv, LocalInv
<1>2. Count(o)' = holders'[o] + Cardinality(OwnersOf(handle, o))
  BY <1>1, CountFacts
<1>3. \A h \in OwnersOf(handle, o) : handle[h].kind = "shared" <=> strong[o] # 0
  BY CountFacts DEF Counted
<1>4. (OwnersOf(handle, o))' = OwnersOf(handle, o)
  BY <1>1 DEF OwnersOf
<1>5. ASSUME NEW p \in Object \ {o},
             life'[p] = life[p] /\ strong'[p] = strong[p] /\ holders'[p] = holders[p]
      PROVE  Steady(p)
  BY <1>1, <1>5, SteadyKept
<1>6. CASE CppCreate(o)
  <2>1. /\ life[o] = "raw" /\ life'[o] = "alive" /\ strong'[o] \in {0, 1} /\ holders'[o] = 1
        /\ \A h \in Handle : handle[h].at # o
    BY <1>1, <1>6, LifetimeAssumption DEF CppCreate, Create, Fresh, TypeOK
  <2>2. OwnersOf(handle, o) = {}
    <3>1. \A h \in Handle : handle[h].kind \in Owning => handle[h].ptr \in {handle[h].at, Null}
      BY DEF Owning, IInv, LocalInv, ShapeInv, Shape
    <3> QED BY <2>1, <3>1, LifetimeAssumption DEF OwnersOf
  <2>3. Count(o)' = 1
    BY <1>2, <2>1, <2>2, OwnersFinite
  <2>4. Born(o)
    BY <1>4, <2>1, <2>2, <2>3 DEF Born, Counted
  <2>5. \A p \in Object \ {o} : Steady(p)
    BY <1>1, <1>5, <1>6 DEF CppCreate, Create, TypeOK
  <2> QED BY <2>4, <2>5 DEF Effect
<1>7. CASE CppCopy(o)
  <2>1. /\ life' = life /\ strong[o] > 0
        /\ strong'[o] = strong[o] + 1 /\ holders'[o] = holders[o] + 1
    BY <1>1, <1>7 DEF CppCopy, TypeOK
  <2>2. strong[o] = Count(o) /\ life[o] = "alive" /\ Count(o)' = Count(o) + 1
    BY <1>2, <2>1, CountFacts DEF Counted
  <2>3. Gained(o)
    BY <1>1, <1>3, <1>4, <2>1, <2>2, CountFacts DEF Gained, Counted
  <2>4. \A p \in Object \ {o} : Steady(p)
    BY <1>1, <1>5, <1>7 DEF CppCopy, TypeOK
  <2> QED BY <2>3, <2>4 DEF Effect
<1>8. CASE CppRelease(o)
  <2>1. holders[o] > 0 /\ holders'[o] = holders[o] - 1 /\ Count(o) > 0 /\ life[o] = "alive"
    BY <1>1, <1>8, CountFacts DEF CppRelease, TypeOK, Counted
  <2>2. Count(o)' = Count(o) - 1
    BY <1>2, <2>1, CountFacts
  <2>3. /\ strong[o] > 0 => strong'[o] = strong[o] - 1 /\ Count(o) = strong[o]
        /\ strong[o] <= 0 => strong'[o] = 0 /\ strong[o] = 0 /\ Count(o) = 1
    BY <1>1, <1>8, <2>1, CountFacts DEF CppRelease, ReleaseShared, TypeOK, Counted
  <2>4. life'[o] = IF Count(o) = 1 THEN "dead" ELSE "alive"
    BY <1>1, <1>8, <2>1, <2>3 DEF CppRelease, ReleaseShared, Destroyed, TypeOK
  <2>5. Count(o)' = 0 => (OwnersOf(handle, o))' = {}
    BY <1>4, <1>2, <2>1, CountFacts, OwnersFinite
  <2>6. Counted(o)'
    BY <1>1, <1>3, <1>4, <2>1, <2>2, <2>3, <2>4, <2>5, CountFacts DEF Counted
  <2>7. Lost(o)
    BY <2>1, <2>2, <2>4, <2>6 DEF Lost
  <2>8. \A p \in Object \ {o} : Steady(p)
    BY <1>1, <1>5, <1>8 DEF CppRelease, ReleaseShared, Destroyed, TypeOK
  <2> QED BY <2>7, <2>8 DEF Effect
<1> QED BY <1>6, <1>7, <1>8 DEF Cpp

(* A new userdata that owns the object, which had "before" owners.         *)
LEMMA OwnerPushed ==
  ASSUME IInv, NEW h \in Handle, NEW o \in Object, NEW ud \in Userdata, Pushed(h, ud),
         ud.kind \in {"external", "shared"}, ud.ptr = o, UNCHANGED holders,
         ud.kind = "shared" <=> strong'[o] # 0,
         OwnersOf(handle, o) # {} => (strong'[o] = 0 <=> strong[o] = 0),
         life'[o] = "alive", strong'[o] \in Int,
         IF strong'[o] = 0 THEN Count(o) = 0 ELSE strong'[o] = Count(o) + 1
  PROVE  /\ Count(o)' = Count(o) + 1 /\ Counted(o)'
         /\ \A p \in Object \ {o} : life'[p] = life[p] /\ strong'[p] = strong[p] => Steady(p)
<1>1. /\ handle' = [handle EXCEPT ![h] = ud] /\ handle \in [Handle -> Userdata]
      /\ handle[h].kind = "free" /\ ud.kind \in Owning
  BY DEF Pushed, Free, IInv, LocalInv, TypeOK, Owning
<1>2. \A p \in Object : h \notin OwnersOf(handle, p)
  BY <1>1 DEF OwnersOf, Owning
<1>3. /\ OwnersOf(handle', o) = OwnersOf(handle, o) \union {h}
      /\ Cardinality(OwnersOf(handle', o)) = Cardinality(OwnersOf(handle, o)) + 1
  <2>1. OwnersOf(handle', o) = OwnersOf(handle, o) \union {h}
    BY <1>1 DEF OwnersOf
  <2>2. h \notin OwnersOf(handle, o) /\ IsFiniteSet(OwnersOf(handle, o))
    BY <1>2, OwnersFinite
  <2>3. Cardinality(OwnersOf(handle, o) \union {h}) = Cardinality(OwnersOf(handle, o)) + 1
    BY ONLY <2>2, FS_AddElement
  <2> QED BY ONLY <2>1, <2>3
<1>4. Count(o)' = Count(o) + 1
  <2>1. /\ Count(o) = holders[o] + Cardinality(OwnersOf(handle, o)) /\ holders[o] \in Nat
        /\ Cardinality(OwnersOf(handle, o)) \in Nat
        /\ Count(o)' = holders[o] + Cardinality(OwnersOf(handle', o))
    BY CountFacts
  <2> QED BY ONLY <1>3, <2>1
<1>5. (OwnersOf(handle, o))' = OwnersOf(handle, o) \union {h}
  BY <1>3 DEF OwnersOf
<1>6. \A g \in OwnersOf(handle, o) : handle'[g].kind = "shared" <=> strong[o] # 0
  BY <1>1, <1>2, CountFacts DEF OwnersOf, Counted
<1>7. handle'[h] = ud
  BY <1>1
<1>8. Counted(o)'
  BY <1>4, <1>5, <1>6, <1>7, CountFacts DEF Counted
<1>9. \A p \in Object \ {o} : life'[p] = life[p] /\ strong'[p] = strong[p] => Steady(p)
  BY <1>1, <1>2, SteadyPut
<1> QED BY <1>4, <1>8, <1>9

(* A new userdata that owns nothing.                                       *)
LEMMA NonOwnerPushed ==
  ASSUME IInv, NEW h \in Handle, NEW ud \in Userdata, Pushed(h, ud),
         ud.kind \notin Owning \/ ud.ptr = Null, UNCHANGED objects
  PROVE  Effect
<1>1. /\ handle' = [handle EXCEPT ![h] = ud] /\ handle[h].kind = "free"
  BY DEF Pushed, Free
<1>2. ASSUME NEW p \in Object PROVE Steady(p)
  <2>1. h \notin OwnersOf(handle, p)
    BY <1>1 DEF OwnersOf, Owning
  <2>2. ~(ud.kind \in Owning /\ ud.ptr = p)
    BY LifetimeAssumption
  <2> QED BY <1>1, <2>1, <2>2, SteadyPut DEF objects
<1> QED BY <1>2 DEF Effect

(* A place nobody owns.                                                    *)
LEMMA FreshUnowned ==
  ASSUME IInv, NEW o \in Object, Fresh(o)
  PROVE  OwnersOf(handle, o) = {} /\ Count(o) = 0 /\ strong[o] = 0 /\ life[o] = "raw"
<1>1. \A h \in Handle : handle[h].kind \in Owning => handle[h].ptr \in {handle[h].at, Null}
  BY DEF Owning, IInv, LocalInv, ShapeInv, Shape
<1>2. OwnersOf(handle, o) = {}
  BY <1>1, LifetimeAssumption DEF Fresh, OwnersOf
<1>3. life[o] = "raw" /\ Count(o) = 0
  BY CountFacts DEF Fresh, Counted
<1> QED BY <1>2, <1>3, CountFacts DEF Counted

LEMMA PushEffect ==
  ASSUME IInv, NEW h \in Handle, NEW o \in Object, Push(h, o)
  PROVE  Effect
<1>1. TypeOK
  BY DEF IInv, LocalInv
<1>2. CASE Place(h, o)
  <2>1. UNCHANGED objects
    BY <1>2 DEF Place
  <2>2. CASE registered
    <3> DEFINE ud == [kind |-> "value", at |-> o, ptr |-> Null, meta |-> "cl"]
    <3>1. Pushed(h, ud)
      BY <1>2, <2>2 DEF Place
    <3>2. ud \in Userdata /\ ud.ptr = Null
      BY DEF Userdata
    <3> HIDE DEF ud
    <3> QED BY <2>1, <3>1, <3>2, NonOwnerPushed
  <2>3. CASE ~registered
    <3>1. Pushed(h, Blank("block"))
      BY <1>2, <2>3 DEF Place
    <3>2. Blank("block").ptr = Null
      BY DEF Blank
    <3> QED BY <2>1, <3>1, <3>2, BlankIsUserdata, NonOwnerPushed
  <2> QED BY <2>2, <2>3
<1>3. ASSUME NEW kind \in {"external", "shared"}, NEW count \in {0, 1},
             kind = "shared" <=> count # 0, Create(o, count), UNCHANGED holders,
             Pushed(h, Holding(kind, o, "cl"))
      PROVE  Effect
  <2> DEFINE ud == Holding(kind, o, "cl")
  <2>1. ud.kind = kind /\ ud.ptr = o
    BY DEF Holding
  <2>2. ud \in Userdata
    BY HoldingIsUserdata
  <2>3. /\ life'[o] = "alive" /\ strong'[o] = count
        /\ \A p \in Object \ {o} : life'[p] = life[p] /\ strong'[p] = strong[p]
    BY <1>1, <1>3 DEF Create, TypeOK
  <2>4. OwnersOf(handle, o) = {} /\ Count(o) = 0 /\ life[o] = "raw"
    BY <1>3, FreshUnowned DEF Create
  <2> HIDE DEF ud
  <2>5. /\ Count(o)' = Count(o) + 1 /\ Counted(o)'
        /\ \A p \in Object \ {o} : life'[p] = life[p] /\ strong'[p] = strong[p] => Steady(p)
    <3>1. IF strong'[o] = 0 THEN Count(o) = 0 ELSE strong'[o] = Count(o) + 1
      BY <2>3, <2>4
    <3>2. strong'[o] \in Int /\ ud.kind = "shared" <=> strong'[o] # 0
      BY <1>3, <2>1, <2>3
    <3>3. Pushed(h, ud)
      BY <1>3 DEF ud
    <3> QED BY <1>3, <2>1, <2>2, <2>3, <2>4, <3>1, <3>2, <3>3, OwnerPushed
  <2>6. Born(o)
    BY <2>3, <2>4, <2>5 DEF Born
  <2> QED BY <2>3, <2>5, <2>6 DEF Effect
<1>4. CASE ConstructShared(h, o)
  BY <1>3, <1>4 DEF ConstructShared
<1>5. CASE Factory(h, o)
  BY <1>3, <1>5 DEF Factory
<1>6. CASE GetShared(h, o)
  <2>1. /\ life' = life /\ handle' = handle /\ strong[o] > 0
        /\ strong'[o] = strong[o] + 1 /\ holders'[o] = holders[o] + 1
        /\ \A p \in Object \ {o} : strong'[p] = strong[p] /\ holders'[p] = holders[p]
    BY <1>1, <1>6 DEF GetShared, TypeOK
  <2>2. strong[o] = Count(o) /\ life[o] = "alive"
    BY <2>1, CountFacts DEF Counted
  <2>3. Count(o)' = Count(o) + 1
    BY <2>1, CountFacts
  <2>4. (OwnersOf(handle, o))' = OwnersOf(handle, o)
    BY <2>1 DEF OwnersOf
  <2>5. Counted(o)'
    BY <2>1, <2>2, <2>3, <2>4, CountFacts DEF Counted
  <2>6. Gained(o)
    BY <2>1, <2>2, <2>3, <2>5 DEF Gained
  <2>7. \A p \in Object \ {o} : Steady(p)
    BY <2>1, SteadyKept
  <2> QED BY <2>6, <2>7 DEF Effect
<1>7. ASSUME NEW meta \in {"cl", "co"}, PushPointer(h, o, meta) PROVE Effect
  <2>1. PICK ud \in {Holding("pointer", o, meta), Blank("block")} : Pushed(h, ud)
    BY <1>7 DEF PushPointer
  <2>2. ud \in Userdata
    BY HoldingIsUserdata, BlankIsUserdata
  <2>3. ud.kind \notin Owning
    BY DEF Holding, Blank, Owning
  <2>4. UNCHANGED objects
    BY <1>7 DEF PushPointer
  <2> QED BY <2>1, <2>2, <2>3, <2>4, NonOwnerPushed
<1>8. ASSUME NEW meta \in {"cl", "co"}, PushShared(h, o, meta) PROVE Effect
  <2>0. life' = life /\ holders' = holders /\ strong[o] > 0
    BY <1>8 DEF PushShared
  <2>1. CASE registered
    <3> DEFINE ud == Holding("shared", o, meta)
    <3>1. ud.kind = "shared" /\ ud.ptr = o
      BY DEF Holding
    <3>2. ud \in Userdata
      BY HoldingIsUserdata
    <3>3. /\ Pushed(h, ud) /\ strong'[o] = strong[o] + 1
          /\ \A p \in Object \ {o} : strong'[p] = strong[p]
      BY <1>1, <1>8, <2>1 DEF PushShared, TypeOK
    <3>4. life[o] = "alive" /\ strong[o] = Count(o) /\ Count(o) \in Nat /\ Count(o) > 0
      BY <2>0, CountFacts DEF Counted
    <3> HIDE DEF ud
    <3>5. /\ IF strong'[o] = 0 THEN Count(o) = 0 ELSE strong'[o] = Count(o) + 1
          /\ strong'[o] \in Int /\ strong'[o] # 0 /\ strong[o] # 0
      BY <3>3, <3>4
    <3>6. /\ Count(o)' = Count(o) + 1 /\ Counted(o)'
          /\ \A p \in Object \ {o} : life'[p] = life[p] /\ strong'[p] = strong[p] => Steady(p)
      BY <2>0, <3>1, <3>2, <3>3, <3>4, <3>5, OwnerPushed
    <3>7. Gained(o)
      BY <2>0, <3>4, <3>6 DEF Gained
    <3> QED BY <2>0, <3>3, <3>6, <3>7 DEF Effect
  <2>2. CASE ~registered
    <3>1. Pushed(h, Blank("block")) /\ UNCHANGED objects
      BY <1>8, <2>0, <2>2 DEF PushShared, objects
    <3>2. Blank("block").ptr = Null
      BY DEF Blank
    <3> QED BY <3>1, <3>2, BlankIsUserdata, NonOwnerPushed
  <2> QED BY <2>1, <2>2
<1> QED BY <1>2, <1>4, <1>5, <1>6, <1>7, <1>8 DEF Push

(* The object of a constructor that returns gets its first owner.          *)
LEMMA ConstructEffect ==
  ASSUME IInv, NEW h \in Handle, Construct(h)
  PROVE  Effect
<1>1. TypeOK /\ handle \in [Handle -> Userdata]
  BY DEF IInv, LocalInv, TypeOK
<1>2. Unfilled(h)
  BY <1>1 DEF Construct, IInv, BuildInv, TypeOK
<1>3. PICK o \in Object : /\ o = handle[h].at /\ life[o] = "raw"
                          /\ strong[o] = 0 /\ holders[o] = 0
  BY <1>2, RawPlace
<1> DEFINE ud == [handle[h] EXCEPT !.ptr = o]
<1>4. /\ handle' = [handle EXCEPT ![h].ptr = o] /\ life' = [life EXCEPT ![o] = "alive"]
      /\ UNCHANGED <<strong, holders>>
  BY <1>3 DEF Construct
<1>5. ud \in Userdata /\ ud.kind = "value" /\ ud.ptr = o /\ handle' = [handle EXCEPT ![h] = ud]
  BY <1>1, <1>2, <1>3, <1>4 DEF Userdata, Unfilled
<1>6. \A p \in Object : h \notin OwnersOf(handle, p)
  BY <1>2, LifetimeAssumption DEF OwnersOf, Unfilled
<1>7. Count(o) = 0 /\ OwnersOf(handle, o) = {}
  BY <1>3, CountFacts, OwnersFinite DEF Counted
<1> HIDE DEF ud
<1>8. OwnersOf(handle', o) = {h}
  BY <1>1, <1>5, <1>7 DEF OwnersOf, Owning
<1>9. Count(o)' = 1
  <2>1. Cardinality({h}) = 1
    BY FS_Singleton
  <2>2. Count(o)' = holders'[o] + Cardinality(OwnersOf(handle', o)) /\ holders'[o] = 0
    BY <1>3, <1>4, CountFacts
  <2> QED BY ONLY <1>8, <2>1, <2>2
<1>10. (OwnersOf(handle, o))' = {h} /\ handle'[h].kind = "value"
  BY <1>1, <1>5, <1>8 DEF OwnersOf
<1>11. Born(o)
  <2>1. life'[o] = "alive" /\ strong'[o] = 0
    BY <1>1, <1>3, <1>4 DEF TypeOK
  <2>2. Counted(o)'
    BY <1>9, <1>10, <2>1 DEF Counted
  <2> QED BY <1>3, <1>9, <2>1, <2>2 DEF Born
<1>12. \A p \in Object \ {o} : life'[p] = life[p]
  BY <1>1, <1>4 DEF TypeOK
<1>13. \A p \in Object \ {o} : Steady(p)
  BY <1>4, <1>5, <1>6, <1>12, SteadyPut
<1> QED BY <1>3, <1>11, <1>13 DEF Effect

(* A userdata that owns nothing is emptied.                                *)
LEMMA NonOwnerEmptied ==
  ASSUME IInv, NEW h \in Handle, handle' = [handle EXCEPT ![h] = Blank("free")],
         handle[h].kind \notin Owning \/ handle[h].ptr = Null, UNCHANGED objects
  PROVE  Effect
<1>1. ASSUME NEW p \in Object PROVE Steady(p)
  <2>1. h \notin OwnersOf(handle, p)
    BY LifetimeAssumption DEF OwnersOf
  <2>2. ~(Blank("free").kind \in Owning /\ Blank("free").ptr = p)
    BY DEF Blank, Owning
  <2> QED BY <2>1, <2>2, BlankIsUserdata, SteadyPut DEF objects
<1> QED BY <1>1 DEF Effect

(* An owner is emptied, and the destructor of its kind has run.            *)
LEMMA OwnerEmptied ==
  ASSUME IInv, NEW h \in Handle, handle' = [handle EXCEPT ![h] = Blank("free")],
         NEW o \in Object, handle[h].kind \in Owning, handle[h].at = o, handle[h].ptr = o,
         Destructor(handle[h]), UNCHANGED holders
  PROVE  Effect
<1>1. TypeOK /\ handle \in [Handle -> Userdata]
  BY DEF IInv, LocalInv, TypeOK
<1>2. h \in OwnersOf(handle, o) /\ \A p \in Object \ {o} : h \notin OwnersOf(handle, p)
  BY DEF OwnersOf
<1>3. Blank("free") \in Userdata /\ Blank("free").kind \notin Owning
  BY BlankIsUserdata DEF Blank, Owning
<1>4. OwnersOf(handle', o) = OwnersOf(handle, o) \ {h}
  BY <1>1, <1>3 DEF OwnersOf
<1>5. Cardinality(OwnersOf(handle', o)) = Cardinality(OwnersOf(handle, o)) - 1
  <2>1. IsFiniteSet(OwnersOf(handle, o))
    BY OwnersFinite
  <2>2. Cardinality(OwnersOf(handle, o) \ {h}) = Cardinality(OwnersOf(handle, o)) - 1
    BY ONLY <1>2, <2>1, FS_RemoveElement
  <2> QED BY ONLY <1>4, <2>2
<1>6. Count(o) > 0 /\ Count(o) \in Nat /\ Count(o)' = Count(o) - 1
  <2>1. Cardinality(OwnersOf(handle, o)) # 0
    BY <1>2, OwnersFinite
  <2>2. /\ Count(o) = holders[o] + Cardinality(OwnersOf(handle, o)) /\ holders[o] \in Nat
        /\ Cardinality(OwnersOf(handle, o)) \in Nat
        /\ Count(o)' = holders[o] + Cardinality(OwnersOf(handle', o))
    BY CountFacts
  <2> QED BY ONLY <1>5, <2>1, <2>2
<1>7. /\ life[o] = "alive" /\ strong[o] \in Int
      /\ IF strong[o] = 0 THEN Count(o) <= 1 ELSE strong[o] = Count(o)
      /\ \A g \in OwnersOf(handle, o) : handle[g].kind = "shared" <=> strong[o] # 0
  BY <1>6, CountFacts DEF Counted
<1>8. /\ handle[h].kind = "shared" => strong[o] = Count(o)
      /\ handle[h].kind # "shared" => strong[o] = 0 /\ Count(o) = 1
  BY <1>2, <1>6, <1>7
<1>9. /\ life'[o] = (IF Count(o) = 1 THEN "dead" ELSE "alive")
      /\ strong'[o] = (IF handle[h].kind = "shared" THEN strong[o] - 1 ELSE 0)
      /\ \A p \in Object \ {o} : life'[p] = life[p] /\ strong'[p] = strong[p]
  <2>1. CASE handle[h].kind = "shared"
    BY <1>1, <1>7, <1>8, <2>1 DEF Destructor, ReleaseShared, Destroyed, TypeOK
  <2>2. CASE handle[h].kind # "shared"
    BY <1>1, <1>7, <1>8, <2>2, LifetimeAssumption DEF Destructor, Destroyed, TypeOK, Owning
  <2> QED BY <2>1, <2>2
<1>10. (OwnersOf(handle, o))' = OwnersOf(handle, o) \ {h}
  BY <1>4 DEF OwnersOf
<1>11. Count(o)' = 0 => (OwnersOf(handle, o))' = {}
  <2>1. /\ Count(o)' = holders[o] + Cardinality(OwnersOf(handle', o)) /\ holders[o] \in Nat
    BY CountFacts
  <2>2. /\ Cardinality(OwnersOf(handle', o)) \in Nat
        /\ Cardinality(OwnersOf(handle', o)) = 0 => OwnersOf(handle', o) = {}
    BY OwnersFinite
  <2> QED BY ONLY <1>4, <1>10, <2>1, <2>2
<1>12. \A g \in (OwnersOf(handle, o))' : handle'[g].kind = "shared" <=> strong'[o] # 0
  <2>1. \A g \in OwnersOf(handle, o) \ {h} : handle'[g] = handle[g]
    BY <1>1 DEF OwnersOf
  <2>2. ASSUME NEW g \in (OwnersOf(handle, o))'
        PROVE  handle'[g].kind = "shared" <=> strong'[o] # 0
    <3>1. /\ handle'[g] = handle[g] /\ handle[g].kind = "shared" <=> strong[o] # 0
      BY <1>7, <1>10, <2>1
    <3>2. Count(o)' # 0
      BY <1>11
    <3> QED BY <1>6, <1>7, <1>8, <1>9, <3>1, <3>2
  <2> QED BY <2>2
<1>13. Counted(o)'
  <2>1. life'[o] # "broken" /\ (life'[o] = "alive" <=> Count(o)' # 0)
    BY ONLY <1>6, <1>9
  <2>2. IF strong'[o] = 0 THEN Count(o)' <= 1 ELSE strong'[o] = Count(o)'
    BY ONLY <1>6, <1>7, <1>8, <1>9
  <2> QED BY ONLY <1>12, <2>1, <2>2 DEF Counted
<1>14. Lost(o)
  BY <1>6, <1>7, <1>9, <1>13 DEF Lost
<1>15. \A p \in Object \ {o} : Steady(p)
  BY <1>2, <1>3, <1>9, SteadyPut
<1> QED BY <1>14, <1>15 DEF Effect

LEMMA OtherEffect ==
  ASSUME IInv, \/ RegisterClass \/ AddDestructor \/ EndCollect
               \/ \E h \in Handle : \/ Construct(h) \/ ConstructorThrows(h) \/ PushThrows(h)
                                    \/ Collector(h)
  PROVE  Effect
<1>1. CASE UNCHANGED <<objects, handle>>
  BY <1>1, SteadyKept DEF Effect, objects
<1>2. CASE EndCollect
  <2> DEFINE ud == handle[finalizing]
  <2>1. /\ finalizing \in Handle /\ handle' = [handle EXCEPT ![finalizing] = Blank("free")]
        /\ Destructor(ud) /\ UNCHANGED holders
    BY <1>2 DEF EndCollect, IInv, LocalInv, TypeOK
  <2>2. Shape(ud)
    BY <2>1 DEF IInv, LocalInv, ShapeInv
  <2>3. CASE ud.kind \in Owning /\ ud.ptr # Null
    <3>1. ud.at \in Object /\ ud.ptr = ud.at
      BY <2>2, <2>3 DEF Shape, Owning
    <3> QED BY <2>1, <2>3, <3>1, OwnerEmptied
  <2>4. CASE ud.kind \notin Owning \/ ud.ptr = Null
    <3>1. ud.kind \notin {"external", "shared"}
      BY <2>2, <2>4, LifetimeAssumption DEF Shape, Owning
    <3>2. UNCHANGED objects
      BY <2>1, <2>4, <3>1 DEF Destructor, Owning, objects
    <3> QED BY <2>1, <2>4, <3>2, NonOwnerEmptied
  <2> QED BY <2>3, <2>4
<1>3. ASSUME NEW h \in Handle, Sweep(h) PROVE Effect
  <2>1. handle' = [handle EXCEPT ![h] = Blank("free")] /\ UNCHANGED objects
    BY <1>3 DEF Sweep
  <2>2. Shape(handle[h]) /\ handle[h] \in Userdata /\ handle[h].meta = "none"
    BY <1>3 DEF Sweep, IInv, LocalInv, ShapeInv, TypeOK
  <2>3. handle[h].kind \notin Owning
    BY <2>2 DEF Shape, Owning
  <2> QED BY <2>1, <2>3, NonOwnerEmptied
<1> QED BY <1>1, <1>2, <1>3, ConstructEffect
        DEF RegisterClass, AddDestructor, ConstructorThrows, PushThrows, Collector, Drop, BeginCollect

LEMMA EffectStep == IInv /\ [Next]_vars => Effect
<1> SUFFICES ASSUME IInv, [Next]_vars PROVE Effect
  OBVIOUS
<1>1. CASE UNCHANGED vars
  BY <1>1, SteadyKept DEF Effect, vars, objects
<1> QED BY <1>1, CppEffect, PushEffect, OtherEffect DEF Next
-----------------------------------------------------------------------------
(* The invariant, and what follows from it.                                *)

LEMMA InitInvariant == Init => IInv
<1> SUFFICES ASSUME Init PROVE IInv
  OBVIOUS
<1>1. \A h \in Handle : /\ handle[h] = Blank("free") /\ Blank("free").kind = "free"
                         /\ Blank("free").at = Null
  BY DEF Init, Blank
<1>2. TypeOK /\ FinalInv
  <2>1. 0 \in 0..MaxHolders /\ Blank("free") \in Userdata
    BY BlankIsUserdata, LifetimeAssumption
  <2>2. handle \in [Handle -> Userdata] /\ life \in [Object -> {"raw", "alive", "dead", "broken"}]
    BY <2>1 DEF Init
  <2>3. strong \in [Object -> Int] /\ holders \in [Object -> 0..MaxHolders]
    BY <2>1 DEF Init
  <2> QED BY <2>2, <2>3 DEF Init, TypeOK, FinalInv
<1>3. ShapeInv
  BY <1>1, BlankIsUserdata DEF ShapeInv
<1>4. BuildInv
  BY <1>1 DEF Init, BuildInv, Unfilled
<1>5. ASSUME NEW o \in Object PROVE Counted(o)
  <2>1. OwnersOf(handle, o) = {}
    BY <1>1 DEF OwnersOf, Owning
  <2>2. life[o] = "raw" /\ strong[o] = 0 /\ holders[o] = 0
    BY DEF Init
  <2>3. Count(o) = 0
    BY <2>1, <2>2, FS_EmptySet DEF Count
  <2> QED BY <2>1, <2>2, <2>3 DEF Counted
<1> QED BY <1>2, <1>3, <1>4, <1>5 DEF IInv, LocalInv, CountInv

LEMMA CountStep == IInv /\ [Next]_vars => CountInv'
<1> SUFFICES ASSUME IInv, [Next]_vars PROVE CountInv'
  OBVIOUS
<1>1. Effect
  BY EffectStep
<1>2. \A o \in Object : Counted(o)'
  BY <1>1 DEF Effect, Steady, Born, Gained, Lost
<1> QED BY <1>2 DEF CountInv

(* The inductive invariant holds in every reachable state.                 *)
THEOREM LifetimeInvariant == Spec => []IInv
<1>1. IInv /\ [Next]_vars => IInv'
  BY LocalStep, BuildStep, CountStep DEF IInv
<1> QED BY InitInvariant, <1>1, PTL DEF Spec

(* Every userdata, count and set keeps its type, and what Lua can reach    *)
(* has not been collected.                                                 *)
THEOREM LifetimeTypeCorrect == Spec => []TypeOK
<1>1. IInv => TypeOK
  BY DEF IInv, LocalInv
<1> QED BY LifetimeInvariant, <1>1, PTL

(* No destructor or deallocator runs where no object lives: not for an     *)
(* object whose constructor threw, not twice, and never for a pointer.     *)
THEOREM NoVainDestruction == Spec => []NoVainDestructor
<1>1. IInv => NoVainDestructor
  BY DEF IInv, CountInv, Counted, NoVainDestructor
<1> QED BY LifetimeInvariant, <1>1, PTL

(* An owning userdata that a script can reach holds an object that is      *)
(* alive and complete, whatever C++ released, or none ever: its copy threw.*)
THEOREM ReachableAlive == Spec => []ReachableObjectAlive
<1>1. IInv => ReachableObjectAlive
  <2> SUFFICES ASSUME IInv, NEW h \in reachable \ building, handle[h].kind \in Owning
               PROVE  IF handle[h].ptr = Null
                      THEN handle[h].kind = "value" /\ life[handle[h].at] = "raw"
                      ELSE life[handle[h].ptr] = "alive"
    BY DEF ReachableObjectAlive
  <2>0. h \in Handle /\ Shape(handle[h])
    BY DEF IInv, LocalInv, TypeOK, ShapeInv
  <2>6. handle[h].ptr = Null => Unfilled(h)
    BY <2>0, LifetimeAssumption DEF Shape, Unfilled, Owning
  <2>7. CASE Unfilled(h)
    BY <2>0, <2>7 DEF IInv, BuildInv, Unfilled
  <2> SUFFICES ASSUME ~Unfilled(h) PROVE life[handle[h].ptr] = "alive"
    BY <2>6, <2>7
  <2>1. h \in Handle /\ ~Unfilled(h) /\ Shape(handle[h])
    BY <2>0
  <2>2. PICK o \in Object : o = handle[h].ptr
    BY <2>1 DEF Shape, Unfilled, Owning
  <2>3. h \in OwnersOf(handle, o)
    BY <2>1, <2>2 DEF OwnersOf
  <2>4. Count(o) # 0
    <3>1. /\ Count(o) = holders[o] + Cardinality(OwnersOf(handle, o)) /\ holders[o] \in Nat
          /\ Cardinality(OwnersOf(handle, o)) \in Nat
      BY CountFacts
    <3>2. Cardinality(OwnersOf(handle, o)) # 0
      BY <2>3, OwnersFinite
    <3> QED BY ONLY <3>1, <3>2
  <2>5. life[o] = "alive"
    BY <2>4, CountFacts DEF Counted
  <2> QED BY <2>2, <2>5
<1> QED BY LifetimeInvariant, <1>1, PTL

LEMMA OwnersCount == Owners = [o \in Object |-> Count(o)]
BY DEF Owners, Owns, Count, OwnersOf

LEMMA InitOwnership == IInv /\ Init => Abstract!OInit
<1> SUFFICES ASSUME IInv, Init PROVE Abstract!OInit
  OBVIOUS
<1>1. \A o \in Object : life[o] = "raw" /\ Count(o) = 0
  BY CountFacts DEF Init, Counted
<1>2. Owners = [o \in Object |-> 0]
  BY <1>1, OwnersCount
<1> QED BY <1>2 DEF Abstract!OInit, Init

LEMMA StepOwnership ==
  IInv /\ IInv' /\ [Next]_vars => [Abstract!ONext]_(Abstract!ovars)
<1> SUFFICES ASSUME IInv, IInv', [Next]_vars
             PROVE  Abstract!ONext \/ UNCHANGED <<life, Owners>>
  BY DEF Abstract!ovars
<1>1. Effect
  BY EffectStep
<1>2. /\ Owners = [o \in Object |-> Count(o)] /\ Owners' = [o \in Object |-> Count(o)']
      /\ life = [o \in Object |-> life[o]] /\ life' = [o \in Object |-> life'[o]]
      /\ \A o \in Object : Owners[o] = Count(o) /\ Count(o) \in Nat
  <2>1. Owners = [o \in Object |-> Count(o)]
    BY OwnersCount
  <2>2. Owners' = [o \in Object |-> Count(o)']
    BY DEF Owners, Owns, Count, OwnersOf
  <2>3. life = [o \in Object |-> life[o]] /\ life' = [o \in Object |-> life'[o]]
    BY DEF IInv, LocalInv, TypeOK
  <2>4. \A o \in Object : Owners[o] = Count(o) /\ Count(o) \in Nat
    BY <2>1, CountFacts
  <2> QED BY <2>1, <2>2, <2>3, <2>4
<1>3. CASE \A o \in Object : Steady(o)
  <2>1. Owners' = Owners /\ life' = life
    BY <1>2, <1>3 DEF Steady
  <2> QED BY <2>1
<1>4. ASSUME NEW o \in Object, Born(o) \/ Gained(o) \/ Lost(o),
             \A p \in Object \ {o} : Steady(p)
      PROVE  Abstract!ONext
  <2>1. /\ Owners' = [Owners EXCEPT ![o] = Count(o)'] /\ life' = [life EXCEPT ![o] = life'[o]]
    BY <1>2, <1>4 DEF Steady
  <2>2. CASE Born(o)
    BY <1>2, <2>1, <2>2 DEF Born, Abstract!ONext, Abstract!Create
  <2>3. CASE Gained(o)
    <3>1. life' = life
      BY <1>2, <2>1, <2>3 DEF Gained
    <3> QED BY <1>2, <2>1, <2>3, <3>1 DEF Gained, Abstract!ONext, Abstract!Acquire
  <2>4. CASE Lost(o)
    <3>1. life' = IF Owners[o] = 1 THEN [life EXCEPT ![o] = "dead"] ELSE life
      BY <1>2, <2>1, <2>4 DEF Lost
    <3> QED BY <1>2, <2>1, <2>4, <3>1 DEF Lost, Abstract!ONext, Abstract!Release
  <2> QED BY <1>4, <2>2, <2>3, <2>4
<1> QED BY <1>1, <1>3, <1>4 DEF Effect

(* Userdata, containers and collection implement Ownership: an object is   *)
(* destroyed exactly once, when the last of its owners gives it up.        *)
THEOREM RefinesOwnership == Spec => ImplementsOwnership
<1> QED BY LifetimeInvariant, InitInvariant, InitOwnership, StepOwnership, PTL
        DEF Spec, ImplementsOwnership, Abstract!OSpec
=============================================================================
