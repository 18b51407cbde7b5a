---------------------------- MODULE ClassRegistry ----------------------------
(***************************************************************************)
(* Registration of C++ classes (Namespace.h: beginClass, deriveClass) and  *)
(* the type check of a userdata against it (Userdata.h: getClass, get,     *)
(* isInstance).                                                            *)
(*                                                                         *)
(* A class owns three metatables: the const table "co", the class table    *)
(* "cl" and the metatable of its static table "st"; <<c, k>> names one.    *)
(* deriveClass is a loop in C++ that can throw halfway, so each iteration  *)
(* is a step here, and no other operation runs until it returns.           *)
(***************************************************************************)
EXTENDS Integers, Sequences, Functions

CONSTANTS Class,       \* the C++ types a program may register
          NoClass,     \* no derivation is in progress
          Subobject,   \* Subobject[d]: the <<b, o>> with a b subobject of d at byte o
          BaseLists,   \* BaseLists[d]: the lists deriveClass<d, ...> compiles with
          OptionSets   \* OptionSets[c]: the option sets c may be registered with

Kind == {"co", "cl", "st"}
Table == Class \X Kind
NoOffset == -1
Option == {"extensibleClass", "allowOverridingMethods", "visibleMetatables"}

ASSUME ClassAssumption == NoClass \notin Class
ASSUME OptionAssumption == OptionSets \in [Class -> SUBSET (SUBSET Option)]

(* A class contains itself at offset 0, and what its subobjects contain.   *)
ASSUME SubobjectAssumption ==
  /\ Subobject \in [Class -> SUBSET (Class \X Nat)]
  /\ \A d \in Class : <<d, 0>> \in Subobject[d]
  /\ \A d \in Class : \A s \in Subobject[d] : \A t \in Subobject[s[1]] :
        <<t[1], s[2] + t[2]>> \in Subobject[d]

(* static_cast<Base*>(derived), in computeCastOffset, compiles only for a  *)
(* base that occurs once in the derived class.                             *)
ASSUME BaseListsAssumption ==
  /\ BaseLists \in [Class -> SUBSET Seq(Class)]
  /\ \A d \in Class : \A l \in BaseLists[d] : \A i \in DOMAIN l :
        /\ l[i] # d
        /\ \E s \in Subobject[d] : /\ s[1] = l[i]
                                  /\ \A t \in Subobject[d] : t[1] = l[i] => t = s

VARIABLES
  bound,        \* classes whose name is bound in the enclosing namespace
  registered,   \* classes with their three tables in the Lua registry
  options,      \* options[c]: the options stored in the tables of c
  parentList,   \* parentList[t]: the flattened parent list of table t
  cast,         \* cast[c][a]: the byte offset from c to a, or NoOffset
  fast,         \* tables with the "simple" metamethods installed
  building,     \* the class deriveClass is registering, or NoClass
  bases,        \* its base list
  next,         \* index of the next base the loop looks at
  pending,      \* what appendParentList has still to append for this base
  clParents,    \* the parent list built so far
  castTable     \* the cast table built so far

registry == <<bound, registered, options, parentList, cast, fast>>
loop == <<building, bases, next, pending, clParents, castTable>>
vars == <<registry, loop>>

NoCasts == [a \in Class |-> NoOffset]
Tables(c) == {c} \X Kind
(* Mutant: the difference of the two pointers taken the wrong way round.   *)
CastOffsetReversed(d, b) == 0 - (CHOOSE s \in Subobject[d] : s[1] = b)[2]

CastOffset(d, b) == (CHOOSE s \in Subobject[d] : s[1] = b)[2]

TypeOK ==
  /\ bound \subseteq Class /\ registered \subseteq Class
  /\ options \in [Class -> SUBSET Option]
  /\ parentList \in [Table -> Seq(Table)]
  /\ cast \in [Class -> [Class -> Nat \union {NoOffset}]]
  /\ fast \subseteq Table
  /\ building \in Class \union {NoClass}
  /\ bases \in Seq(Class) /\ next \in Nat \ {0}
  /\ pending \in Seq(Class) /\ clParents \in Seq(Class)
  /\ castTable \in [Class -> Nat \union {NoOffset}]

LoopIdle == /\ building = NoClass /\ bases = <<>> /\ next = 1
            /\ pending = <<>> /\ clParents = <<>> /\ castTable = NoCasts

Init ==
  /\ bound = {} /\ registered = {}
  /\ options = [c \in Class |-> {}]
  /\ parentList = [t \in Table |-> <<>>]
  /\ cast = [c \in Class |-> NoCasts]
  /\ fast = {}
  /\ LoopIdle

LoopReset == /\ building' = NoClass /\ bases' = <<>> /\ next' = 1
             /\ pending' = <<>> /\ clParents' = <<>> /\ castTable' = NoCasts

(* create{Const,Class,Static}Table: the options, and the simple            *)
(* metamethods unless the class is extensible.                             *)
CreateTables(c, opts) ==
  /\ bound' = bound \union {c}
  /\ options' = [options EXCEPT ![c] = opts]
  /\ fast' = IF "extensibleClass" \in opts THEN fast \ Tables(c)
                                           ELSE fast \union Tables(c)

(* beginClass of a name that is not bound yet.  On a bound name it only    *)
(* fetches the tables from the registry, and asserts that they are there.  *)
BeginClass(c, opts) ==
  /\ building = NoClass /\ c \notin bound
  /\ CreateTables(c, opts)
  /\ registered' = registered \union {c}
  /\ UNCHANGED <<parentList, cast, loop>>

(* Mutant: deriveClass stores its tables before it looks at the bases.     *)
DeriveOpenRegistering(d, l, opts) ==
  /\ building = NoClass /\ d \notin registered
  /\ CreateTables(d, opts)
  /\ building' = d /\ bases' = l
  /\ registered' = registered \union {d}
  /\ UNCHANGED <<parentList, cast, next, pending, clParents, castTable>>

(* deriveClass up to its loop over the bases.  The name is bound already.  *)
(* The documentation asks for deriveClass to be called once for a class.   *)
DeriveOpen(d, l, opts) ==
  /\ building = NoClass /\ d \notin registered
  /\ CreateTables(d, opts)
  /\ building' = d /\ bases' = l
  /\ UNCHANGED <<registered, parentList, cast, next, pending, clParents, castTable>>

(* Mutant: a visited set that is never asked.                              *)
AppendAlways ==
  /\ pending # <<>>
  /\ pending' = Tail(pending)
  /\ clParents' = Append(clParents, Head(pending))
  /\ UNCHANGED <<registry, building, bases, next, castTable>>

(* One appendUnique of appendParentList; the visited set is the range of   *)
(* the list built so far.                                                  *)
AppendUnique ==
  /\ pending # <<>>
  /\ pending' = Tail(pending)
  /\ clParents' = IF Head(pending) \in Range(clParents) THEN clParents
                                               ELSE Append(clParents, Head(pending))
  /\ UNCHANGED <<registry, building, bases, next, castTable>>

(* Mutant: an ancestor keeps the offset it has in the base.                *)
MergeCastsUncomposed(d, b, table) ==
  [a \in Class |-> IF a = b THEN CastOffset(d, b)
                   ELSE IF table[a] # NoOffset THEN table[a] ELSE cast[b][a]]

(* The direct offset of base b replaces any other; an offset of one of its *)
(* ancestors is composed and kept only if there is none yet.               *)
MergeCasts(d, b, table) ==
  [a \in Class |->
     IF a = b THEN CastOffset(d, b)
     ELSE IF table[a] # NoOffset \/ cast[b][a] = NoOffset THEN table[a]
     ELSE CastOffset(d, b) + cast[b][a]]

ClassOf(t) == t[1]

AtBase == building # NoClass /\ pending = <<>> /\ next <= Len(bases)

(* One iteration of the loop over the bases, for a registered base.        *)
DeriveBase ==
  /\ AtBase /\ bases[next] \in registered
  /\ LET b == bases[next] IN
       /\ pending' = <<b>> \o [i \in DOMAIN parentList[<<b, "cl">>] |->
                                 ClassOf(parentList[<<b, "cl">>][i])]
       /\ castTable' = MergeCasts(building, b, castTable)
  /\ next' = next + 1
  /\ UNCHANGED <<registry, building, bases, clParents>>

(* "Base class is not registered": the exception leaves the name bound.    *)
DeriveFail ==
  /\ AtBase /\ bases[next] \notin registered
  /\ LoopReset
  /\ UNCHANGED registry

(* Mutants: the const table lists the class tables of its parents; the     *)
(* derived class keeps the simple metamethods.                             *)
DeriveFinishOneList ==
  /\ building # NoClass /\ pending = <<>> /\ next > Len(bases)
  /\ parentList' = [t \in Table |->
        IF ClassOf(t) = building
        THEN [i \in DOMAIN clParents |-> <<clParents[i], "cl">>]
        ELSE parentList[t]]
  /\ cast' = [cast EXCEPT ![building] = castTable]
  /\ fast' = fast \ Tables(building)
  /\ registered' = registered \union {building}
  /\ LoopReset
  /\ UNCHANGED <<bound, options>>
DeriveFinishSimple ==
  /\ building # NoClass /\ pending = <<>> /\ next > Len(bases)
  /\ parentList' = [t \in Table |->
        IF ClassOf(t) = building
        THEN [i \in DOMAIN clParents |-> <<clParents[i], t[2]>>]
        ELSE parentList[t]]
  /\ cast' = [cast EXCEPT ![building] = castTable]
  /\ registered' = registered \union {building}
  /\ LoopReset
  /\ UNCHANGED <<bound, options, fast>>

(* The rest of deriveClass: the parent lists of the three tables, the full *)
(* metamethods, and the registry entries.                                  *)
DeriveFinish ==
  /\ building # NoClass /\ pending = <<>> /\ next > Len(bases)
  /\ parentList' = [t \in Table |->
        IF ClassOf(t) = building
        THEN [i \in DOMAIN clParents |-> <<clParents[i], t[2]>>]
        ELSE parentList[t]]
  /\ cast' = [cast EXCEPT ![building] = castTable]
  /\ fast' = fast \ Tables(building)
  /\ registered' = registered \union {building}
  /\ LoopReset
  /\ UNCHANGED <<bound, options>>

Open == \E c \in Class : \E opts \in OptionSets[c] :
          \/ BeginClass(c, opts)
          \/ \E l \in BaseLists[c] : DeriveOpen(c, l, opts)

Next == Open \/ AppendUnique \/ DeriveBase \/ DeriveFail \/ DeriveFinish

Spec == Init /\ [][Next]_vars

-----------------------------------------------------------------------------
(* The type check of a userdata.  Its metatable is <<c, "cl">>, or         *)
(* <<c, "co">> when it holds a const object.                               *)

ObjectTables == registered \X {"co", "cl"}

IsConstObject(ot) == ot[2] = "co"

(* The metatable itself or one of its parents is the table asked for; a    *)
(* type that is not registered has none.                                   *)
Matches(ot, rt) == ClassOf(rt) \in registered /\ (ot = rt \/ rt \in Range(parentList[ot]))

RegistryTable(ot, T, canBeConst) ==
  <<T, IF IsConstObject(ot) /\ canBeConst THEN "co" ELSE "cl">>

GetClass(ot, T, canBeConst) == Matches(ot, RegistryTable(ot, T, canBeConst))

(* The adjustment Userdata::get applies to the stored pointer once         *)
(* GetClass succeeded: none for the class itself, else the cast table's.   *)
GetOffset(ot, T) == IF ClassOf(ot) # T /\ cast[ClassOf(ot)][T] # NoOffset
                    THEN cast[ClassOf(ot)][T] ELSE 0

IsInstance(ot, T) == Matches(ot, <<T, "cl">>) \/ Matches(ot, <<T, "co">>)

-----------------------------------------------------------------------------
(* Userdata::get<T> hands out a pointer only to a real T subobject of the  *)
(* stored object, whichever path through several bases reached T: the cast *)
(* tables composed while deriving agree with the layout of the C++ class.  *)
PointerSound ==
  \A ot \in ObjectTables, T \in Class, canBeConst \in BOOLEAN :
     GetClass(ot, T, canBeConst) => <<T, GetOffset(ot, T)>> \in Subobject[ClassOf(ot)]

(* getClass asked for a mutable object (canBeConst = false) never takes a  *)
(* const one, asked for either it takes the same mutable ones, and         *)
(* isInstance agrees with getClass asked for either: the parent lists of   *)
(* the const and of the class table stay parallel.  This is getClass alone *)
(* (Userdata.h:145): what each Stack<T> asks of it is not decided here.    *)
ConstRespected ==
  \A ot \in ObjectTables, T \in Class :
     /\ IsConstObject(ot) => ~GetClass(ot, T, FALSE)
     /\ ~IsConstObject(ot) => (GetClass(ot, T, TRUE) <=> GetClass(ot, T, FALSE))
     /\ IsInstance(ot, T) <=> GetClass(ot, T, TRUE)

(* No class is listed twice among the parents of a class, nor in its own   *)
(* list, and every listed class has a cast: members are searched once, and *)
(* no pointer is handed out without its adjustment.                        *)
ListedOnceWithCast ==
  \A c \in Class :
     LET list == parentList[<<c, "cl">>] IN
       /\ IsInjective(list)
       /\ <<c, "cl">> \notin Range(list)
       /\ {ClassOf(t) : t \in Range(list)} = {a \in Class : cast[c][a] # NoOffset}

Ancestors == [c \in Class |-> {ClassOf(t) : t \in Range(parentList[<<c, "cl">>])}]

(* A derivation that throws leaves no trace a later type check can see, and *)
(* one that succeeds registers the class with exactly the ancestors of its *)
(* bases, in one step.                                                     *)
Hierarchy == INSTANCE ClassHierarchy WITH known <- registered, ancestors <- Ancestors
ImplementsHierarchy == Hierarchy!HSpec

=============================================================================
