------------------------- MODULE ClassRegistryProofs -------------------------
(***************************************************************************)
(* Proofs about ClassRegistry and, from "The members" on, ClassDispatch,   *)
(* for every set of classes, every layout of their subobjects, every base  *)
(* list, every choice of options and every set of member names.            *)
(***************************************************************************)
EXTENDS ClassDispatch, TLAPS, WellFoundedInduction

(* The loop of deriveClass runs for a base list the class compiles with,   *)
(* and has no local state when it does not run.                            *)
LoopOK == IF building = NoClass THEN LoopIdle ELSE bases \in BaseLists[building]

TypeInv == TypeOK /\ LoopOK

(* A base in a base list is one subobject of the class, at CastOffset.     *)
LEMMA CastOffsetSound ==
  ASSUME NEW d \in Class, NEW l \in BaseLists[d], NEW i \in DOMAIN l
  PROVE  /\ CastOffset(d, l[i]) \in Nat
         /\ <<l[i], CastOffset(d, l[i])>> \in Subobject[d]
<1> DEFINE s == CHOOSE s \in Subobject[d] : s[1] = l[i]
<1>1. s \in Subobject[d] /\ s[1] = l[i]
  BY BaseListsAssumption
<1>2. s \in Class \X Nat
  BY <1>1, SubobjectAssumption
<1> QED BY <1>1, <1>2 DEF CastOffset

LEMMA NoCastsType == NoCasts \in [Class -> Nat \union {NoOffset}]
BY DEF NoCasts

LEMMA MergeCastsType ==
  ASSUME NEW d \in Class, NEW l \in BaseLists[d], NEW i \in DOMAIN l,
         NEW table \in [Class -> Nat \union {NoOffset}],
         cast \in [Class -> [Class -> Nat \union {NoOffset}]]
  PROVE  MergeCasts(d, l[i], table) \in [Class -> Nat \union {NoOffset}]
<1>1. l \in Seq(Class)
  BY BaseListsAssumption
<1>2. l[i] \in Class
  BY <1>1
<1>3. CastOffset(d, l[i]) \in Nat
  BY CastOffsetSound
<1> QED BY <1>2, <1>3 DEF MergeCasts, NoOffset

(* The classes of a list of tables are a list of classes.                  *)
LEMMA ClassesOfList ==
  ASSUME NEW list \in Seq(Table)
  PROVE  [i \in DOMAIN list |-> ClassOf(list[i])] \in Seq(Class)
BY DEF Table, ClassOf

LEMMA TablesOfList ==
  ASSUME NEW s \in Seq(Class), NEW k \in Kind
  PROVE  [i \in DOMAIN s |-> <<s[i], k>>] \in Seq(Table)
BY DEF Table

LEMMA TypeStep == TypeInv /\ [Next]_vars => TypeInv'
<1> SUFFICES ASSUME TypeInv, [Next]_vars PROVE TypeInv'
  OBVIOUS
<1> USE DEF TypeInv
<1>1. ASSUME NEW c \in Class, NEW opts \in OptionSets[c], BeginClass(c, opts)
      PROVE TypeInv'
  <2>1. opts \in SUBSET Option
    BY OptionAssumption
  <2>2. Tables(c) \subseteq Table
    BY DEF Tables, Table, Kind
  <2> QED BY <1>1, <2>1, <2>2
       DEF BeginClass, CreateTables, TypeOK, LoopOK, LoopIdle, loop
<1>2. ASSUME NEW d \in Class, NEW opts \in OptionSets[d], NEW l \in BaseLists[d],
             DeriveOpen(d, l, opts)
      PROVE TypeInv'
  <2>1. opts \in SUBSET Option
    BY OptionAssumption
  <2>2. Tables(d) \subseteq Table
    BY DEF Tables, Table, Kind
  <2>3. l \in Seq(Class) /\ d # NoClass
    BY BaseListsAssumption, ClassAssumption
  <2> QED BY <1>2, <2>1, <2>2, <2>3
       DEF DeriveOpen, CreateTables, TypeOK, LoopOK, LoopIdle
<1>3. CASE AppendUnique
  BY <1>3 DEF AppendUnique, TypeOK, LoopOK, LoopIdle, registry
<1>4. CASE DeriveBase
  <2> DEFINE b == bases[next]
  <2>1. /\ building \in Class /\ bases \in BaseLists[building]
        /\ next \in DOMAIN bases /\ b \in Class
    BY <1>4 DEF DeriveBase, AtBase, TypeOK, LoopOK
  <2>2. castTable' \in [Class -> Nat \union {NoOffset}]
    BY <2>1, <1>4, MergeCastsType DEF DeriveBase, TypeOK
  <2>3. parentList[<<b, "cl">>] \in Seq(Table)
    BY <2>1 DEF TypeOK, Table, Kind
  <2>4. pending' \in Seq(Class)
    <3> DEFINE rest == [i \in DOMAIN parentList[<<b, "cl">>] |->
                          ClassOf(parentList[<<b, "cl">>][i])]
    <3>1. <<b>> \in Seq(Class)
      BY <2>1
    <3>2. rest \in Seq(Class)
      BY <2>3, ClassesOfList
    <3>3. pending' = <<b>> \o rest
      BY <1>4 DEF DeriveBase
    <3> HIDE DEF rest, b
    <3> QED BY <3>1, <3>2, <3>3
  <2> QED BY <1>4, <2>1, <2>2, <2>4 DEF DeriveBase, TypeOK, LoopOK, LoopIdle, registry
<1>5. CASE DeriveFail
  BY <1>5, NoCastsType, ClassAssumption
  DEF DeriveFail, LoopReset, TypeOK, LoopOK, LoopIdle, registry
<1>6. CASE DeriveFinish
  <2>1. building \in Class
    BY <1>6 DEF DeriveFinish, TypeOK
  <2>2. parentList' \in [Table -> Seq(Table)]
    <3>1. ASSUME NEW t \in Table
          PROVE [i \in DOMAIN clParents |-> <<clParents[i], t[2]>>] \in Seq(Table)
      BY TablesOfList DEF TypeOK, Table
    <3> QED BY <3>1, <1>6 DEF DeriveFinish, TypeOK
  <2>3. /\ bound' \subseteq Class /\ registered' \subseteq Class
        /\ options' \in [Class -> SUBSET Option]
        /\ cast' \in [Class -> [Class -> Nat \union {NoOffset}]]
        /\ fast' \subseteq Table
    BY <1>6, <2>1 DEF DeriveFinish, TypeOK
  <2>4. LoopIdle'
    BY <1>6 DEF DeriveFinish, LoopReset, LoopIdle, NoCasts
  <2>5. LoopOK' /\ TypeOK'
    BY <2>2, <2>3, <2>4, NoCastsType DEF LoopIdle, LoopOK, TypeOK
  <2> QED BY <2>5
<1>7. CASE UNCHANGED vars
  BY <1>7 DEF vars, registry, loop, TypeOK, LoopOK, LoopIdle
<1> QED BY <1>1, <1>2, <1>3, <1>4, <1>5, <1>6, <1>7 DEF Next, Open

(* The state is well typed whatever is registered and derived, and         *)
(* wherever a derivation throws.                                           *)
THEOREM TypeCorrect == Spec => []TypeOK
<1>1. Init => TypeInv
  BY NoCastsType DEF Init, TypeInv, TypeOK, LoopOK, LoopIdle, Table, Kind
<1>2. TypeInv => TypeOK
  BY DEF TypeInv
<1> QED BY <1>1, <1>2, TypeStep, PTL DEF Spec

-----------------------------------------------------------------------------
(* The inductive invariant, in named parts.                                *)

(* Every cast leads to a real subobject, in the finished tables and in the *)
(* one being built.                                                        *)
CastsSound(table, d) ==
  \A a \in Class : table[a] # NoOffset => <<a, table[a]>> \in Subobject[d]
CastInv == /\ \A c \in Class : CastsSound(cast[c], c)
           /\ building # NoClass => CastsSound(castTable, building)

(* The three parent lists of a class list the same classes.                *)
ListOf(s, k) == [i \in DOMAIN s |-> <<s[i], k>>]
ParallelInv ==
  \A c \in Class : \E s \in Seq(Class) : \A k \in Kind : parentList[<<c, k>>] = ListOf(s, k)

CastTo(table) == {a \in Class : table[a] # NoOffset}

(* A finished list: without repetition, of registered classes only, none   *)
(* of them the class itself, and each with a cast.                         *)
ListInv ==
  /\ registered \subseteq bound
  /\ \A c \in Class : /\ IsInjective(parentList[<<c, "cl">>])
                      /\ Ancestors[c] = CastTo(cast[c])
                      /\ Ancestors[c] \subseteq registered
                      /\ c \notin Ancestors[c]

(* The list under construction, with what is pending: exactly the bases    *)
(* the loop has looked at and their ancestors.                             *)
Reached == Range(clParents) \union Range(pending)
LoopInv ==
  building # NoClass =>
    /\ building \in bound \ registered
    /\ IsInjective(clParents)
    /\ Reached = CastTo(castTable)
    /\ Reached = UNION {{bases[i]} \union Ancestors[bases[i]] : i \in 1..(next - 1)}
    /\ Reached \subseteq registered
    /\ next <= Len(bases) + 1

IInv == TypeInv /\ CastInv /\ ParallelInv /\ ListInv /\ LoopInv

-----------------------------------------------------------------------------
(* Lemmas on the lists.                                                    *)

LEMMA RangeAppend ==
  ASSUME NEW S, NEW s \in Seq(S), NEW x \in S
  PROVE  /\ Range(Append(s, x)) = Range(s) \union {x}
         /\ IsInjective(s) /\ x \notin Range(s) => IsInjective(Append(s, x))
<1> DEFINE t == Append(s, x)
<1>1. /\ DOMAIN t = 1..(Len(s) + 1) /\ DOMAIN s = 1..Len(s) /\ Len(s) \in Nat
      /\ \A i \in DOMAIN s : t[i] = s[i]
      /\ t[Len(s) + 1] = x
  OBVIOUS
<1> HIDE DEF t
<1>2. Range(t) = Range(s) \union {x}
  <2>1. ASSUME NEW y \in Range(t) PROVE y \in Range(s) \union {x}
    BY <1>1, <2>1 DEF Range
  <2>2. ASSUME NEW y \in Range(s) \union {x} PROVE y \in Range(t)
    <3>1. CASE y = x
      BY <1>1, <3>1 DEF Range
    <3>2. CASE y \in Range(s)
      BY <1>1, <3>2 DEF Range
    <3> QED BY <2>2, <3>1, <3>2
  <2> QED BY <2>1, <2>2
<1>3. IsInjective(s) /\ x \notin Range(s) => IsInjective(t)
  BY <1>1 DEF IsInjective, Range
<1> QED BY <1>2, <1>3 DEF t

LEMMA RangeFront ==
  ASSUME NEW S, NEW s \in Seq(S), NEW x \in S
  PROVE  Range(<<x>> \o s) = {x} \union Range(s)
<1> DEFINE t == <<x>> \o s
<1>1. /\ DOMAIN t = 1..(Len(s) + 1) /\ DOMAIN s = 1..Len(s) /\ Len(s) \in Nat
      /\ t[1] = x
      /\ \A i \in DOMAIN s : t[i + 1] = s[i]
  OBVIOUS
<1> HIDE DEF t
<1>2. ASSUME NEW y \in Range(t) PROVE y \in {x} \union Range(s)
  <2>1. PICK i \in 1..(Len(s) + 1) : y = t[i]
    BY <1>1, <1>2 DEF Range
  <2>2. CASE i = 1
    BY <1>1, <2>1, <2>2
  <2>3. CASE i # 1
    <3>1. i - 1 \in DOMAIN s /\ t[(i - 1) + 1] = s[i - 1]
      BY <1>1, <2>3
    <3> QED BY <2>1, <3>1 DEF Range
  <2> QED BY <2>2, <2>3
<1>3. ASSUME NEW y \in {x} \union Range(s) PROVE y \in Range(t)
  <2>1. CASE y = x
    BY <1>1, <2>1 DEF Range
  <2>2. CASE y \in Range(s)
    <3>1. PICK i \in DOMAIN s : y = s[i]
      BY <2>2 DEF Range
    <3>2. i + 1 \in DOMAIN t /\ t[i + 1] = y
      BY <1>1, <3>1
    <3> QED BY <3>2 DEF Range
  <2> QED BY <1>3, <2>1, <2>2
<1> QED BY <1>2, <1>3 DEF t

LEMMA RangeTail ==
  ASSUME NEW S, NEW s \in Seq(S), s # <<>>
  PROVE  Head(s) \in S /\ Tail(s) \in Seq(S) /\ Range(s) = {Head(s)} \union Range(Tail(s))
<1>1. Head(s) \in S /\ Tail(s) \in Seq(S) /\ s = <<Head(s)>> \o Tail(s)
  OBVIOUS
<1> QED BY <1>1, RangeFront

(* What DeriveBase has to append for a base: itself and its ancestors.     *)
LEMMA RangeChain ==
  ASSUME TypeOK, NEW b \in Class
  PROVE  Range(<<b>> \o [i \in DOMAIN parentList[<<b, "cl">>] |->
                            ClassOf(parentList[<<b, "cl">>][i])]) = {b} \union Ancestors[b]
<1> DEFINE list == parentList[<<b, "cl">>]
           rest == [i \in DOMAIN list |-> ClassOf(list[i])]
<1>1. list \in Seq(Table)
  BY DEF TypeOK, Table, Kind
<1>2. rest \in Seq(Class)
  BY <1>1, ClassesOfList
<1>3. Range(rest) = Ancestors[b]
  BY DEF Range, Ancestors
<1> HIDE DEF rest
<1>4. Range(<<b>> \o rest) = {b} \union Range(rest)
  BY <1>2, RangeFront
<1> QED BY <1>3, <1>4 DEF rest

-----------------------------------------------------------------------------
(* Every step preserves each part.                                         *)

LEMMA CastStep == TypeInv /\ CastInv /\ [Next]_vars => CastInv'
<1> SUFFICES ASSUME TypeInv, CastInv, [Next]_vars PROVE CastInv'
  OBVIOUS
<1>1. ASSUME NEW d \in Class, NEW opts \in OptionSets[d], NEW l \in BaseLists[d],
             DeriveOpen(d, l, opts)
      PROVE CastInv'
  <2>1. castTable = NoCasts
    BY <1>1 DEF DeriveOpen, TypeInv, LoopOK, LoopIdle
  <2> QED BY <1>1, <2>1 DEF DeriveOpen, CreateTables, CastInv, CastsSound, NoCasts
<1>2. CASE DeriveBase
  <2> DEFINE d == building
             b == bases[next]
  <2>1. /\ d \in Class /\ bases \in BaseLists[d] /\ next \in DOMAIN bases
        /\ b \in Class /\ castTable' = MergeCasts(d, b, castTable) /\ building' = d
        /\ cast' = cast
    BY <1>2 DEF DeriveBase, AtBase, TypeInv, TypeOK, LoopOK, registry
  <2>2. CastOffset(d, b) \in Nat /\ <<b, CastOffset(d, b)>> \in Subobject[d]
    BY <2>1, CastOffsetSound
  <2>3. ASSUME NEW a \in Class, castTable'[a] # NoOffset
        PROVE  <<a, castTable'[a]>> \in Subobject[d]
    <3> DEFINE off == CastOffset(d, b)
    <3> HIDE DEF off, b, d
    <3>1. castTable'[a] = IF a = b THEN off
                          ELSE IF castTable[a] # NoOffset \/ cast[b][a] = NoOffset
                               THEN castTable[a] ELSE off + cast[b][a]
      BY <2>1 DEF MergeCasts, off
    <3>2. CASE a = b
      BY <2>2, <3>1, <3>2 DEF off
    <3>3. CASE a # b /\ (castTable[a] # NoOffset \/ cast[b][a] = NoOffset)
      BY <2>1, <2>3, <3>1, <3>3, ClassAssumption DEF CastInv, CastsSound, d
    <3>4. CASE a # b /\ cast[b][a] # NoOffset /\ castTable[a] = NoOffset
      <4>1. <<a, cast[b][a]>> \in Subobject[b]
        BY <2>1, <3>4 DEF CastInv, CastsSound
      <4>2. <<a, off + cast[b][a]>> \in Subobject[d]
        BY <2>1, <2>2, <4>1, SubobjectAssumption DEF off
      <4> QED BY <3>1, <3>4, <4>2
    <3> QED BY <3>2, <3>3, <3>4
  <2> QED BY <2>1, <2>3 DEF CastInv, CastsSound
<1>3. CASE DeriveFinish
  BY <1>3 DEF DeriveFinish, LoopReset, CastInv, CastsSound, TypeInv, TypeOK
<1>4. CASE DeriveFail
  BY <1>4 DEF DeriveFail, LoopReset, registry, CastInv
<1>5. CASE AppendUnique
  BY <1>5 DEF AppendUnique, registry, CastInv
<1>6. ASSUME NEW c \in Class, NEW opts \in OptionSets[c], BeginClass(c, opts)
      PROVE CastInv'
  BY <1>6 DEF BeginClass, loop, CastInv
<1>7. CASE UNCHANGED vars
  BY <1>7 DEF vars, registry, loop, CastInv
<1> QED BY <1>1, <1>2, <1>3, <1>4, <1>5, <1>6, <1>7 DEF Next, Open

LEMMA ParallelStep == TypeInv /\ ParallelInv /\ [Next]_vars => ParallelInv'
<1> SUFFICES ASSUME TypeInv, ParallelInv, [Next]_vars PROVE ParallelInv'
  OBVIOUS
<1>1. CASE parentList' = parentList
  BY <1>1 DEF ParallelInv
<1>2. CASE DeriveFinish
  <2> SUFFICES ASSUME NEW c \in Class
               PROVE  \E s \in Seq(Class) : \A k \in Kind : parentList'[<<c, k>>] = ListOf(s, k)
    BY DEF ParallelInv
  <2>1. ASSUME NEW k \in Kind
        PROVE  parentList'[<<c, k>>] = IF c = building THEN ListOf(clParents, k)
                                                       ELSE parentList[<<c, k>>]
    BY <1>2 DEF DeriveFinish, ClassOf, Table, ListOf
  <2>2. CASE c = building
    <3>1. clParents \in Seq(Class)
      BY DEF TypeInv, TypeOK
    <3> QED BY <2>1, <2>2, <3>1
  <2>3. CASE c # building
    BY <2>1, <2>3 DEF ParallelInv
  <2> QED BY <2>2, <2>3
<1>3. parentList' = parentList \/ DeriveFinish
  BY DEF Next, Open, BeginClass, DeriveOpen, AppendUnique, DeriveBase, DeriveFail,
         registry, vars
<1> QED BY <1>1, <1>2, <1>3

LEMMA ListStep == TypeInv /\ ListInv /\ LoopInv /\ [Next]_vars => ListInv'
<1> SUFFICES ASSUME TypeInv, ListInv, LoopInv, [Next]_vars PROVE ListInv'
  OBVIOUS
<1>1. CASE /\ parentList' = parentList /\ cast' = cast
           /\ registered \subseteq registered' /\ registered' \subseteq bound'
  <2>1. Ancestors' = Ancestors
    BY <1>1 DEF Ancestors
  <2> QED BY <1>1, <2>1 DEF ListInv, CastTo
<1>2. CASE DeriveFinish
  <2>1. /\ building \in Class /\ building \in bound \ registered
        /\ IsInjective(clParents) /\ clParents \in Seq(Class)
    BY <1>2 DEF DeriveFinish, LoopInv, TypeInv, TypeOK
  <2>2. Range(clParents) = CastTo(castTable) /\ Range(clParents) \subseteq registered
    BY <1>2 DEF DeriveFinish, LoopInv, Reached, Range
  <2>3. registered' = registered \union {building} /\ bound' = bound
    BY <1>2 DEF DeriveFinish
  <2>4. ASSUME NEW c \in Class
        PROVE  /\ IsInjective(parentList'[<<c, "cl">>])
               /\ Ancestors'[c] = CastTo(cast'[c])
               /\ Ancestors'[c] \subseteq registered'
               /\ c \notin Ancestors'[c]
    <3>1. parentList'[<<c, "cl">>] = IF c = building
                                     THEN [i \in DOMAIN clParents |-> <<clParents[i], "cl">>]
                                     ELSE parentList[<<c, "cl">>]
      BY <1>2 DEF DeriveFinish, ClassOf, Table, Kind
    <3>2. CASE c = building
      <4>1. IsInjective(parentList'[<<c, "cl">>])
        BY <2>1, <3>1, <3>2 DEF IsInjective
      <4>2. Ancestors'[c] = Range(clParents)
        BY <3>1, <3>2 DEF Ancestors, Range, ClassOf
      <4>3. CastTo(cast'[c]) = CastTo(castTable)
        BY <1>2, <2>1, <3>2 DEF DeriveFinish, TypeInv, TypeOK
      <4> QED BY <2>1, <2>2, <2>3, <3>2, <4>1, <4>2, <4>3
    <3>3. CASE c # building
      <4>1. Ancestors'[c] = Ancestors[c]
        BY <3>1, <3>3 DEF Ancestors
      <4>2. cast'[c] = cast[c]
        BY <1>2, <3>3 DEF DeriveFinish, TypeInv, TypeOK
      <4> QED BY <2>3, <3>1, <3>3, <4>1, <4>2 DEF ListInv, CastTo
    <3> QED BY <3>2, <3>3
  <2>5. registered' \subseteq bound'
    BY <2>1, <2>3 DEF ListInv
  <2> QED BY <2>4, <2>5 DEF ListInv
<1>3. \/ DeriveFinish
      \/ /\ parentList' = parentList /\ cast' = cast
         /\ registered \subseteq registered' /\ registered' \subseteq bound'
  BY DEF Next, Open, BeginClass, DeriveOpen, CreateTables, AppendUnique, DeriveBase,
         DeriveFail, registry, loop, vars, ListInv
<1> QED BY <1>1, <1>2, <1>3

(* The part on the loop looks at clParents and pending only through what   *)
(* they reach.                                                             *)
LEMMA LoopFrame ==
  ASSUME LoopInv, UNCHANGED <<bound, registered, parentList>>,
         UNCHANGED <<building, bases, next, castTable>>,
         Reached' = Reached, IsInjective(clParents) => IsInjective(clParents')
  PROVE  LoopInv'
<1>1. Ancestors' = Ancestors
  BY DEF Ancestors
<1>2. CastTo(castTable') = CastTo(castTable)
  BY DEF CastTo
<1> QED BY <1>1, <1>2 DEF LoopInv

LEMMA LoopStep == TypeInv /\ ListInv /\ LoopInv /\ [Next]_vars => LoopInv'
<1> SUFFICES ASSUME TypeInv, ListInv, LoopInv, [Next]_vars PROVE LoopInv'
  OBVIOUS
<1>1. ASSUME NEW d \in Class, NEW opts \in OptionSets[d], NEW l \in BaseLists[d],
             DeriveOpen(d, l, opts)
      PROVE LoopInv'
  <2>1. clParents = <<>> /\ pending = <<>> /\ next = 1 /\ castTable = NoCasts
    BY <1>1 DEF DeriveOpen, TypeInv, LoopOK, LoopIdle
  <2>2. /\ clParents' = <<>> /\ pending' = <<>> /\ next' = 1 /\ castTable' = NoCasts
        /\ building' = d /\ bases' = l /\ registered' = registered /\ bound' = bound \union {d}
    BY <1>1, <2>1 DEF DeriveOpen, CreateTables
  <2>3. building' \in bound' \ registered'
    BY <1>1, <2>2 DEF DeriveOpen
  <2>4. Reached' = {} /\ IsInjective(clParents')
    BY <2>2 DEF Reached, Range, IsInjective
  <2>5. CastTo(castTable') = {}
    BY <2>2 DEF CastTo, NoCasts
  <2>6. 1..(next' - 1) = {}
    BY <2>2
  <2>7. next' <= Len(bases') + 1
    <3>1. l \in Seq(Class)
      BY BaseListsAssumption
    <3> QED BY <2>2, <3>1
  <2> QED BY <2>3, <2>4, <2>5, <2>6, <2>7 DEF LoopInv
<1>2. CASE AppendUnique
  <2> DEFINE x == Head(pending)
  <2>1. /\ x \in Class /\ clParents \in Seq(Class)
        /\ Range(pending) = {x} \union Range(Tail(pending)) /\ pending' = Tail(pending)
    BY <1>2, RangeTail DEF AppendUnique, TypeInv, TypeOK
  <2>2. CASE x \in Range(clParents)
    <3>1. clParents' = clParents
      BY <1>2, <2>2 DEF AppendUnique
    <3>2. Reached' = Reached
      BY <2>1, <2>2, <3>1 DEF Reached
    <3> QED BY <1>2, <3>1, <3>2, LoopFrame DEF AppendUnique, registry
  <2>3. CASE x \notin Range(clParents)
    <3>1. clParents' = Append(clParents, x)
      BY <1>2, <2>3 DEF AppendUnique
    <3>2. /\ Range(clParents') = Range(clParents) \union {x}
          /\ IsInjective(clParents) => IsInjective(clParents')
      BY <2>1, <2>3, <3>1, RangeAppend
    <3>3. Reached' = Reached
      BY <2>1, <3>2 DEF Reached
    <3> QED BY <1>2, <3>2, <3>3, LoopFrame DEF AppendUnique, registry
  <2> QED BY <2>2, <2>3
<1>3. CASE DeriveBase
  <2> DEFINE d == building
             b == bases[next]
             Under(c) == {c} \union Ancestors[c]
  <2>1. /\ d \in Class /\ bases \in BaseLists[d] /\ next \in DOMAIN bases
        /\ next \in Nat \ {0} /\ next' = next + 1
        /\ b \in Class /\ b \in registered /\ building # NoClass /\ pending = <<>>
        /\ castTable' = MergeCasts(d, b, castTable)
        /\ UNCHANGED <<registry, building, bases, clParents>>
    BY <1>3 DEF DeriveBase, AtBase, TypeInv, TypeOK, LoopOK
  <2>2. CastOffset(d, b) \in Nat
    BY <2>1, CastOffsetSound
  <2>3. Range(pending') = Under(b)
    BY <1>3, <2>1, RangeChain DEF DeriveBase, TypeInv
  <2>4. Reached = Range(clParents)
    BY <2>1 DEF Reached, Range
  <2>5. Reached' = Reached \union Under(b)
    BY <2>1, <2>3, <2>4 DEF Reached
  <2>6. Ancestors' = Ancestors
    BY <2>1 DEF registry, Ancestors
  <2>7. CastTo(castTable') = CastTo(castTable) \union {b} \union CastTo(cast[b])
    <3> DEFINE off == CastOffset(d, b)
    <3> HIDE DEF off, b, d
    <3>1. ASSUME NEW a \in Class
          PROVE  castTable'[a] # NoOffset <=>
                   (a = b \/ castTable[a] # NoOffset \/ cast[b][a] # NoOffset)
      <4>1. castTable'[a] = IF a = b THEN off
                            ELSE IF castTable[a] # NoOffset \/ cast[b][a] = NoOffset
                                 THEN castTable[a] ELSE off + cast[b][a]
        BY <2>1 DEF MergeCasts, off
      <4>2. off \in Nat /\ cast[b][a] \in Nat \union {NoOffset}
        BY <2>1, <2>2 DEF off, TypeInv, TypeOK
      <4> QED BY <4>1, <4>2 DEF NoOffset
    <3> QED BY <2>1, <3>1 DEF CastTo
  <2>8. CastTo(castTable') = Reached'
    BY ZenonT(30), <2>1, <2>5, <2>7 DEF LoopInv, ListInv
  <2>9. Reached' = UNION {Under(bases[i]) : i \in 1..(next' - 1)}
    <3>1. 1..(next' - 1) = (1..(next - 1)) \union {next}
      BY <2>1
    <3>2. Reached = UNION {Under(bases[i]) : i \in 1..(next - 1)}
      BY <2>1 DEF LoopInv
    <3> HIDE DEF Under
    <3> QED BY <2>5, <3>1, <3>2
  <2>10. Reached' \subseteq registered
    BY <2>1, <2>5 DEF LoopInv, ListInv
  <2>11. next' <= Len(bases) + 1
    <3>1. bases \in Seq(Class)
      BY DEF TypeInv, TypeOK
    <3> QED BY <2>1, <3>1
  <2> QED BY <2>1, <2>6, <2>8, <2>9, <2>10, <2>11 DEF LoopInv, registry
<1>4. CASE DeriveFail \/ DeriveFinish
  BY <1>4 DEF DeriveFail, DeriveFinish, LoopReset, LoopInv
<1>5. ASSUME NEW c \in Class, NEW opts \in OptionSets[c], BeginClass(c, opts)
      PROVE LoopInv'
  BY <1>5 DEF BeginClass, loop, LoopInv
<1>6. CASE UNCHANGED vars
  <2>1. Reached' = Reached /\ clParents' = clParents
    BY <1>6 DEF vars, loop, Reached
  <2> QED BY <1>6, <2>1, LoopFrame DEF vars, loop, registry
<1> QED BY <1>1, <1>2, <1>3, <1>4, <1>5, <1>6 DEF Next, Open

LEMMA Starts == Init => IInv
<1> SUFFICES ASSUME Init PROVE IInv
  OBVIOUS
<1>1. TypeInv
  BY NoCastsType DEF Init, TypeInv, TypeOK, LoopOK, LoopIdle, Table, Kind
<1>2. CastInv /\ LoopInv
  BY ClassAssumption DEF Init, LoopIdle, CastInv, CastsSound, NoCasts, LoopInv
<1>3. ASSUME NEW c \in Class, NEW k \in Kind PROVE parentList[<<c, k>>] = <<>>
  BY DEF Init, Table
<1>4. ParallelInv
  <2>1. <<>> \in Seq(Class) /\ \A k \in Kind : ListOf(<<>>, k) = <<>>
    BY DEF ListOf
  <2> QED BY <1>3, <2>1 DEF ParallelInv
<1>5. ASSUME NEW c \in Class
      PROVE  IsInjective(parentList[<<c, "cl">>]) /\ Ancestors[c] = {} /\ CastTo(cast[c]) = {}
  <2>1. parentList[<<c, "cl">>] = <<>>
    BY <1>3 DEF Kind
  <2> QED BY <2>1 DEF Init, IsInjective, Ancestors, Range, CastTo, NoCasts
<1>6. ListInv
  BY <1>5 DEF Init, ListInv
<1> QED BY <1>1, <1>2, <1>4, <1>6 DEF IInv

LEMMA Steps == IInv /\ [Next]_vars => IInv'
BY TypeStep, CastStep, ParallelStep, ListStep, LoopStep DEF IInv

LEMMA Inductive == Spec => []IInv
BY Starts, Steps, PTL DEF Spec

-----------------------------------------------------------------------------
(* What follows from the invariant.                                        *)

LEMMA Parents ==
  ASSUME IInv, NEW c \in Class, NEW k \in Kind
  PROVE  Range(parentList[<<c, k>>]) = {<<a, k>> : a \in Ancestors[c]}
<1>1. PICK s \in Seq(Class) : \A j \in Kind : parentList[<<c, j>>] = ListOf(s, j)
  BY DEF IInv, ParallelInv
<1>2. parentList[<<c, "cl">>] = ListOf(s, "cl") /\ parentList[<<c, k>>] = ListOf(s, k)
  BY <1>1 DEF Kind
<1>3. Ancestors[c] = {s[i] : i \in DOMAIN s}
  BY SMTT(30), <1>2 DEF Ancestors, Range, ListOf, ClassOf
<1>4. Range(parentList[<<c, k>>]) = {<<s[i], k>> : i \in DOMAIN s}
  BY <1>2 DEF Range, ListOf
<1> QED BY <1>3, <1>4

(* A pointer that Userdata::get hands out points to a subobject of the     *)
(* requested type, for every layout of classes and every way of naming     *)
(* bases: the offsets deriveClass composes agree with the compiler's.      *)
THEOREM PointersSound == Spec => []PointerSound
<1>1. IInv => PointerSound
  <2> SUFFICES ASSUME IInv, NEW ot \in ObjectTables, NEW T \in Class, NEW q \in BOOLEAN,
                      GetClass(ot, T, q)
               PROVE  <<T, GetOffset(ot, T)>> \in Subobject[ClassOf(ot)]
    BY DEF PointerSound
  <2> DEFINE c == ClassOf(ot)
             k == RegistryTable(ot, T, q)[2]
  <2>1. c \in Class /\ ot[2] \in {"co", "cl"} /\ ot = <<c, ot[2]>>
    BY DEF IInv, TypeInv, TypeOK, ObjectTables, ClassOf
  <2>2. RegistryTable(ot, T, q) = <<T, k>>
    BY DEF RegistryTable
  <2>3. CASE c = T
    BY <2>1, <2>3, SubobjectAssumption DEF GetOffset
  <2>4. CASE c # T
    <3>1. <<T, k>> \in Range(parentList[<<c, ot[2]>>])
      BY <2>1, <2>2, <2>4 DEF GetClass, Matches, ClassOf
    <3>2. T \in Ancestors[c]
      <4>1. ot[2] \in Kind
        BY <2>1 DEF Kind
      <4>2. Range(parentList[<<c, ot[2]>>]) = {<<a, ot[2]>> : a \in Ancestors[c]}
        BY <2>1, <4>1, Parents
      <4> QED BY <3>1, <4>2
    <3>3. cast[c][T] # NoOffset
      <4>1. T \in CastTo(cast[c])
        BY <2>1, <3>2 DEF IInv, ListInv
      <4> QED BY ONLY <4>1 DEF CastTo
    <3>4. <<T, cast[c][T]>> \in Subobject[c]
      BY <2>1, <3>3 DEF IInv, CastInv, CastsSound
    <3> QED BY <2>4, <3>3, <3>4 DEF GetOffset
  <2> QED BY <2>3, <2>4
<1> QED BY <1>1, Inductive, PTL

(* Constness in getClass: with canBeConst = false it never finds a const   *)
(* object, with canBeConst = true it finds exactly what isInstance accepts,*)
(* however classes derive from each other.                                 *)
THEOREM ConstIsRespected == Spec => []ConstRespected
<1>1. IInv => ConstRespected
  <2> SUFFICES ASSUME IInv, NEW ot \in ObjectTables, NEW T \in Class
               PROVE  /\ IsConstObject(ot) => ~GetClass(ot, T, FALSE)
                      /\ ~IsConstObject(ot) => (GetClass(ot, T, TRUE) <=> GetClass(ot, T, FALSE))
                      /\ IsInstance(ot, T) <=> GetClass(ot, T, TRUE)
    BY DEF ConstRespected
  <2>1. PICK c \in Class, k \in {"co", "cl"} : ot = <<c, k>>
    BY DEF IInv, TypeInv, TypeOK, ObjectTables
  <2>2. Range(parentList[ot]) = {<<a, k>> : a \in Ancestors[c]}
    <3>1. k \in Kind
      BY DEF Kind
    <3>2. Range(parentList[<<c, k>>]) = {<<a, k>> : a \in Ancestors[c]}
      BY <3>1, Parents
    <3> QED BY <2>1, <3>2
  <2>3. ASSUME NEW j \in {"co", "cl"}, j # k PROVE ~Matches(ot, <<T, j>>)
    BY <2>1, <2>2, <2>3 DEF Matches
  <2> QED BY <2>1, <2>3 DEF IsConstObject, GetClass, IsInstance, RegistryTable
<1> QED BY <1>1, Inductive, PTL

(* Every list of parents is without repetition, leaves its own class out,  *)
(* and goes with exactly the casts of the class.                           *)
THEOREM ListsAreCasts == Spec => []ListedOnceWithCast
<1>1. IInv => ListedOnceWithCast
  <2> SUFFICES ASSUME IInv, NEW c \in Class
               PROVE  LET list == parentList[<<c, "cl">>] IN
                        /\ IsInjective(list)
                        /\ <<c, "cl">> \notin Range(list)
                        /\ {ClassOf(t) : t \in Range(list)} = {a \in Class : cast[c][a] # NoOffset}
    BY DEF ListedOnceWithCast
  <2>1. Ancestors[c] = {ClassOf(t) : t \in Range(parentList[<<c, "cl">>])}
    BY DEF Ancestors
  <2>2. <<c, "cl">> \in Range(parentList[<<c, "cl">>]) => c \in Ancestors[c]
    BY <2>1 DEF ClassOf
  <2> QED BY <2>1, <2>2 DEF IInv, ListInv, CastTo
<1> QED BY <1>1, Inductive, PTL

(* Registration implements ClassHierarchy: whatever deriveClass does on    *)
(* the way and wherever it throws, a class appears in one step, with the   *)
(* ancestors of its bases, and its ancestors never change again.           *)
THEOREM RefinesHierarchy == Spec => ImplementsHierarchy
<1>1. Init => Hierarchy!HInit
  <2> SUFFICES ASSUME Init PROVE Hierarchy!HInit
    OBVIOUS
  <2>1. ASSUME NEW c \in Class PROVE Ancestors[c] = {}
    <3>1. parentList[<<c, "cl">>] = <<>>
      BY DEF Init, Table, Kind
    <3> QED BY <3>1 DEF Ancestors, Range
  <2> QED BY <2>1 DEF Init, Hierarchy!HInit, Ancestors
<1>2. IInv /\ [Next]_vars => [Hierarchy!HNext]_(Hierarchy!hvars)
  <2> SUFFICES ASSUME IInv, [Next]_vars
               PROVE  Hierarchy!HNext \/ (registered' = registered /\ Ancestors' = Ancestors)
    BY DEF Hierarchy!hvars
  <2>1. CASE registered' = registered /\ parentList' = parentList
    BY <2>1 DEF Ancestors
  <2>2. ASSUME NEW c \in Class, NEW opts \in OptionSets[c], BeginClass(c, opts)
        PROVE Hierarchy!HNext
    <3>1. c \notin registered /\ registered' = registered \union {c} /\ Ancestors' = Ancestors
      BY <2>2 DEF BeginClass, IInv, ListInv, Ancestors
    <3> QED BY <3>1 DEF Hierarchy!HNext, Hierarchy!RegisterRoot
  <2>3. CASE DeriveFinish
    <3> DEFINE d == building
               B == Range(bases)
    <3>1. /\ d \in Class /\ d \notin registered /\ bases \in Seq(Class)
          /\ clParents \in Seq(Class) /\ next \in Nat /\ next = Len(bases) + 1
      BY <2>3 DEF DeriveFinish, IInv, TypeInv, TypeOK, LoopInv
    <3>2. B \in SUBSET Class
      BY <3>1 DEF Range
    <3>3. Range(clParents) = UNION {{b} \union Ancestors[b] : b \in B}
      <4>1. Range(clParents) = Reached
        BY <2>3 DEF DeriveFinish, Reached, Range
      <4>2. 1..(next - 1) = DOMAIN bases
        BY <3>1
      <4>3. Reached = UNION {{bases[i]} \union Ancestors[bases[i]] : i \in DOMAIN bases}
        BY <2>3, <4>2 DEF DeriveFinish, IInv, LoopInv
      <4> QED BY <4>1, <4>3 DEF Range
    <3>4. B \subseteq registered
      BY <2>3, <3>3 DEF DeriveFinish, IInv, LoopInv, Reached
    <3>5. Ancestors' = [Ancestors EXCEPT ![d] = Hierarchy!Closure(B)]
      <4>1. ASSUME NEW c \in Class
            PROVE  Ancestors'[c] = IF c = d THEN Range(clParents) ELSE Ancestors[c]
        <5>1. parentList'[<<c, "cl">>] = IF c = d
                                         THEN [i \in DOMAIN clParents |-> <<clParents[i], "cl">>]
                                         ELSE parentList[<<c, "cl">>]
          BY <2>3 DEF DeriveFinish, ClassOf, Table, Kind
        <5> QED BY <5>1 DEF Ancestors, Range, ClassOf
      <4>2. Hierarchy!Closure(B) = Range(clParents)
        BY <3>3 DEF Hierarchy!Closure
      <4> QED BY <4>1, <4>2 DEF Ancestors
    <3>6. registered' = registered \union {d}
      BY <2>3 DEF DeriveFinish
    <3>7. Hierarchy!RegisterDerived(d, B)
      BY <3>1, <3>4, <3>5, <3>6 DEF Hierarchy!RegisterDerived
    <3> QED BY <3>1, <3>2, <3>7 DEF Hierarchy!HNext
  <2>4. \/ registered' = registered /\ parentList' = parentList
        \/ \E c \in Class : \E opts \in OptionSets[c] : BeginClass(c, opts)
        \/ DeriveFinish
    BY DEF Next, Open, DeriveOpen, AppendUnique, DeriveBase, DeriveFail, registry, vars
  <2> QED BY <2>1, <2>2, <2>3, <2>4
<1> QED BY <1>1, <1>2, Inductive, PTL DEF Spec, ImplementsHierarchy, Hierarchy!HSpec
-----------------------------------------------------------------------------
(* The members.                                                            *)
Entry == [kind : CKind \union {"lua", "data", "nil"}, owner : Class \union {NoClass}]
FieldsOf == [Store -> [Key -> Entry]]
MembersOK == /\ field \in FieldsOf
             /\ propget \subseteq Table \X Name /\ propset \subseteq Table \X Name
             /\ answers \in [Table -> SUBSET Name] /\ catches \subseteq Table
             /\ ops \in 0..MaxOps

(* A table with the simple metamethods, or of a class that is not          *)
(* registered yet, has neither parents nor a fallback.                     *)
SimpleInv ==
  \A t \in Table : t \in fast \/ ClassOf(t) \notin registered
                     => parentList[t] = <<>> /\ answers[t] = {} /\ t \notin catches

DInv == IInv /\ MembersOK /\ SimpleInv

LEMMA LeastNat ==
  ASSUME NEW S, S \subseteq Nat, S # {}
  PROVE  \E n \in S : \A m \in S : n <= m
<1>1. PICK n \in S : \A m \in S : ~ (<<m, n>> \in OpToRel(<, Nat))
  BY NatLessThanWellFounded, WFMin
<1>2. \A m \in S : ~(m < n)
  BY <1>1 DEF OpToRel
<1> QED BY <1>2

(* Installing the full metamethods changes nothing else of the registry.   *)
LEMMA FullMetaMethodsStep == ASSUME IInv, NEW t \in Table, FullMetaMethods(t) PROVE IInv'
<1> USE DEF FullMetaMethods, loop
<1>1. TypeInv'
  BY DEF IInv, TypeInv, TypeOK, LoopOK, LoopIdle
<1>2. CastInv'
  BY DEF IInv, CastInv, CastsSound
<1>3. ParallelInv'
  BY DEF IInv, ParallelInv
<1>4. ListInv'
  BY DEF IInv, ListInv, Ancestors, CastTo
<1>5. LoopInv'
  <2>1. Reached' = Reached /\ clParents' = clParents
    BY DEF Reached
  <2> QED BY <2>1, LoopFrame DEF IInv
<1> QED BY <1>1, <1>2, <1>3, <1>4, <1>5 DEF IInv

LEMMA RegistryKept == ASSUME IInv, UNCHANGED vars PROVE IInv'
BY Steps

(* The keys and the tables of a name.                                      *)
LEMMA KeysAndStores ==
  /\ \A n \in Name : Plain(n) \in Key /\ Super(n) \in Key /\ Plain(n) # Super(n)
  /\ \A c \in Class, k \in Kind : <<c, k>> \in Table /\ ClassOf(<<c, k>>) = c
  /\ \A t \in Table : t \in Store /\ StoreTable(t) \in Store /\ ClassOf(t) \in Class
                      /\ t[2] \in Kind /\ t = <<ClassOf(t), t[2]>>
  /\ \A c \in Class : <<c, "vst">> \in Store
BY DEF Plain, Super, Key, Table, Kind, Store, StoreTable, ClassOf

LEMMA Entries ==
  /\ Nil \in Entry
  /\ \A c \in Class, kind \in {"const", "method", "static", "lua", "data"} : Member(kind, c) \in Entry
  /\ \A c \in Class, kind \in {"const", "method", "static", "lua", "data"} :
        Member(kind, c) # Nil /\ (IsCFunction(Member(kind, c)) <=> kind \in CKind)
  /\ ~IsCFunction(Nil)
BY DEF Nil, Entry, Member, CKind, IsCFunction

(* One entry written.                                                      *)
LEMMA Written ==
  ASSUME NEW f \in FieldsOf, NEW t \in Store, NEW k \in Key, NEW v \in Entry
  PROVE  /\ [f EXCEPT ![t][k] = v] \in FieldsOf
         /\ [f EXCEPT ![t][k] = v][t][k] = v
         /\ \A u \in Store, l \in Key : u # t \/ l # k => [f EXCEPT ![t][k] = v][u][l] = f[u][l]
BY DEF FieldsOf

(* The writes of scripts.                                                  *)
LEMMA ParentTables ==
  ASSUME IInv, NEW t \in Table
  PROVE  /\ parentList[t] \in Seq(Table) /\ DOMAIN parentList[t] = 1..Len(parentList[t])
         /\ Len(parentList[t]) \in Nat
         /\ \A i \in DOMAIN parentList[t] : parentList[t][i] \in Table
<1>1. parentList[t] \in Seq(Table)
  BY DEF IInv, TypeInv, TypeOK
<1> QED BY <1>1

LEMMA HolderFacts ==
  ASSUME IInv, NEW t \in Table, NEW n \in Name, Holders(t, n) # {}
  PROVE  FirstHolder(t, n) \in DOMAIN parentList[t]
<1>1. Holders(t, n) \subseteq Nat
  BY ParentTables DEF Holders
<1>2. \E i \in Holders(t, n) : \A j \in Holders(t, n) : i <= j
  BY <1>1, LeastNat
<1> QED BY <1>2 DEF FirstHolder, Holders

LEMMA SaveSuperFacts ==
  ASSUME NEW f \in FieldsOf, field \in FieldsOf, NEW ct \in Store, NEW dest \in Store, NEW n \in Name
  PROVE  /\ SaveSuper(f, ct, dest, n) \in FieldsOf
         /\ \A u \in Store : SaveSuper(f, ct, dest, n)[u][Plain(n)] = f[u][Plain(n)]
         /\ IsCFunction(field[ct][Plain(n)])
              => SaveSuper(f, ct, dest, n)[dest][Super(n)] = field[ct][Plain(n)]
         /\ ~IsCFunction(field[ct][Plain(n)]) => SaveSuper(f, ct, dest, n) = f
<1>1. Plain(n) \in Key /\ Super(n) \in Key /\ Plain(n) # Super(n)
  BY KeysAndStores
<1>2. field[ct][Plain(n)] \in Entry
  BY <1>1 DEF FieldsOf
<1> QED BY <1>1, <1>2, Written DEF SaveSuper

(* What either extending write does: an entry it changes may be replaced,  *)
(* and a C function it replaces in the table of the class is saved.        *)
Changed(u, n) == field'[u][Plain(n)] # field[u][Plain(n)]
Respectful(n) == field' \in FieldsOf /\ \A u \in Store : Changed(u, n) => MayReplace(u, n)

LEMMA Replaced ==
  ASSUME NEW f \in FieldsOf, NEW n \in Name, NEW u \in Store, NEW v \in Entry, MayReplace(u, n),
         field \in FieldsOf, \A w \in Store : f[w][Plain(n)] = field[w][Plain(n)],
         field' = [f EXCEPT ![u][Plain(n)] = v]
  PROVE  Respectful(n)
<1>1. Plain(n) \in Key
  BY KeysAndStores
<1>2. /\ field' \in FieldsOf
      /\ \A w \in Store : w # u => field'[w][Plain(n)] = f[w][Plain(n)]
  BY <1>1 DEF FieldsOf
<1> QED BY <1>2 DEF Respectful, Changed

LEMMA FunctionWritten ==
  ASSUME IInv, MembersOK, NEW t \in Table, NEW n \in Name, ExtendFunction(t, n)
  PROVE  /\ Respectful(n)
         /\ Changed(StoreTable(t), n) /\ IsCFunction(field[StoreTable(t)][Plain(n)])
              => IsCFunction(field'[StoreTable(t)][Super(n)])
<1> DEFINE dest == StoreTable(t)
           own == SaveSuper(field, dest, dest, n)
           value == Member("lua", ClassOf(t))
           ct == StoreTable(parentList[t][FirstHolder(t, n)])
           both == SaveSuper(own, ct, dest, n)
<1>1. /\ dest \in Store /\ field \in FieldsOf /\ value \in Entry
      /\ Plain(n) \in Key /\ Super(n) \in Key /\ Plain(n) # Super(n)
  BY KeysAndStores, Entries DEF MembersOK
<1>2. /\ own \in FieldsOf /\ \A u \in Store : own[u][Plain(n)] = field[u][Plain(n)]
      /\ IsCFunction(field[dest][Plain(n)]) => IsCFunction(own[dest][Super(n)])
  BY <1>1, SaveSuperFacts
<1>3. field' =
       IF ~MayReplace(dest, n) THEN field
       ELSE IF Holders(t, n) = {} THEN [own EXCEPT ![dest][Plain(n)] = value]
       ELSE IF ~MayReplace(ct, n) THEN own
            ELSE [both EXCEPT ![dest][Plain(n)] = value]
  BY DEF ExtendFunction
<1>4. Holders(t, n) # {} => ct \in Store
  BY HolderFacts, ParentTables, KeysAndStores
<1>5. CASE ~MayReplace(dest, n)
  BY <1>1, <1>3, <1>5 DEF Respectful, Changed
<1>6. CASE MayReplace(dest, n) /\ Holders(t, n) = {}
  <2>1. field' = [own EXCEPT ![dest][Plain(n)] = value]
    BY <1>3, <1>6
  <2> HIDE DEF own, dest, value
  <2>2. field'[dest][Super(n)] = own[dest][Super(n)]
    BY <1>1, <1>2, <2>1, Written
  <2>3. Respectful(n)
    BY <1>1, <1>2, <1>6, <2>1, Replaced
  <2> QED BY <1>2, <2>2, <2>3 DEF dest
<1>7. CASE MayReplace(dest, n) /\ Holders(t, n) # {} /\ ~MayReplace(ct, n)
  BY <1>2, <1>3, <1>7 DEF Respectful, Changed
<1>8. CASE MayReplace(dest, n) /\ Holders(t, n) # {} /\ MayReplace(ct, n)
  <2>1. field' = [both EXCEPT ![dest][Plain(n)] = value]
    BY <1>3, <1>8
  <2> HIDE DEF own, dest, value, ct
  <2>2. /\ both \in FieldsOf /\ \A u \in Store : both[u][Plain(n)] = field[u][Plain(n)]
        /\ IsCFunction(field[dest][Plain(n)]) => IsCFunction(both[dest][Super(n)])
    BY <1>1, <1>2, <1>4, <1>8, SaveSuperFacts
  <2> HIDE DEF both
  <2>3. field'[dest][Super(n)] = both[dest][Super(n)]
    BY <1>1, <2>1, <2>2, Written
  <2>4. Respectful(n)
    BY <1>1, <1>8, <2>1, <2>2, Replaced
  <2> QED BY <2>2, <2>3, <2>4 DEF dest
<1> QED BY <1>5, <1>6, <1>7, <1>8

LEMMA DataWritten ==
  ASSUME IInv, MembersOK, NEW t \in Table, NEW n \in Name, NEW value \in Entry,
         ExtendData(t, n, value)
  PROVE  Respectful(n)
<1> DEFINE dest == StoreTable(t)
           own == SaveSuper(field, dest, dest, n)
           parents == parentList[t]
           last == StoreTable(parents[Len(parents)])
           ct == StoreTable(parents[FirstHolder(t, n)])
           both == SaveSuper(own, ct, ct, n)
<1>1. dest \in Store /\ field \in FieldsOf /\ Plain(n) \in Key
  BY KeysAndStores DEF MembersOK
<1>2. own \in FieldsOf /\ \A u \in Store : own[u][Plain(n)] = field[u][Plain(n)]
  BY <1>1, SaveSuperFacts
<1>3. field' =
       IF ~MayReplace(dest, n) THEN field
       ELSE IF parents = <<>> THEN [own EXCEPT ![dest][Plain(n)] = value]
       ELSE IF Holders(t, n) = {} THEN [own EXCEPT ![last][Plain(n)] = value]
       ELSE IF ~MayReplace(ct, n) THEN own
            ELSE [both EXCEPT ![ct][Plain(n)] = value]
  BY DEF ExtendData
<1>4. Holders(t, n) # {} => ct \in Store
  BY HolderFacts, ParentTables, KeysAndStores
<1>5. CASE ~MayReplace(dest, n)
  BY <1>1, <1>3, <1>5 DEF Respectful, Changed
<1>6. CASE MayReplace(dest, n) /\ parents = <<>>
  <2>1. field' = [own EXCEPT ![dest][Plain(n)] = value]
    BY <1>3, <1>6
  <2> QED BY <1>1, <1>2, <1>6, <2>1, Replaced
<1>7. CASE MayReplace(dest, n) /\ parents # <<>> /\ Holders(t, n) = {}
  <2>1. Len(parents) \in DOMAIN parents /\ parents[Len(parents)] \in Table
    BY <1>7, ParentTables
  <2>2. last \in Store /\ field[last][Plain(n)] = Nil
    BY <1>7, <2>1, KeysAndStores DEF Holders
  <2>3. MayReplace(last, n)
    BY <2>2, Entries DEF MayReplace
  <2>4. field' = [own EXCEPT ![last][Plain(n)] = value]
    BY <1>3, <1>7
  <2> QED BY <1>1, <1>2, <2>2, <2>3, <2>4, Replaced
<1>8. CASE MayReplace(dest, n) /\ parents # <<>> /\ Holders(t, n) # {} /\ ~MayReplace(ct, n)
  BY SMTT(30), <1>2, <1>3, <1>8 DEF Respectful, Changed
<1>9. CASE MayReplace(dest, n) /\ parents # <<>> /\ Holders(t, n) # {} /\ MayReplace(ct, n)
  <2>1. field' = [both EXCEPT ![ct][Plain(n)] = value]
    BY <1>3, <1>9
  <2>2. both \in FieldsOf /\ \A u \in Store : both[u][Plain(n)] = field[u][Plain(n)]
    BY <1>1, <1>2, <1>4, <1>9, SaveSuperFacts
  <2> QED BY SMTT(30), <1>1, <1>4, <1>9, <2>1, <2>2, Replaced
<1> QED BY <1>5, <1>6, <1>7, <1>8, <1>9

(* Each operation on members.                                              *)
LEMMA FieldsStep ==
  ASSUME IInv, MembersOK, NEW c \in Class, NEW n \in Name, Register(c, n) \/ ScriptWrite(c, n)
  PROVE  /\ MembersOK' /\ UNCHANGED <<vars, answers, catches>>
         /\ ScriptWrite(c, n) => UNCHANGED propset
<1> USE DEF Counted, Writing, Registering
<1>0. /\ Plain(n) \in Key /\ \A k \in Kind : <<c, k>> \in Table /\ <<c, k>> \in Store
      /\ <<c, "vst">> \in Store /\ ops \in 0..MaxOps /\ field \in FieldsOf
  BY KeysAndStores DEF MembersOK
<1>1. ASSUME Counted PROVE ops' \in 0..MaxOps
  BY <1>0, <1>1, DispatchAssumption
<1>2. ASSUME NEW kind \in {"const", "method"}, AddFunction(c, n, kind)
      PROVE  MembersOK' /\ UNCHANGED <<vars, answers, catches>>
  <2>1. Member(kind, c) \in Entry
    BY Entries
  <2>2. field' \in FieldsOf
    BY <1>0, <1>2, <2>1 DEF AddFunction, FieldsOf
  <2> QED BY <1>1, <1>2, <2>2 DEF AddFunction, MembersOK
<1>3. ASSUME AddStaticFunction(c, n)
      PROVE  MembersOK' /\ UNCHANGED <<vars, answers, catches>>
  <2>1. Member("static", c) \in Entry /\ <<c, "st">> \in Store
    BY <1>0, Entries DEF Kind
  <2>2. field' \in FieldsOf
    BY <1>0, <1>3, <2>1 DEF AddStaticFunction, FieldsOf
  <2> QED BY <1>1, <1>3, <2>2 DEF AddStaticFunction, MembersOK
<1>4. ASSUME AddProperty(c, n)
      PROVE  MembersOK' /\ UNCHANGED <<vars, answers, catches>>
  BY <1>0, <1>1, <1>4 DEF AddProperty, MembersOK, Kind
<1>5. ASSUME AddStaticProperty(c, n)
      PROVE  MembersOK' /\ UNCHANGED <<vars, answers, catches>>
  BY <1>0, <1>1, <1>5 DEF AddStaticProperty, MembersOK, Kind
<1>6. ASSUME ScriptWrite(c, n)
      PROVE  MembersOK' /\ UNCHANGED <<vars, answers, catches, propset>>
  <2>1. /\ Counted /\ UNCHANGED <<vars, propget, propset, answers, catches>>
    BY <1>6 DEF ScriptWrite, StaticWriteFunction, InstanceWriteFunction, StaticWriteData,
               InstanceWriteData
  <2>2. /\ <<c, "st">> \in Table /\ <<c, "cl">> \in Table /\ Nil \in Entry
        /\ Member("lua", c) \in Entry /\ Member("data", c) \in Entry
    BY <1>0, Entries DEF Kind
  <2>3. ASSUME NEW v \in Entry, WriteRaw(c, n, v) PROVE field' \in FieldsOf
    BY <1>0, <2>3 DEF WriteRaw, FieldsOf
  <2>4. field' \in FieldsOf
    BY <1>6, <2>2, <2>3, FunctionWritten, DataWritten
       DEF ScriptWrite, StaticWriteFunction, InstanceWriteFunction, StaticWriteData,
           InstanceWriteData, Respectful
  <2> QED BY <1>1, <2>1, <2>4 DEF MembersOK
<1> QED BY <1>2, <1>3, <1>4, <1>5, <1>6 DEF Register

LEMMA FallbackStep ==
  ASSUME DInv, NEW c \in Class, AddFallback(c)
  PROVE  DInv'
<1> USE DEF Registering, Counted
<1>0. IInv /\ MembersOK /\ SimpleInv
  BY DEF DInv
<1>1. PICK k \in {"cl", "st"} : \/ \E names \in SUBSET Name : AddIndexMetaMethod(<<c, k>>, names)
                                \/ AddNewIndexMetaMethod(<<c, k>>)
  BY DEF AddFallback
<1> DEFINE t == <<c, k>>
<1>2. t \in Table /\ ClassOf(t) = c
  BY KeysAndStores DEF Kind
<1>3. /\ FullMetaMethods(t) /\ c \in registered /\ UNCHANGED <<field, propget, propset>>
      /\ ops' \in 0..MaxOps
  BY <1>0, <1>1, <1>2, DispatchAssumption DEF AddIndexMetaMethod, AddNewIndexMetaMethod, MembersOK
<1>4. /\ answers' \in [Table -> SUBSET Name] /\ catches' \subseteq Table
      /\ \A u \in Table \ {t} : answers'[u] = answers[u] /\ (u \in catches' <=> u \in catches)
  <2>1. CASE \E names \in SUBSET Name : AddIndexMetaMethod(t, names)
    BY <1>0, <1>2, <2>1 DEF AddIndexMetaMethod, MembersOK
  <2>2. CASE AddNewIndexMetaMethod(t)
    BY <1>0, <1>2, <2>2 DEF AddNewIndexMetaMethod, MembersOK
  <2> QED BY <1>1, <2>1, <2>2
<1> HIDE DEF t
<1>5. IInv'
  BY <1>0, <1>2, <1>3, FullMetaMethodsStep
<1>6. MembersOK'
  BY <1>0, <1>3, <1>4 DEF MembersOK
<1>7. SimpleInv'
  <2>1. /\ fast' = fast \ {t} /\ registered' = registered /\ parentList' = parentList
    BY <1>3 DEF FullMetaMethods
  <2> QED BY <1>0, <1>2, <1>3, <1>4, <2>1 DEF SimpleInv
<1> QED BY <1>5, <1>6, <1>7 DEF DInv

LEMMA RegistryStep ==
  ASSUME DInv, Next, UNCHANGED members
  PROVE  DInv'
<1>0. IInv /\ MembersOK /\ SimpleInv /\ registered \subseteq bound
  BY DEF DInv, IInv, ListInv
<1>1. IInv'
  BY <1>0, Steps
<1>2. MembersOK' /\ answers' = answers /\ catches' = catches
  BY <1>0 DEF members, MembersOK
<1>3. SimpleInv'
  <2>1. ASSUME NEW c \in Class, NEW opts \in OptionSets[c], BeginClass(c, opts) PROVE SimpleInv'
    <3>1. /\ c \notin registered /\ registered' = registered \union {c}
          /\ parentList' = parentList
          /\ \A t \in Table : t \in fast' => t \in fast \/ ClassOf(t) = c
      BY <1>0, <2>1 DEF BeginClass, CreateTables, Tables, ClassOf, Table
    <3> QED BY <1>0, <1>2, <3>1 DEF SimpleInv
  <2>2. ASSUME NEW d \in Class, NEW opts \in OptionSets[d], NEW l \in BaseLists[d],
               DeriveOpen(d, l, opts)
        PROVE  SimpleInv'
    <3>1. /\ d \notin registered /\ registered' = registered /\ parentList' = parentList
          /\ \A t \in Table : t \in fast' => t \in fast \/ ClassOf(t) = d
      BY <1>0, <2>2 DEF DeriveOpen, CreateTables, Tables, ClassOf, Table
    <3> QED BY <1>0, <1>2, <3>1 DEF SimpleInv
  <2>3. CASE DeriveFinish
    <3>1. /\ registered' = registered \union {building}
          /\ \A t \in Table : ClassOf(t) # building => parentList'[t] = parentList[t]
          /\ \A t \in Table : t \in fast' => t \in fast /\ ClassOf(t) # building
      BY <2>3 DEF DeriveFinish, Tables, ClassOf, Table
    <3> QED BY <1>0, <1>2, <3>1 DEF SimpleInv
  <2>4. CASE AppendUnique \/ DeriveBase \/ DeriveFail
    <3>1. UNCHANGED <<fast, registered, parentList>>
      BY <2>4 DEF AppendUnique, DeriveBase, DeriveFail, registry
    <3> QED BY <1>0, <1>2, <3>1 DEF SimpleInv
  <2> QED BY <2>1, <2>2, <2>3, <2>4 DEF Next, Open
<1> QED BY <1>1, <1>2, <1>3 DEF DInv

LEMMA DispatchSteps == DInv /\ [DispatchNext]_dvars => DInv'
<1> SUFFICES ASSUME DInv, [DispatchNext]_dvars PROVE DInv'
  OBVIOUS
<1>0. IInv /\ MembersOK /\ SimpleInv
  BY DEF DInv
<1>1. ASSUME NEW c \in Class, NEW n \in Name, Register(c, n) \/ ScriptWrite(c, n) PROVE DInv'
  <2>1. MembersOK' /\ UNCHANGED <<vars, answers, catches>>
    BY <1>0, <1>1, FieldsStep
  <2>2. UNCHANGED <<fast, registered, parentList>>
    BY <2>1 DEF vars, registry
  <2>3. SimpleInv'
    BY <1>0, <2>1, <2>2 DEF SimpleInv
  <2> QED BY <1>0, <2>1, <2>3, RegistryKept DEF DInv
<1>2. CASE UNCHANGED dvars
  <2>1. UNCHANGED <<vars, fast, registered, parentList>> /\ UNCHANGED members
    BY <1>2 DEF dvars, vars, registry
  <2>2. MembersOK' /\ SimpleInv'
    BY <1>0, <2>1 DEF members, MembersOK, SimpleInv
  <2> QED BY <1>0, <2>1, <2>2, RegistryKept DEF DInv
<1> QED BY <1>1, <1>2, FallbackStep, RegistryStep DEF DispatchNext

LEMMA DispatchStarts == DispatchInit => DInv
<1> SUFFICES ASSUME DispatchInit PROVE DInv
  OBVIOUS
<1>1. IInv /\ parentList = [t \in Table |-> <<>>]
  BY Starts DEF DispatchInit, Init
<1>2. MembersOK
  BY Entries, DispatchAssumption DEF DispatchInit, MembersOK, FieldsOf
<1>3. SimpleInv
  BY <1>1 DEF DispatchInit, SimpleInv
<1> QED BY <1>1, <1>2, <1>3 DEF DInv

(* The types of the members, and where the simple metamethods are.         *)
THEOREM DispatchInductive == DispatchSpec => []DInv
BY DispatchStarts, DispatchSteps, PTL DEF DispatchSpec
-----------------------------------------------------------------------------
(* What scripts may change.                                                *)
MethodsStay ==
  \A c \in Class, n \in Name : ScriptWrite(c, n) =>
    \A d \in Class, k \in {"co", "cl"} :
      IsCFunction(field[<<d, k>>][Plain(n)]) /\ ~Has(d, "allowOverridingMethods")
        => field'[<<d, k>>][Plain(n)] = field[<<d, k>>][Plain(n)]

(* A C++ method of a class without allowOverridingMethods is never         *)
(* replaced, whichever class or instance a script writes through.          *)
THEOREM MethodsAreProtected == DispatchSpec => ProtectedMethods
<1>1. DInv /\ [DispatchNext]_dvars => [MethodsStay]_dvars
  <2> SUFFICES ASSUME DInv, NEW c \in Class, NEW n \in Name, ScriptWrite(c, n),
                      NEW d \in Class, NEW k \in {"co", "cl"},
                      IsCFunction(field[<<d, k>>][Plain(n)]), ~Has(d, "allowOverridingMethods")
               PROVE  field'[<<d, k>>][Plain(n)] = field[<<d, k>>][Plain(n)]
    BY DEF MethodsStay
  <2>1. /\ <<d, k>> \in Store /\ <<d, k>> # <<c, "vst">> /\ ClassOf(<<d, k>>) = d
        /\ <<c, "st">> \in Table /\ <<c, "cl">> \in Table /\ <<c, "vst">> \in Store
        /\ IInv /\ MembersOK /\ field \in FieldsOf
        /\ Nil \in Entry /\ Member("data", c) \in Entry /\ Plain(n) \in Key
    BY KeysAndStores, Entries DEF Kind, DInv, MembersOK
  <2>2. ~MayReplace(<<d, k>>, n)
    BY <2>1 DEF MayReplace
  <2>3. ASSUME NEW v, WriteRaw(c, n, v)
        PROVE  field'[<<d, k>>][Plain(n)] = field[<<d, k>>][Plain(n)]
    BY <2>1, <2>3 DEF WriteRaw, FieldsOf
  <2>4. Respectful(n) => field'[<<d, k>>][Plain(n)] = field[<<d, k>>][Plain(n)]
    BY <2>1, <2>2 DEF Respectful, Changed
  <2> QED BY <2>1, <2>3, <2>4, FunctionWritten, DataWritten
          DEF ScriptWrite, StaticWriteFunction, InstanceWriteFunction, StaticWriteData,
              InstanceWriteData
<1> QED BY <1>1, DispatchInductive, PTL DEF DispatchSpec, ProtectedMethods, MethodsStay

SuperKept ==
  \A c \in Class, n \in Name : StaticWriteFunction(c, n) =>
    LET old == field[<<c, "cl">>]
        new == field'[<<c, "cl">>]
    IN IsCFunction(old[Plain(n)]) /\ new[Plain(n)] # old[Plain(n)]
         => IsCFunction(new[Super(n)])

(* A C++ method that a function of a script replaces remains reachable     *)
(* under its super_ key.                                                   *)
THEOREM SuperIsKept == DispatchSpec => OverrideKeepsSuper
<1>1. DInv /\ [DispatchNext]_dvars => [SuperKept]_dvars
  <2> SUFFICES ASSUME DInv, NEW c \in Class, NEW n \in Name, StaticWriteFunction(c, n),
                      IsCFunction(field[<<c, "cl">>][Plain(n)]),
                      field'[<<c, "cl">>][Plain(n)] # field[<<c, "cl">>][Plain(n)]
               PROVE  IsCFunction(field'[<<c, "cl">>][Super(n)])
    BY DEF SuperKept
  <2>1. /\ <<c, "cl">> \in Store /\ <<c, "st">> \in Table /\ <<c, "vst">> \in Store
        /\ IInv /\ MembersOK /\ field \in FieldsOf /\ Plain(n) \in Key
        /\ StoreTable(<<c, "st">>) = <<c, "cl">>
    BY KeysAndStores DEF Kind, DInv, MembersOK, StoreTable, ClassOf
  <2>2. \A v : ~WriteRaw(c, n, v)
    BY <2>1 DEF WriteRaw, FieldsOf
  <2>3. ExtendFunction(<<c, "st">>, n)
    BY <2>2 DEF StaticWriteFunction
  <2> QED BY <2>1, <2>3, FunctionWritten DEF Changed
<1> QED BY <1>1, DispatchInductive, PTL DEF DispatchSpec, OverrideKeepsSuper, SuperKept
-----------------------------------------------------------------------------
(* The first of several sources that answers.                              *)
Answer == [by : {"field", "getter", "fallback", "setter", "extend"}, at : Store]
Sources == Seq(SUBSET Answer)
Silent(s) == \A i \in 1..Len(s) : s[i] = {}
FirstAt(s, i) == i \in 1..Len(s) /\ s[i] # {} /\ \A j \in 1..Len(s) : j < i => s[j] = {}
Chosen(S) == CHOOSE h \in S : TRUE

LEMMA FirstHitAt ==
  ASSUME NEW s \in Sources, NEW i, FirstAt(s, i)
  PROVE  FirstHit(s) = Chosen(s[i])
<1> DEFINE hits == {j \in DOMAIN s : s[j] # {}}
           m == CHOOSE j \in hits : \A q \in hits : j <= q
<1>1. DOMAIN s = 1..Len(s) /\ Len(s) \in Nat
  BY DEF Sources
<1>2. i \in hits /\ \A q \in hits : i <= q
  BY <1>1 DEF FirstAt
<1>3. m \in hits /\ \A q \in hits : m <= q
  BY <1>2
<1>4. m <= i /\ i <= m /\ m \in Int /\ i \in Int
  BY <1>1, <1>2, <1>3
<1>5. m = i
  BY ONLY <1>4
<1>6. FirstHit(s) = CHOOSE h \in s[m] : TRUE
  BY <1>2 DEF FirstHit
<1> QED BY <1>5, <1>6 DEF Chosen

LEMMA FirstExists ==
  ASSUME NEW s \in Sources, ~Silent(s)
  PROVE  \E i \in 1..Len(s) : FirstAt(s, i)
<1> DEFINE hits == {j \in 1..Len(s) : s[j] # {}}
<1>1. hits # {} /\ hits \subseteq Nat
  BY DEF Silent
<1>2. PICK i \in hits : \A q \in hits : i <= q
  BY <1>1, LeastNat
<1>3. \A j \in 1..Len(s) : j < i => s[j] = {}
  <2>1. ASSUME NEW j \in 1..Len(s), j < i, s[j] # {} PROVE FALSE
    <3>1. j \in hits /\ i \in Nat /\ j \in Nat
      BY <1>1, <2>1
    <3>2. i <= j
      BY <1>2, <3>1
    <3> QED BY ONLY <2>1, <3>1, <3>2
  <2> QED BY <2>1
<1> QED BY <1>2, <1>3 DEF FirstAt

LEMMA NoHit ==
  ASSUME NEW s \in Sources, Silent(s)
  PROVE  FirstHit(s) = [by |-> "none", at |-> <<NoClass, "">>]
<1>1. {j \in DOMAIN s : s[j] # {}} = {}
  BY DEF Silent, Sources
<1> QED BY <1>1 DEF FirstHit

(* c is a followed by b.                                                   *)
Joined(c, a, b) ==
  /\ a \in Sources /\ b \in Sources /\ c \in Sources /\ Len(c) = Len(a) + Len(b)
  /\ Len(a) \in Nat /\ Len(b) \in Nat /\ Len(c) \in Nat
  /\ \A i \in 1..Len(a) : i \in 1..Len(c) /\ c[i] = a[i]
  /\ \A i \in 1..Len(b) : Len(a) + i \in 1..Len(c) /\ c[Len(a) + i] = b[i]
  /\ \A i \in 1..Len(c) : i \notin 1..Len(a) => i - Len(a) \in 1..Len(b) /\ c[i] = b[i - Len(a)]

LEMMA JoinFacts ==
  ASSUME NEW a \in Sources, NEW b \in Sources
  PROVE  Joined(a \o b, a, b)
BY DEF Sources, Joined

(* The answer of joined sources is that of the first part, if it has one.  *)
LEMMA FirstOfJoined ==
  ASSUME NEW a, NEW b, NEW c, Joined(c, a, b), ~Silent(a)
  PROVE  FirstHit(c) = FirstHit(a) /\ ~Silent(c)
<1>1. PICK i \in 1..Len(a) : FirstAt(a, i)
  BY FirstExists DEF Joined
<1>2. FirstAt(c, i)
  <2>1. i \in 1..Len(c) /\ c[i] # {}
    BY <1>1 DEF FirstAt, Joined
  <2>2. \A j \in 1..Len(c) : j < i => c[j] = {}
    <3>1. \A j \in 1..Len(c) : j < i => j \in 1..Len(a)
      BY <1>1 DEF Joined
    <3> QED BY <1>1, <3>1 DEF FirstAt, Joined
  <2> QED BY <2>1, <2>2 DEF FirstAt
<1>3. FirstHit(c) = Chosen(c[i]) /\ FirstHit(a) = Chosen(a[i])
  BY <1>1, <1>2, FirstHitAt DEF Joined
<1> QED BY <1>1, <1>2, <1>3 DEF FirstAt, Silent, Joined

LEMMA SecondOfJoined ==
  ASSUME NEW a, NEW b, NEW c, Joined(c, a, b), Silent(a)
  PROVE  FirstHit(c) = FirstHit(b) /\ (Silent(c) <=> Silent(b))
<1>1. CASE Silent(b)
  <2>1. Silent(c)
    BY <1>1 DEF Silent, Joined
  <2> QED BY <1>1, <2>1, NoHit DEF Joined
<1>2. CASE ~Silent(b)
  <2>1. PICK i \in 1..Len(b) : FirstAt(b, i)
    BY <1>2, FirstExists DEF Joined
  <2> DEFINE m == Len(a) + i
  <2>2. m \in 1..Len(c) /\ c[m] = b[i]
    BY DEF Joined
  <2>3. \A j \in 1..Len(c) : j < m => c[j] = {}
    <3> SUFFICES ASSUME NEW j \in 1..Len(c), j < m PROVE c[j] = {}
      OBVIOUS
    <3>1. CASE j \in 1..Len(a)
      BY <3>1 DEF Silent, Joined
    <3>2. CASE j \notin 1..Len(a)
      <4>1. j - Len(a) \in 1..Len(b) /\ c[j] = b[j - Len(a)]
        BY <3>2 DEF Joined
      <4>2. j - Len(a) < i
        BY <4>1 DEF Joined
      <4> QED BY <2>1, <4>1, <4>2 DEF FirstAt
    <3> QED BY <3>1, <3>2
  <2>4. FirstAt(c, m)
    BY <2>1, <2>2, <2>3 DEF FirstAt
  <2>5. FirstHit(c) = Chosen(c[m]) /\ FirstHit(b) = Chosen(b[i])
    BY <2>1, <2>4, FirstHitAt DEF Joined
  <2> QED BY <1>2, <2>2, <2>4, <2>5 DEF FirstAt, Silent
<1> QED BY <1>1, <1>2

LEMMA Joining ==
  ASSUME NEW a \in Sources, NEW b \in Sources
  PROVE  /\ a \o b \in Sources
         /\ ~Silent(a) => FirstHit(a \o b) = FirstHit(a)
         /\ Silent(a) => FirstHit(a \o b) = FirstHit(b)
         /\ Silent(a \o b) <=> Silent(a) /\ Silent(b)
<1> DEFINE c == a \o b
<1>1. Joined(c, a, b)
  BY JoinFacts
<1> HIDE DEF c
<1>2. c \in Sources
  BY <1>1 DEF Joined
<1> QED BY <1>1, <1>2, FirstOfJoined, SecondOfJoined DEF c

(* Sources one by one.                                                     *)
LEMMA SingleFacts ==
  ASSUME NEW x \in SUBSET Answer
  PROVE  /\ <<x>> \in Sources
         /\ Silent(<<x>>) <=> x = {}
         /\ x # {} => FirstHit(<<x>>) = Chosen(x)
<1>1. <<x>> \in Sources /\ Len(<<x>>) = 1 /\ <<x>>[1] = x
  BY DEF Sources
<1>2. Silent(<<x>>) <=> x = {}
  BY <1>1 DEF Silent
<1>3. x # {} => FirstAt(<<x>>, 1)
  BY <1>1 DEF FirstAt
<1> QED BY <1>1, <1>2, <1>3, FirstHitAt

Says(S, what, t) == S \in SUBSET Answer /\ (S # {} => Chosen(S) = [by |-> what, at |-> t])

LEMMA SourceFacts ==
  ASSUME NEW t \in Store
  PROVE  /\ \A k \in Key : /\ Says(Field(t, k), "field", t)
                           /\ Says(Getter(t, k), "getter", t)
                           /\ Says(Fallback(t, k), "fallback", t)
                           /\ Field(t, k) # {} <=> field[t][k] # Nil
                           /\ Fallback(t, k) # {} <=> k[1] = "plain" /\ k[2] \in answers[t]
         /\ \A n \in Name : /\ Says(Setter(t, n), "setter", t)
                            /\ Setter(t, n) # {} <=> <<t, n>> \in propset
         /\ Says(Catch(t), "fallback", t) /\ Says(Extend(t), "extend", t)
<1> DEFINE One(what) == {[by |-> what, at |-> t]}
<1>1. /\ Says({}, "field", t) /\ Says(One("field"), "field", t) /\ One("field") # {}
      /\ Says({}, "getter", t) /\ Says(One("getter"), "getter", t)
  BY DEF Says, Answer, Chosen
<1>2. /\ Says({}, "fallback", t) /\ Says(One("fallback"), "fallback", t) /\ One("fallback") # {}
      /\ Says({}, "extend", t) /\ Says(One("extend"), "extend", t)
  BY DEF Says, Answer, Chosen
<1>3. Says({}, "setter", t) /\ Says(One("setter"), "setter", t) /\ One("setter") # {}
  BY DEF Says, Answer, Chosen
<1>0. /\ \A k : /\ Field(t, k) = IF field[t][k] # Nil THEN One("field") ELSE {}
                /\ Fallback(t, k) = IF k[1] = "plain" /\ k[2] \in answers[t] THEN One("fallback") ELSE {}
                /\ Getter(t, k) = IF k[1] = "plain" /\ <<t, k[2]>> \in propget THEN One("getter") ELSE {}
      /\ \A n : Setter(t, n) = IF <<t, n>> \in propset THEN One("setter") ELSE {}
      /\ Catch(t) = IF t \in catches THEN One("fallback") ELSE {}
      /\ Extend(t) = IF "extensibleClass" \in options[ClassOf(t)] THEN One("extend") ELSE {}
  BY DEF Field, Getter, Fallback, Setter, Catch, Extend, Has, Hit
<1> HIDE DEF One
<1>4. \A k : /\ Says(Field(t, k), "field", t) /\ Says(Getter(t, k), "getter", t)
             /\ Says(Fallback(t, k), "fallback", t)
  BY <1>0, <1>1, <1>2, <1>3
<1>5. \A n : Says(Setter(t, n), "setter", t)
  BY <1>0, <1>1, <1>2, <1>3
<1>6. Says(Catch(t), "fallback", t) /\ Says(Extend(t), "extend", t)
  BY <1>0, <1>1, <1>2, <1>3
<1>7. \A k : (Field(t, k) # {} <=> field[t][k] # Nil)
  BY <1>0, <1>1, <1>2, <1>3
<1>8. \A k : (Fallback(t, k) # {} <=> (k[1] = "plain" /\ k[2] \in answers[t]))
  BY <1>0, <1>1, <1>2, <1>3
<1>9. \A n : (Setter(t, n) # {} <=> <<t, n>> \in propset)
  BY <1>0, <1>1, <1>2, <1>3
<1> QED BY <1>4, <1>5, <1>6, <1>7, <1>8, <1>9

LEMMA SettersOfParents ==
  ASSUME IInv, NEW t \in Table, NEW n \in Name
  PROVE  /\ Each(parentList[t], LAMBDA p : Setter(p, n)) \in Sources
         /\ Len(Each(parentList[t], LAMBDA p : Setter(p, n))) = Len(parentList[t])
         /\ \A i \in 1..Len(parentList[t]) :
              Each(parentList[t], LAMBDA p : Setter(p, n))[i] = Setter(parentList[t][i], n)
<1>1. \A p \in Table : Setter(p, n) \in SUBSET Answer
  BY SourceFacts, KeysAndStores DEF Says
<1>2. parentList[t] \in Seq(Table) /\ DOMAIN parentList[t] = 1..Len(parentList[t])
  BY ParentTables
<1> QED BY <1>1, <1>2 DEF Sources, Each

LEMMA CatchesOfParents ==
  ASSUME IInv, NEW t \in Table
  PROVE  Each(parentList[t], LAMBDA p : Catch(p)) \in Sources
<1>1. \A p \in Table : Catch(p) \in SUBSET Answer
  BY SourceFacts, KeysAndStores DEF Says
<1>2. parentList[t] \in Seq(Table) /\ DOMAIN parentList[t] = 1..Len(parentList[t])
  BY ParentTables
<1> QED BY <1>1, <1>2 DEF Sources, Each

LEMMA PairFacts ==
  ASSUME NEW x \in SUBSET Answer, NEW y \in SUBSET Answer
  PROVE  /\ <<x, y>> \in Sources
         /\ Silent(<<x, y>>) <=> x = {} /\ y = {}
         /\ x # {} => FirstHit(<<x, y>>) = Chosen(x)
         /\ x = {} /\ y # {} => FirstHit(<<x, y>>) = Chosen(y)
<1> DEFINE s == <<x, y>>
<1>1. s \in Sources /\ Len(s) = 2 /\ s[1] = x /\ s[2] = y
  BY DEF Sources
<1> HIDE DEF s
<1>2. \A i \in 1..Len(s) : i = 1 \/ i = 2
  BY <1>1
<1>3. Silent(s) <=> x = {} /\ y = {}
  BY <1>1, <1>2 DEF Silent
<1>4. (x # {} => FirstAt(s, 1)) /\ (x = {} /\ y # {} => FirstAt(s, 2))
  BY <1>1, <1>2 DEF FirstAt
<1>5. (x # {} => FirstHit(s) = Chosen(x)) /\ (x = {} /\ y # {} => FirstHit(s) = Chosen(y))
  BY <1>1, <1>4, FirstHitAt
<1> QED BY <1>1, <1>3, <1>5 DEF s

(* c is x followed by b.                                                   *)
HeadAndRest(c, x, b) ==
  /\ DOMAIN c = 1..Len(b) + 1 /\ c[1] = x
  /\ \A j \in 1..Len(b) + 1 : j # 1 => j - 1 \in 1..Len(b) /\ c[j] = b[j - 1]

LEMMA Prefixed ==
  ASSUME NEW S, NEW x \in S, NEW b \in Seq(S)
  PROVE  HeadAndRest(<<x>> \o b, x, b)
<1>1. ASSUME NEW a \in Seq(S), Len(a) = 1, a[1] = x
      PROVE  HeadAndRest(a \o b, x, b)
  <2> DEFINE c == a \o b
  <2>1. /\ c \in Seq(S) /\ Len(c) = Len(a) + Len(b) /\ Len(b) \in Nat
        /\ \A i \in 1..Len(a) : c[i] = a[i]
        /\ \A i \in 1..Len(b) : c[Len(a) + i] = b[i]
    OBVIOUS
  <2> HIDE DEF c
  <2>2. /\ c \in Seq(S) /\ Len(c) = Len(b) + 1 /\ c[1] = x
        /\ \A i \in 1..Len(b) : c[1 + i] = b[i]
    BY <1>1, <2>1
  <2>3. DOMAIN c = 1..Len(b) + 1
    BY <2>2
  <2>4. ASSUME NEW j \in 1..Len(b) + 1, j # 1
        PROVE  j - 1 \in 1..Len(b) /\ c[j] = b[j - 1]
    <3>1. j - 1 \in 1..Len(b) /\ 1 + (j - 1) = j
      BY <2>1, <2>4
    <3> QED BY <2>2, <3>1
  <2> QED BY <2>2, <2>3, <2>4 DEF c, HeadAndRest
<1>2. <<x>> \in Seq(S) /\ Len(<<x>>) = 1 /\ <<x>>[1] = x
  OBVIOUS
<1> DEFINE a == <<x>>
<1>3. a \in Seq(S) /\ Len(a) = 1 /\ a[1] = x
  BY <1>2
<1> HIDE DEF a
<1>4. HeadAndRest(a \o b, x, b)
  BY <1>1, <1>3
<1> QED BY <1>4 DEF a

(* A registered setter of a class or a parent comes before everything else.*)
THEOREM SettersComeFirst == DispatchSpec => []SettersFirst
<1>1. DInv => SettersFirst
  <2> SUFFICES ASSUME DInv, NEW c \in registered, NEW n \in Name
               PROVE  /\ NewIndex(<<c, "co">>, n).by = "none"
                      /\ (\E p \in Range(SearchOrder(<<c, "cl">>)) : <<p, n>> \in propset)
                           => NewIndex(<<c, "cl">>, n).by = "setter"
    BY DEF SettersFirst
  <2> DEFINE t == <<c, "cl">>
             st == <<c, "st">>
             own == <<Setter(t, n)>>
             parents == Each(parentList[t], LAMBDA p : Setter(p, n))
             P == parentList[t]
  <2>1. /\ c \in Class /\ IInv /\ MembersOK /\ SimpleInv
        /\ t \in Table /\ st \in Table /\ t \in Store /\ st \in Store /\ t[2] = "cl" /\ ClassOf(t) = c
    BY KeysAndStores DEF DInv, IInv, TypeInv, TypeOK, Kind
  <2>2. NewIndex(<<c, "co">>, n).by = "none"
    <3>1. <<c, "co">>[2] = "co" /\ "co" # "cl" /\ "co" # "st"
      OBVIOUS
    <3>2. NewIndex(<<c, "co">>, n) = FirstHit(<<>>)
      BY <3>1 DEF NewIndex
    <3>3. <<>> \in Sources /\ Silent(<<>>)
      BY DEF Sources, Silent
    <3>4. FirstHit(<<>>) = [by |-> "none", at |-> <<NoClass, "">>]
      BY <3>3, NoHit
    <3>5. [by |-> "none", at |-> <<NoClass, "">>].by = "none"
      OBVIOUS
    <3> QED BY ONLY <3>2, <3>4, <3>5, Zenon
  <2>3. /\ own \in Sources /\ parents \in Sources /\ Len(parents) = Len(P)
        /\ \A i \in 1..Len(P) : parents[i] = Setter(P[i], n)
        /\ Says(Setter(t, n), "setter", t) /\ Says(Setter(st, n), "setter", st)
    BY ZenonT(30), <2>1, SourceFacts, SettersOfParents, SingleFacts DEF Says
  <2>4. ASSUME NEW a \in Sources, ~Silent(a),
               \A i \in 1..Len(a) : a[i] # {} => Chosen(a[i]).by = "setter"
        PROVE  FirstHit(a).by = "setter"
    <3>1. PICK i \in 1..Len(a) : FirstAt(a, i)
      BY <2>4, FirstExists
    <3> QED BY <2>4, <3>1, FirstHitAt DEF FirstAt
  <2>5. ASSUME NEW p \in Range(SearchOrder(t)), <<p, n>> \in propset
        PROVE  p = t \/ \E i \in 1..Len(P) : p = P[i]
    <3>1. P \in Seq(Table)
      BY <2>1, ParentTables
    <3>2. PICK i \in DOMAIN SearchOrder(t) : p = SearchOrder(t)[i]
      BY DEF Range
    <3>3. SearchOrder(t) = <<t>> \o P
      BY DEF SearchOrder
    <3>4. i \in 1..Len(P) + 1 /\ p = IF i = 1 THEN t ELSE P[i - 1]
      <4>1. HeadAndRest(SearchOrder(t), t, P)
        BY <2>1, <3>1, <3>3, Prefixed
      <4> QED BY <3>2, <4>1 DEF HeadAndRest
    <3>5. i # 1 => i - 1 \in 1..Len(P)
      BY <3>1, <3>4
    <3> QED BY <3>4, <3>5
  <2>6. ASSUME NEW p \in Range(SearchOrder(t)), <<p, n>> \in propset
        PROVE  ~Silent(own) \/ ~Silent(parents)
    <3>1. CASE p = t
      BY SMTT(30), <2>1, <2>3, <2>6, <3>1, SourceFacts, SingleFacts DEF Says
    <3>2. CASE \E i \in 1..Len(P) : p = P[i]
      <4>1. PICK i \in 1..Len(P) : p = P[i]
        BY <3>2
      <4>2. P[i] \in Table
        BY <2>1, ParentTables
      <4>3. Setter(P[i], n) # {}
        BY <2>6, <4>1, <4>2, SourceFacts, KeysAndStores
      <4> QED BY <2>3, <4>3 DEF Silent
    <3> QED BY <2>5, <2>6, <3>1, <3>2
  <2>7. \A i \in 1..Len(parents) : parents[i] # {} => Chosen(parents[i]).by = "setter"
    <3> SUFFICES ASSUME NEW i \in 1..Len(parents), parents[i] # {}
                 PROVE  Chosen(parents[i]).by = "setter"
      OBVIOUS
    <3>1. parents[i] = Setter(P[i], n) /\ P[i] \in Store
      BY <2>1, <2>3, ParentTables, KeysAndStores
    <3>2. Says(Setter(P[i], n), "setter", P[i])
      BY <3>1, SourceFacts
    <3>3. Setter(P[i], n) # {} /\ Chosen(Setter(P[i], n)) = Chosen(parents[i])
      BY <3>1
    <3> HIDE DEF parents
    <3> QED BY <3>2, <3>3 DEF Says
  <2> HIDE DEF own, parents
  <2>8. ~Silent(own) => FirstHit(own).by = "setter"
    BY <2>3, SingleFacts DEF Says, own
  <2>9. ASSUME NEW p \in Range(SearchOrder(t)), <<p, n>> \in propset
        PROVE  NewIndex(t, n).by = "setter"
    <3>1. CASE t \in fast
      <4>1. P = <<>>
        BY <2>1, <3>1 DEF SimpleInv
      <4>2. ~Silent(own)
        BY <2>3, <2>6, <2>9, <4>1 DEF Silent
      <4>3. NewIndex(t, n) = FirstHit(<<Setter(t, n), Setter(st, n)>>)
        BY <2>1, <3>1 DEF NewIndex
      <4>4. Setter(t, n) # {}
        BY <2>3, <4>2, SingleFacts DEF own, Says
      <4> QED BY <2>3, <4>3, <4>4, PairFacts DEF Says
    <3>2. CASE t \notin fast
      <4> DEFINE rest == <<Setter(st, n), Catch(t)>>
                 caught == Each(parentList[t], LAMBDA p_1 : Catch(p_1))
                 end == <<Extend(t)>>
      <4>1. NewIndex(t, n) = FirstHit((((own \o parents) \o rest) \o caught) \o end)
        BY <2>1, <3>2 DEF NewIndex, Catches, own, parents
      <4>2. caught \in Sources
        BY <2>1, CatchesOfParents
      <4>3. rest \in Sources /\ end \in Sources
        BY <2>1, <2>3, SourceFacts, SingleFacts, PairFacts DEF Says
      <4> HIDE DEF rest, caught, end
      <4>4. own \o parents \in Sources /\ ~Silent(own \o parents)
        BY <2>3, <2>6, <2>9, Joining
      <4>5. FirstHit(own \o parents).by = "setter"
        <5>1. CASE ~Silent(own)
          BY <2>3, <2>8, <5>1, Joining
        <5>2. CASE Silent(own)
          <6>1. ~Silent(parents)
            BY <2>6, <2>9, <5>2
          <6>2. FirstHit(parents).by = "setter"
            BY <2>3, <2>4, <2>7, <6>1
          <6> QED BY <2>3, <5>2, <6>2, Joining
        <5> QED BY <5>1, <5>2
      <4>6. /\ (own \o parents) \o rest \in Sources /\ ~Silent((own \o parents) \o rest)
            /\ FirstHit((own \o parents) \o rest) = FirstHit(own \o parents)
        BY <4>3, <4>4, Joining
      <4>7. /\ ((own \o parents) \o rest) \o caught \in Sources
            /\ ~Silent(((own \o parents) \o rest) \o caught)
            /\ FirstHit(((own \o parents) \o rest) \o caught) = FirstHit(own \o parents)
        BY <4>2, <4>6, Joining
      <4> QED BY <4>1, <4>3, <4>5, <4>7, Joining
    <3> QED BY <3>1, <3>2
  <2> QED BY <2>2, <2>9
<1> QED BY <1>1, DispatchInductive, PTL

(* Flattened sources answer as the first part that answers.                *)
FlatUpTo(g, m, s) ==
  /\ g \in [1..m -> Sources]
  /\ \A i \in 1..m : g[i] = IF i = 1 THEN s[1] ELSE g[i - 1] \o s[i]

FlatSays(c, s, m) ==
  /\ c \in Sources
  /\ Silent(c) <=> \A j \in 1..m : Silent(s[j])
  /\ \A j \in 1..m : ~Silent(s[j]) /\ (\A q \in 1..m : q < j => Silent(s[q]))
                       => FirstHit(c) = FirstHit(s[j])

LEMMA FlatExists ==
  ASSUME NEW s \in Seq(Sources), NEW n \in 0..Len(s)
  PROVE  \E g : FlatUpTo(g, n, s)
<1> DEFINE S == {l \in 0..n : ~ \E g : FlatUpTo(g, l, s)}
<1>1. SUFFICES ASSUME S # {} PROVE FALSE
  <2>1. n \in 0..n
    OBVIOUS
  <2> QED BY ONLY <1>1, <2>1, Zenon
<1>2. PICK l \in S : \A k \in S : l <= k
  <2>1. S \subseteq Nat
    OBVIOUS
  <2> QED BY <1>1, <2>1, LeastNat
<1>3. l # 0
  <2>1. FlatUpTo([i \in 1..0 |-> <<>>], 0, s)
    BY DEF FlatUpTo
  <2> QED BY <2>1, <1>2
<1>4. PICK g : FlatUpTo(g, l - 1, s)
  BY <1>2, <1>3
<1>0. l \in Nat /\ l \in 1..Len(s) /\ s[l] \in Sources /\ (l # 1 => l - 1 \in 1..l - 1)
  BY <1>3
<1> DEFINE v == IF l = 1 THEN s[1] ELSE g[l - 1] \o s[l]
           h == [i \in 1..l |-> IF i = l THEN v ELSE g[i]]
<1>5. v \in Sources
  <2>1. l # 1 => g[l - 1] \in Sources
    BY <1>0, <1>4 DEF FlatUpTo
  <2> QED BY <1>0, <2>1, Joining
<1>6. h \in [1..l -> Sources]
  <2>1. \A i \in 1..l : i # l => g[i] \in Sources
    BY <1>0, <1>4 DEF FlatUpTo
  <2> HIDE DEF v
  <2> QED BY <1>5, <2>1
<1>7. \A i \in 1..l : h[i] = IF i = 1 THEN s[1] ELSE h[i - 1] \o s[i]
  <2> SUFFICES ASSUME NEW i \in 1..l PROVE h[i] = IF i = 1 THEN s[1] ELSE h[i - 1] \o s[i]
    OBVIOUS
  <2>1. CASE i = l
    <3>1. h[i] = v /\ (l # 1 => h[l - 1] = g[l - 1])
      BY <1>0, <2>1
    <3> QED BY <2>1, <3>1
  <2>2. CASE i # l
    <3>1. h[i] = g[i] /\ (i # 1 => h[i - 1] = g[i - 1]) /\ i \in 1..l - 1
      BY <1>0, <2>2
    <3> QED BY <1>4, <3>1 DEF FlatUpTo
  <2> QED BY <2>1, <2>2
<1> QED BY <1>2, <1>6, <1>7 DEF FlatUpTo

LEMMA FlatIs ==
  ASSUME NEW s \in Seq(Sources), Len(s) # 0
  PROVE  \E g : FlatUpTo(g, Len(s), s) /\ FlattenSeq(s) = g[Len(s)]
<1> DEFINE Rec(g) == g = [i \in 1..Len(s) |-> IF i = 1 THEN s[i] ELSE g[i - 1] \o s[i]]
           flat == CHOOSE g : Rec(g)
<1>1. PICK g : FlatUpTo(g, Len(s), s)
  BY FlatExists
<1>2. Rec(g)
  <2>1. g = [i \in 1..Len(s) |-> g[i]]
    BY <1>1 DEF FlatUpTo
  <2>2. \A i \in 1..Len(s) : g[i] = IF i = 1 THEN s[i] ELSE g[i - 1] \o s[i]
    BY ZenonT(30), <1>1 DEF FlatUpTo
  <2> QED BY <2>1, <2>2
<1>3. Rec(flat)
  BY ZenonT(30), <1>2
<1>4. FlattenSeq(s) = flat[Len(s)]
  BY DEF FlattenSeq
<1> HIDE DEF flat
<1>5. \A i \in 1..Len(s) : flat[i] = IF i = 1 THEN s[i] ELSE flat[i - 1] \o s[i]
  BY <1>3
<1>6. \A i \in 1..Len(s) : flat[i] = g[i]
  <2> DEFINE S == {m \in 1..Len(s) : flat[m] # g[m]}
  <2>1. SUFFICES ASSUME S # {} PROVE FALSE
    OBVIOUS
  <2>2. PICK m \in S : \A k \in S : m <= k
    <3>1. S \subseteq Nat
      OBVIOUS
    <3> QED BY <2>1, <3>1, LeastNat
  <2>3. m # 1 => m - 1 \in 1..Len(s) /\ m - 1 \notin S
    BY <2>2
  <2>4. m # 1 => flat[m - 1] = g[m - 1]
    BY <2>3
  <2> QED BY ZenonT(30), <2>2, <2>4, <1>1, <1>5 DEF FlatUpTo
<1>7. Len(s) \in 1..Len(s)
  OBVIOUS
<1> QED BY <1>1, <1>4, <1>6, <1>7

(* What the flattened sequence answers.                                    *)
LEMMA FlattenSays ==
  ASSUME NEW s \in Seq(Sources)
  PROVE  FlatSays(FlattenSeq(s), s, Len(s))
<1>1. CASE Len(s) = 0
  <2>1. FlattenSeq(s) = s /\ s = <<>>
    BY <1>1 DEF FlattenSeq
  <2>2. <<>> \in Sources /\ Silent(<<>>)
    BY DEF Sources, Silent
  <2> QED BY <1>1, <2>1, <2>2 DEF FlatSays
<1>2. CASE Len(s) # 0
  <2>1. PICK g : FlatUpTo(g, Len(s), s) /\ FlattenSeq(s) = g[Len(s)]
    BY <1>2, FlatIs
  <2>2. \A m \in 1..Len(s) : FlatSays(g[m], s, m)
    <3> DEFINE S == {m \in 1..Len(s) : ~FlatSays(g[m], s, m)}
    <3>1. SUFFICES ASSUME S # {} PROVE FALSE
      OBVIOUS
    <3>2. PICK m \in S : \A k \in S : m <= k
      <4>1. S \subseteq Nat
        OBVIOUS
      <4> QED BY <3>1, <4>1, LeastNat
    <3>3. m \in 1..Len(s) /\ s[m] \in Sources /\ g[m] \in Sources
      BY <2>1 DEF FlatUpTo
    <3>4. CASE m = 1
      <4>1. g[m] = s[1]
        BY <2>1, <3>4 DEF FlatUpTo
      <4>2. FlatSays(g[m], s, m)
        BY <3>3, <3>4, <4>1 DEF FlatSays
      <4> QED BY <3>2, <4>2
    <3>5. CASE m # 1
      <4> DEFINE a == g[m - 1]
                 b == s[m]
                 c == g[m]
      <4>1. c = a \o b
        BY <2>1, <3>3, <3>5 DEF FlatUpTo
      <4>2. FlatSays(a, s, m - 1)
        <5>1. m - 1 \in 1..Len(s) /\ m - 1 \notin S
          BY <3>2, <3>3, <3>5
        <5> QED BY <5>1
      <4>3. /\ ~Silent(a) => FirstHit(c) = FirstHit(a)
            /\ Silent(a) => FirstHit(c) = FirstHit(b)
            /\ Silent(c) <=> Silent(a) /\ Silent(b)
            /\ c \in Sources
        BY <3>3, <4>1, <4>2, Joining DEF FlatSays
      <4>4. /\ \A j \in 1..m : j # m => j \in 1..m - 1
            /\ \A j \in 1..m - 1 : j \in 1..m /\ j < m
            /\ m \in 1..m
        BY <3>3
      <4> HIDE DEF a, c
      <4>5. Silent(c) <=> \A j \in 1..m : Silent(s[j])
        BY <4>2, <4>3, <4>4 DEF FlatSays
      <4>6. ASSUME NEW j \in 1..m, ~Silent(s[j]), \A q \in 1..m : q < j => Silent(s[q])
            PROVE  FirstHit(c) = FirstHit(s[j])
        <5>1. CASE j = m
          BY <4>2, <4>3, <4>4, <4>6, <5>1 DEF FlatSays
        <5>2. CASE j # m
          <6>1. j \in 1..m - 1 /\ ~Silent(a)
            BY <4>2, <4>4, <4>6, <5>2 DEF FlatSays
          <6>2. FirstHit(a) = FirstHit(s[j])
            BY <4>2, <4>4, <4>6, <6>1 DEF FlatSays
          <6> QED BY <4>3, <6>1, <6>2
        <5> QED BY <5>1, <5>2
      <4>7. FlatSays(c, s, m)
        BY <4>3, <4>5, <4>6 DEF FlatSays
      <4> QED BY <3>2, <4>7 DEF c
    <3> QED BY <3>4, <3>5
  <2>3. Len(s) \in 1..Len(s)
    BY <1>2
  <2> QED BY <2>1, <2>2, <2>3
<1> QED BY <1>1, <1>2

(* A table that has the member says so.                                    *)
Finds(s, u) == FirstHit(s).by \in {"field", "getter"} /\ FirstHit(s).at = u
Tells(s, u, k) == s \in Sources /\ (Silent(s) <=> ~Registered(u, k)) /\ (Registered(u, k) => Finds(s, u))

LEMMA PairTells ==
  ASSUME NEW u \in Store, NEW k \in Key
  PROVE  Tells(<<Field(u, k), Getter(u, k)>>, u, k) /\ Tells(<<Getter(u, k), Field(u, k)>>, u, k)
<1> DEFINE x == Field(u, k)
           y == Getter(u, k)
<1>1. /\ x \in SUBSET Answer /\ (x # {} => Chosen(x).by \in {"field", "getter"} /\ Chosen(x).at = u)
      /\ y \in SUBSET Answer /\ (y # {} => Chosen(y).by \in {"field", "getter"} /\ Chosen(y).at = u)
  BY SourceFacts DEF Says
<1>2. Registered(u, k) <=> x # {} \/ y # {}
  BY DEF Registered
<1> HIDE DEF x, y
<1>3. Tells(<<x, y>>, u, k)
  BY <1>1, <1>2, PairFacts DEF Tells, Finds
<1>4. Tells(<<y, x>>, u, k)
  BY <1>1, <1>2, PairFacts DEF Tells, Finds
<1> QED BY <1>3, <1>4 DEF x, y

(* The members of the parents.                                             *)
LEMMA PairsOfParents ==
  ASSUME IInv, NEW t \in Table, NEW k \in Key
  PROVE  /\ Each(parentList[t], LAMBDA p : <<Field(p, k), Getter(p, k)>>) \in Seq(Sources)
         /\ Len(Each(parentList[t], LAMBDA p : <<Field(p, k), Getter(p, k)>>)) = Len(parentList[t])
         /\ \A i \in 1..Len(parentList[t]) :
              /\ parentList[t][i] \in Store
              /\ Tells(Each(parentList[t], LAMBDA p : <<Field(p, k), Getter(p, k)>>)[i],
                       parentList[t][i], k)
<1>1. \A p \in Table : p \in Store /\ Tells(<<Field(p, k), Getter(p, k)>>, p, k)
  BY PairTells, KeysAndStores
<1>2. parentList[t] \in Seq(Table) /\ DOMAIN parentList[t] = 1..Len(parentList[t])
  BY ParentTables
<1> DEFINE Pair(p) == <<Field(p, k), Getter(p, k)>>
<1>3. \A p \in Table : Pair(p) \in Sources /\ p \in Store /\ Tells(Pair(p), p, k)
  BY <1>1 DEF Tells
<1> HIDE DEF Pair
<1>4. [i \in DOMAIN parentList[t] |-> Pair(parentList[t][i])] \in Seq(Sources)
  BY <1>2, <1>3
<1>5. \A i \in 1..Len(parentList[t]) :
        parentList[t][i] \in Store /\ Tells(Pair(parentList[t][i]), parentList[t][i], k)
  BY <1>2, <1>3
<1> DEFINE E == Each(parentList[t], LAMBDA p : <<Field(p, k), Getter(p, k)>>)
<1>6. E = [i \in DOMAIN parentList[t] |-> Pair(parentList[t][i])]
  BY DEF Each, Pair
<1> HIDE DEF E
<1>7. /\ E \in Seq(Sources) /\ Len(E) = Len(parentList[t])
      /\ \A i \in 1..Len(parentList[t]) :
           parentList[t][i] \in Store /\ Tells(E[i], parentList[t][i], k)
  BY <1>2, <1>4, <1>5, <1>6
<1> QED BY <1>7 DEF E

LEMMA ExtensionFacts ==
  ASSUME IInv, NEW t \in Table, NEW k \in Key
  PROVE  Extensions(t, k) \in Sources
<1> DEFINE Ext(p) == Only(SearchesExtension(ClassOf(p)), Field(Extension(p), k))
<1>1. \A p \in Table : Extension(p) \in Store
  BY KeysAndStores DEF Extension
<1>2. \A p \in Table : Ext(p) \in SUBSET Answer
  BY <1>1, SourceFacts DEF Only, SearchesExtension, Says
<1> HIDE DEF Ext
<1>3. parentList[t] \in Seq(Table) /\ DOMAIN parentList[t] = 1..Len(parentList[t])
  BY ParentTables
<1>4. [i \in DOMAIN parentList[t] |-> Ext(parentList[t][i])] \in Sources
  BY <1>2, <1>3 DEF Sources
<1>5. <<Ext(t)>> \in Sources
  BY <1>2, SingleFacts
<1>6. <<Ext(t)>> \o [i \in DOMAIN parentList[t] |-> Ext(parentList[t][i])] \in Sources
  BY <1>4, <1>5, Joining
<1> QED BY <1>6 DEF Extensions, Each, Ext

LEMMA FallbacksOfParents ==
  ASSUME IInv, NEW t \in Table, NEW k \in Key
  PROVE  Each(parentList[t], LAMBDA p : Fallback(p, k)) \in Sources
<1>1. \A p \in Table : Fallback(p, k) \in SUBSET Answer
  BY SourceFacts, KeysAndStores DEF Says
<1>2. parentList[t] \in Seq(Table) /\ DOMAIN parentList[t] = 1..Len(parentList[t])
  BY ParentTables
<1> QED BY <1>1, <1>2 DEF Sources, Each

(* What is asked after the loop over the parents: the extensions, the      *)
(* fallback of the class and those of its parents.                         *)
LEMMA AfterMembersFacts ==
  ASSUME IInv, NEW t \in Table, NEW k \in Key
  PROVE  /\ AfterMembers(t, k) \in Sources
         /\ Silent(Extensions(t, k)) /\ Fallback(t, k) = {} /\ Len(parentList[t]) = 0
              => Silent(AfterMembers(t, k))
<1> DEFINE d == Extensions(t, k)
           e == <<Fallback(t, k)>>
           g == Each(parentList[t], LAMBDA p : Fallback(p, k))
           f == IF t[2] = "st" THEN <<>> ELSE g
<1>1. AfterMembers(t, k) = (d \o e) \o f
  BY DEF AfterMembers
<1>2. d \in Sources
  BY ExtensionFacts
<1>3. e \in Sources /\ (Silent(e) <=> Fallback(t, k) = {})
  BY SourceFacts, SingleFacts, KeysAndStores DEF Says
<1>4. f \in Sources
  <2>1. g \in Sources
    BY FallbacksOfParents
  <2> HIDE DEF g
  <2>2. <<>> \in Sources
    BY DEF Sources
  <2> QED BY <2>1, <2>2
<1>5. Len(parentList[t]) = 0 => Silent(f)
  <2>1. parentList[t] \in Seq(Table)
    BY ParentTables
  <2>2. Len(parentList[t]) = 0 => f = <<>>
    BY <2>1 DEF Each
  <2> HIDE DEF f
  <2> QED BY <2>2 DEF Silent
<1> HIDE DEF d, e, f
<1>6. d \o e \in Sources /\ (Silent(d \o e) <=> Silent(d) /\ Silent(e))
  BY <1>2, <1>3, Joining
<1> DEFINE de == d \o e
<1> HIDE DEF de
<1>7. de \o f \in Sources /\ (Silent(de \o f) <=> Silent(de) /\ Silent(f))
  BY <1>4, <1>6, Joining DEF de
<1>8. AfterMembers(t, k) = de \o f
  BY <1>1 DEF de
<1>9. Silent(de) <=> Silent(d) /\ Silent(e)
  BY <1>6 DEF de
<1>10. AfterMembers(t, k) \in Sources
  BY <1>7, <1>8
<1>11. ASSUME Silent(d), Fallback(t, k) = {}, Len(parentList[t]) = 0
       PROVE  Silent(AfterMembers(t, k))
  BY <1>3, <1>5, <1>7, <1>8, <1>9, <1>11
<1> QED BY <1>10, <1>11 DEF d

(* Four sources of which two are switched off.                             *)
LEMMA QuadFacts ==
  ASSUME NEW x \in SUBSET Answer, NEW y \in SUBSET Answer
  PROVE  /\ <<{}, x, {}, y>> \in Sources
         /\ Silent(<<{}, x, {}, y>>) <=> x = {} /\ y = {}
         /\ x # {} => FirstHit(<<{}, x, {}, y>>) = Chosen(x)
         /\ x = {} /\ y # {} => FirstHit(<<{}, x, {}, y>>) = Chosen(y)
<1> DEFINE s == <<{}, x, {}, y>>
<1>1. s \in Sources /\ Len(s) = 4 /\ s[1] = {} /\ s[2] = x /\ s[3] = {} /\ s[4] = y
  BY DEF Sources
<1> HIDE DEF s
<1>2. \A i \in 1..Len(s) : i = 1 \/ i = 2 \/ i = 3 \/ i = 4
  BY <1>1
<1>3. Silent(s) <=> x = {} /\ y = {}
  BY <1>1, <1>2 DEF Silent
<1>4. (x # {} => FirstAt(s, 2)) /\ (x = {} /\ y # {} => FirstAt(s, 4))
  BY <1>1, <1>2 DEF FirstAt
<1>5. (x # {} => FirstHit(s) = Chosen(x)) /\ (x = {} /\ y # {} => FirstHit(s) = Chosen(y))
  BY <1>1, <1>4, FirstHitAt
<1> QED BY <1>1, <1>3, <1>5 DEF s

LEMMA InstanceStaticFacts ==
  ASSUME NEW t \in Table, NEW k \in Key
  PROVE  /\ t[2] = "cl" => Tells(InstanceStatic(t, k), <<ClassOf(t), "st">>, k)
         /\ t[2] # "cl" => Silent(InstanceStatic(t, k))
         /\ InstanceStatic(t, k) \in Sources
<1> DEFINE st == <<ClassOf(t), "st">>
<1>1. st \in Store
  BY KeysAndStores DEF Kind
<1>2. Tells(<<Field(st, k), Getter(st, k)>>, st, k)
  BY <1>1, PairTells
<1>3. <<>> \in Sources /\ Silent(<<>>)
  BY DEF Sources, Silent
<1>4. CASE t[2] = "cl"
  <2>1. InstanceStatic(t, k) = <<Field(st, k), Getter(st, k)>>
    BY <1>4 DEF InstanceStatic
  <2> HIDE DEF st
  <2>2. Tells(InstanceStatic(t, k), st, k)
    BY <1>2, <2>1
  <2> QED BY <1>4, <2>2 DEF Tells, st
<1>5. CASE t[2] # "cl"
  BY <1>3, <1>5 DEF InstanceStatic
<1> QED BY <1>4, <1>5

(* What comes after the first three parts matters only if these are silent.*)
LEMMA InOrder ==
  ASSUME NEW a \in Sources, NEW b \in Sources, NEW c \in Sources, NEW d \in Sources
  PROVE  LET all == ((a \o b) \o c) \o d IN
         /\ ~Silent(a) => FirstHit(all) = FirstHit(a)
         /\ Silent(a) /\ ~Silent(b) => FirstHit(all) = FirstHit(b)
         /\ Silent(a) /\ Silent(b) /\ ~Silent(c) => FirstHit(all) = FirstHit(c)
<1> DEFINE ab == a \o b
<1>1. /\ ab \in Sources /\ (Silent(ab) <=> Silent(a) /\ Silent(b))
      /\ (~Silent(a) => FirstHit(ab) = FirstHit(a)) /\ (Silent(a) => FirstHit(ab) = FirstHit(b))
  BY Joining
<1> HIDE DEF ab
<1> DEFINE abc == ab \o c
<1>2. /\ abc \in Sources /\ (Silent(abc) <=> Silent(ab) /\ Silent(c))
      /\ (~Silent(ab) => FirstHit(abc) = FirstHit(ab)) /\ (Silent(ab) => FirstHit(abc) = FirstHit(c))
  BY <1>1, Joining
<1> HIDE DEF abc
<1>3. ~Silent(abc) => FirstHit(abc \o d) = FirstHit(abc)
  BY <1>2, Joining
<1> QED BY <1>1, <1>2, <1>3 DEF ab, abc

(* The nearest member wins over farther ones and over every fallback.      *)
THEOREM NearestComesFirst == DispatchSpec => []NearestMemberWins
<1>1. DInv => NearestMemberWins
  <2> SUFFICES ASSUME DInv, NEW t \in ObjectTables, NEW n \in Name \ MetaName,
                      options[ClassOf(t)] = {},
                      {i \in DOMAIN SearchOrder(t) : Registered(SearchOrder(t)[i], Plain(n))} # {}
               PROVE  LET k == Plain(n)
                          st == <<ClassOf(t), "st">>
                          found == {i \in DOMAIN SearchOrder(t) : Registered(SearchOrder(t)[i], k)}
                      IN /\ Index(t, k).by \in {"field", "getter"}
                         /\ Index(t, k).at \in
                              {IF 1 \notin found /\ t[2] = "cl" /\ Registered(st, k) THEN st
                               ELSE SearchOrder(t)[CHOOSE i \in found : \A j \in found : i <= j]}
    BY DEF NearestMemberWins
  <2> DEFINE k == Plain(n)
             st == <<ClassOf(t), "st">>
             P == parentList[t]
             order == SearchOrder(t)
             found == {i \in DOMAIN order : Registered(order[i], k)}
             m == CHOOSE i \in found : \A j \in found : i <= j
             u == IF 1 \notin found /\ t[2] = "cl" /\ Registered(st, k) THEN st ELSE order[m]
  <2>1. /\ IInv /\ MembersOK /\ SimpleInv /\ n \in Name /\ k \in Key
        /\ t \in Table /\ st \in Table /\ t \in Store /\ st \in Store /\ t[2] \in {"co", "cl"}
        /\ P \in Seq(Table) /\ k[1] = "plain" /\ k[2] = n
    <3>1. IInv /\ MembersOK /\ SimpleInv /\ n \in Name /\ k \in Key
      BY KeysAndStores DEF DInv
    <3>2. t \in Table /\ t[2] \in {"co", "cl"}
      BY <3>1 DEF ObjectTables, IInv, TypeInv, TypeOK, Table, Kind
    <3>3. t \in Store /\ st \in Table /\ st \in Store
      BY <3>2, KeysAndStores DEF Kind
    <3> QED BY <3>1, <3>2, <3>3, ParentTables DEF Plain
  <2>2. ~Hidden(k)
    BY <2>1 DEF Hidden
  <2>3. HeadAndRest(order, t, P)
    BY <2>1, Prefixed DEF SearchOrder
  <2>4. /\ m \in found /\ \A j \in found : m <= j
        /\ m \in 1..Len(P) + 1
    <3>1. found # {} /\ found \subseteq Nat
      BY <2>1, <2>3 DEF HeadAndRest
    <3>2. \E i \in found : \A j \in found : i <= j
      BY <3>1, LeastNat
    <3>3. m \in found /\ \A j \in found : m <= j
      BY <3>2
    <3> QED BY <2>3, <3>3 DEF HeadAndRest
  <2>5. (1 \in found <=> Registered(t, k)) /\ (1 \in found => order[m] = t)
    <3>1. 1 \in DOMAIN order /\ order[1] = t
      BY <2>1, <2>3 DEF HeadAndRest
    <3>2. 1 \in found => m = 1
      <4>1. m \in Int /\ 1 <= m
        BY <2>1, <2>4
      <4> QED BY <2>4, <4>1
    <3> QED BY <3>1, <3>2
  <2>6. ~Registered(t, k) =>
          /\ m - 1 \in 1..Len(P) /\ order[m] = P[m - 1] /\ Registered(P[m - 1], k)
          /\ \A q \in 1..Len(P) : q < m - 1 => ~Registered(P[q], k)
    <3> SUFFICES ASSUME ~Registered(t, k)
                 PROVE  /\ m - 1 \in 1..Len(P) /\ order[m] = P[m - 1] /\ Registered(P[m - 1], k)
                        /\ \A q \in 1..Len(P) : q < m - 1 => ~Registered(P[q], k)
      OBVIOUS
    <3>1. m # 1
      BY <2>4, <2>5
    <3> HIDE DEF m
    <3>2. m - 1 \in 1..Len(P) /\ order[m] = P[m - 1] /\ Registered(P[m - 1], k)
      BY <2>3, <2>4, <3>1 DEF HeadAndRest
    <3>3. ASSUME NEW q \in 1..Len(P), q < m - 1, Registered(P[q], k) PROVE FALSE
      <4>1. q + 1 \in 1..Len(P) + 1 /\ q + 1 # 1 /\ (q + 1) - 1 = q /\ ~(m <= q + 1)
        BY <2>1, <2>4, <3>3
      <4>2. q + 1 \in DOMAIN order /\ order[q + 1] = P[q]
        BY <2>3, <4>1 DEF HeadAndRest
      <4> QED BY <2>4, <3>3, <4>1, <4>2
    <3> QED BY <3>2, <3>3
  <2> HIDE DEF m
  <2>7. Index(t, k).by \in {"field", "getter"} /\ Index(t, k).at = u
    <3>1. CASE t \in fast
      <4>1. P = <<>>
        BY <2>1, <3>1 DEF SimpleInv
      <4>2. Registered(t, k) /\ u = t
        BY <2>5, <2>6, <4>1
      <4> DEFINE a == <<Getter(t, k), Field(t, k)>>
                 b == InstanceStatic(t, k)
      <4>3. Index(t, k) = FirstHit(a \o b)
        BY <2>1, <2>2, <3>1 DEF Index, Simple, SimpleObject
      <4>4. b \in Sources
        BY <2>1, InstanceStaticFacts
      <4>5. Tells(a, t, k)
        BY <2>1, PairTells
      <4> HIDE DEF a, b
      <4> QED BY <4>2, <4>3, <4>4, <4>5, Joining DEF Tells, Finds
    <3>2. CASE t \notin fast
      <4> DEFINE a == <<{}, Field(t, k), {}, Getter(t, k)>>
                 b == InstanceStatic(t, k)
                 s == Each(parentList[t], LAMBDA p : <<Field(p, k), Getter(p, k)>>)
                 c == FlattenSeq(s)
                 d == AfterMembers(t, k)
      <4>1. Index(t, k) = FirstHit(((a \o b) \o c) \o d)
        <5>1. Index(t, k) = FirstHit(IndexObject(t, k))
          BY <2>1, <2>2, <3>2 DEF Index, Full
        <5>2. ~OverridingFirst(ClassOf(t))
          BY DEF OverridingFirst, Has
        <5>3. IndexObject(t, k) = ((a \o b) \o c) \o d
          BY <5>2 DEF IndexObject, Inherited, Only
        <5> QED BY <5>1, <5>3
      <4>2. Tells(a, t, k)
        <5>1. /\ Field(t, k) \in SUBSET Answer /\ Getter(t, k) \in SUBSET Answer
              /\ (Field(t, k) # {} => Chosen(Field(t, k)).by \in {"field", "getter"}
                                      /\ Chosen(Field(t, k)).at = t)
              /\ (Getter(t, k) # {} => Chosen(Getter(t, k)).by \in {"field", "getter"}
                                      /\ Chosen(Getter(t, k)).at = t)
          BY <2>1, SourceFacts DEF Says
        <5>2. Registered(t, k) <=> Field(t, k) # {} \/ Getter(t, k) # {}
          BY DEF Registered
        <5> QED BY <5>1, <5>2, QuadFacts DEF Tells, Finds
      <4>3. /\ t[2] = "cl" => Tells(b, st, k)
            /\ t[2] = "co" => b \in Sources /\ Silent(b)
        BY <2>1, InstanceStaticFacts
      <4>4. /\ s \in Seq(Sources) /\ Len(s) = Len(P)
            /\ \A i \in 1..Len(P) : P[i] \in Store /\ Tells(s[i], P[i], k)
        BY <2>1, PairsOfParents
      <4>5. FlatSays(c, s, Len(P))
        BY <4>4, FlattenSays
      <4>6. d \in Sources
        BY <2>1, AfterMembersFacts
      <4> DEFINE all == ((a \o b) \o c) \o d
      <4> HIDE DEF a, b, c, d, s, k
      <4>7. /\ a \in Sources /\ b \in Sources /\ c \in Sources
        BY <2>1, <4>2, <4>3, <4>5 DEF Tells, FlatSays
      <4>8. /\ ~Silent(a) => FirstHit(all) = FirstHit(a)
            /\ Silent(a) /\ ~Silent(b) => FirstHit(all) = FirstHit(b)
            /\ Silent(a) /\ Silent(b) /\ ~Silent(c) => FirstHit(all) = FirstHit(c)
        BY SMTT(30), <4>6, <4>7, InOrder
      <4> HIDE DEF all
      <4>9. Index(t, k) = FirstHit(all)
        BY <4>1 DEF all
      <4>10. CASE Registered(t, k)
        <5>1. FirstHit(all) = FirstHit(a) /\ Finds(a, t) /\ u = t
          BY <2>5, <4>2, <4>8, <4>10 DEF Tells
        <5> QED BY <4>9, <5>1 DEF Finds
      <4>11. CASE ~Registered(t, k) /\ t[2] = "cl" /\ Registered(st, k)
        <5>1. FirstHit(all) = FirstHit(b) /\ Finds(b, st) /\ u = st
          BY <2>5, <4>2, <4>3, <4>8, <4>11 DEF Tells
        <5> QED BY <4>9, <5>1 DEF Finds
      <4>12. CASE ~Registered(t, k) /\ ~(t[2] = "cl" /\ Registered(st, k))
        <5>1. Silent(a) /\ Silent(b)
          BY <2>1, <4>2, <4>3, <4>12 DEF Tells
        <5>2. /\ m - 1 \in 1..Len(P) /\ ~Silent(s[m - 1]) /\ Finds(s[m - 1], P[m - 1])
              /\ \A q \in 1..Len(P) : q < m - 1 => Silent(s[q])
          BY <2>6, <4>4, <4>12 DEF Tells
        <5>3. FirstHit(c) = FirstHit(s[m - 1]) /\ ~Silent(c)
          BY <4>5, <5>2 DEF FlatSays
        <5>4. u = P[m - 1]
          BY <2>6, <4>12
        <5> QED BY <4>8, <4>9, <5>1, <5>2, <5>3, <5>4 DEF Finds
      <4> QED BY <4>10, <4>11, <4>12
    <3> QED BY <3>1, <3>2
  <2> QED BY <2>7 DEF m
<1> QED BY <1>1, DispatchInductive, PTL

(* Two lists of sources that answer alike.                                 *)
Agree(a, b) ==
  /\ a \in Sources /\ b \in Sources /\ (Silent(a) <=> Silent(b))
  /\ ~Silent(a) => FirstHit(a) = FirstHit(b)

LEMMA AgreeFacts ==
  ASSUME NEW a, NEW b, Agree(a, b)
  PROVE  /\ FirstHit(a) = FirstHit(b)
         /\ \A c \in Sources : Agree(a \o c, b \o c)
         /\ \A c \in Sources : (Silent(b) => Silent(c)) => Agree(a, b \o c)
<1>1. FirstHit(a) = FirstHit(b)
  BY NoHit DEF Agree
<1>2. ASSUME NEW c \in Sources PROVE Agree(a \o c, b \o c)
  <2> DEFINE x == a \o c
             y == b \o c
  <2>1. /\ x \in Sources /\ (Silent(x) <=> Silent(a) /\ Silent(c))
        /\ (~Silent(a) => FirstHit(x) = FirstHit(a)) /\ (Silent(a) => FirstHit(x) = FirstHit(c))
    BY Joining DEF Agree
  <2>2. /\ y \in Sources /\ (Silent(y) <=> Silent(b) /\ Silent(c))
        /\ (~Silent(b) => FirstHit(y) = FirstHit(b)) /\ (Silent(b) => FirstHit(y) = FirstHit(c))
    BY Joining DEF Agree
  <2> HIDE DEF x, y
  <2>3. Agree(x, y)
    BY <1>1, <2>1, <2>2 DEF Agree
  <2> QED BY <2>3 DEF x, y
<1>3. ASSUME NEW c \in Sources, Silent(b) => Silent(c) PROVE Agree(a, b \o c)
  <2> DEFINE y == b \o c
  <2>1. /\ y \in Sources /\ (Silent(y) <=> Silent(b) /\ Silent(c))
        /\ (~Silent(b) => FirstHit(y) = FirstHit(b))
    BY Joining DEF Agree
  <2> HIDE DEF y
  <2>2. Agree(a, y)
    BY <1>1, <1>3, <2>1 DEF Agree
  <2> QED BY <2>2 DEF y
<1> QED BY <1>1, <1>2, <1>3

LEMMA SwappedPair ==
  ASSUME NEW x \in SUBSET Answer, NEW y \in SUBSET Answer, x = {} \/ y = {}
  PROVE  Agree(<<y, x>>, <<{}, x, {}, y>>)
BY PairFacts, QuadFacts DEF Agree

LEMMA LedTriple ==
  ASSUME NEW x \in SUBSET Answer, NEW y \in SUBSET Answer, NEW z \in SUBSET Answer
  PROVE  /\ Agree(<<x, y, z>>, <<{}, x, y, z>>)
         /\ Silent(<<{}, x, y, z>>) => y = {}
<1> DEFINE a == <<x, y, z>>
           b == <<{}, x, y, z>>
<1>1. a \in Sources /\ Len(a) = 3 /\ a[1] = x /\ a[2] = y /\ a[3] = z
  BY DEF Sources
<1>2. b \in Sources /\ Len(b) = 4 /\ b[1] = {} /\ b[2] = x /\ b[3] = y /\ b[4] = z
  BY DEF Sources
<1> HIDE DEF a, b
<1>3. \A i : (i \in 1..Len(a) <=> i = 1 \/ i = 2 \/ i = 3)
             /\ (i \in 1..Len(b) <=> i = 1 \/ i = 2 \/ i = 3 \/ i = 4)
  BY <1>1, <1>2
<1>4. (Silent(a) <=> x = {} /\ y = {} /\ z = {}) /\ (Silent(b) <=> x = {} /\ y = {} /\ z = {})
  BY <1>1, <1>2, <1>3 DEF Silent
<1>5. /\ x # {} => FirstAt(a, 1) /\ FirstAt(b, 2)
      /\ x = {} /\ y # {} => FirstAt(a, 2) /\ FirstAt(b, 3)
      /\ x = {} /\ y = {} /\ z # {} => FirstAt(a, 3) /\ FirstAt(b, 4)
  BY <1>1, <1>2, <1>3 DEF FirstAt
<1>6. ~Silent(a) => FirstHit(a) = FirstHit(b)
  BY <1>1, <1>2, <1>4, <1>5, FirstHitAt
<1> QED BY <1>1, <1>2, <1>4, <1>6 DEF Agree, a, b

LEMMA ExtensionSilent ==
  ASSUME IInv, NEW t \in Table, NEW k \in Key, parentList[t] = <<>>,
         ~SearchesExtension(ClassOf(t)) \/ Field(Extension(t), k) = {}
  PROVE  Silent(Extensions(t, k))
<1> DEFINE Ext(p) == Only(SearchesExtension(ClassOf(p)), Field(Extension(p), k))
           own == <<Ext(t)>>
           rest == [i \in DOMAIN parentList[t] |-> Ext(parentList[t][i])]
<1>1. Ext(t) = {}
  BY DEF Only, SearchesExtension
<1> HIDE DEF Ext
<1>2. own \in Sources /\ Silent(own)
  BY <1>1, SingleFacts
<1>3. rest \in Sources /\ Silent(rest)
  BY DEF Sources, Silent
<1>4. Extensions(t, k) = own \o rest
  BY DEF Extensions, Each, Ext
<1> HIDE DEF own, rest
<1> QED BY <1>2, <1>3, <1>4, Joining

(* Where the simple metamethods are installed they find the same.          *)
THEOREM FastAndFullAgree == DispatchSpec => []FastIsFull
<1>1. DInv => FastIsFull
  <2> SUFFICES ASSUME DInv, NEW t \in fast, NEW k \in Key, ~Hidden(k),
                      Field(t, k) = {} \/ Getter(t, k) = {},
                      t[2] = "st" \/ options[ClassOf(t)] = {}
               PROVE  FirstHit(Simple(t, k)) = FirstHit(Full(t, k))
    BY DEF FastIsFull
  <2>1. /\ IInv /\ t \in Table /\ t \in Store /\ StoreTable(t) \in Store
        /\ parentList[t] = <<>> /\ answers[t] = {}
    <3>1. IInv /\ t \in Table
      BY DEF DInv, IInv, TypeInv, TypeOK
    <3> QED BY <3>1, KeysAndStores DEF DInv, SimpleInv
  <2> DEFINE s == Each(parentList[t], LAMBDA p : <<Field(p, k), Getter(p, k)>>)
             c == FlattenSeq(s)
             d == AfterMembers(t, k)
  <2>2. c \in Sources /\ Silent(c) /\ d \in Sources
    <3>1. s \in Seq(Sources) /\ Len(s) = 0
      BY <2>1, PairsOfParents
    <3> HIDE DEF s
    <3>2. FlatSays(c, s, 0)
      BY <3>1, FlattenSays
    <3> QED BY <2>1, <3>2, AfterMembersFacts DEF FlatSays
  <2>3. /\ Fallback(t, k) = {}
        /\ Field(t, k) \in SUBSET Answer /\ Getter(t, k) \in SUBSET Answer
        /\ Field(StoreTable(t), k) \in SUBSET Answer
    BY <2>1, SourceFacts DEF Says
  <2> HIDE DEF c, d
  <2>4. CASE t[2] = "st"
    <3> DEFINE a == <<Field(StoreTable(t), k), Field(t, k), Getter(t, k)>>
               b == <<{}, Field(StoreTable(t), k), Field(t, k), Getter(t, k)>>
    <3>1. Simple(t, k) = a /\ Full(t, k) = (b \o c) \o d
      BY <2>3, <2>4 DEF Simple, SimpleStatic, Full, IndexStatic, Inherited, c, d
    <3>2. Agree(a, b) /\ (Silent(b) => Field(t, k) = {})
      BY <2>3, LedTriple
    <3>3. Field(t, k) = {} => Silent(d)
      BY <2>1, <2>3, <2>4, ExtensionSilent, AfterMembersFacts DEF Extension, d
    <3> HIDE DEF a, b
    <3> DEFINE bc == b \o c
    <3>4. Agree(a, bc)
      BY <2>2, <3>2, AgreeFacts
    <3>5. Silent(bc) => Silent(d)
      BY <3>2, <3>3, <3>4 DEF Agree
    <3> HIDE DEF bc
    <3>6. Agree(a, bc \o d)
      BY <2>2, <3>4, <3>5, AgreeFacts
    <3> QED BY <3>1, <3>6, AgreeFacts DEF bc
  <2>5. CASE t[2] # "st"
    <3> DEFINE x == <<Getter(t, k), Field(t, k)>>
               a == <<{}, Field(t, k), {}, Getter(t, k)>>
               b == InstanceStatic(t, k)
    <3>1. Simple(t, k) = x \o b /\ Full(t, k) = ((a \o b) \o c) \o d
      <4>1. ~OverridingFirst(ClassOf(t))
        BY <2>5 DEF OverridingFirst, Has
      <4>2. Full(t, k) = IndexObject(t, k) /\ Simple(t, k) = SimpleObject(t, k)
        BY <2>5 DEF Full, Simple
      <4>3. SimpleObject(t, k) = x \o b
        BY DEF SimpleObject
      <4>4. IndexObject(t, k) = ((a \o b) \o c) \o d
        BY <4>1 DEF IndexObject, Inherited, Only, c, d
      <4> QED BY <4>2, <4>3, <4>4
    <3>2. Agree(x, a)
      BY <2>3, SwappedPair
    <3>3. b \in Sources
      BY <2>1, InstanceStaticFacts
    <3>4. Silent(d)
      BY <2>1, <2>3, <2>5, ExtensionSilent, AfterMembersFacts DEF d, SearchesExtension
    <3> HIDE DEF x, a, b
    <3> DEFINE y == x \o b
               a1 == a \o b
    <3>7. Agree(y, a1)
      BY <3>2, <3>3, AgreeFacts
    <3> HIDE DEF y, a1
    <3> DEFINE a2 == a1 \o c
    <3>8. Agree(y, a2)
      BY <2>2, <3>7, AgreeFacts
    <3> HIDE DEF a2
    <3> DEFINE a3 == a2 \o d
    <3>9. Agree(y, a3)
      BY <2>2, <3>4, <3>8, AgreeFacts
    <3> QED BY <3>1, <3>9, AgreeFacts DEF y, a1, a2, a3
  <2> QED BY <2>4, <2>5
<1> QED BY <1>1, DispatchInductive, PTL
=============================================================================
