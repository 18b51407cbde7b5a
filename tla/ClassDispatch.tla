---------------------------- MODULE ClassDispatch ----------------------------
(***************************************************************************)
(* The members of registered classes and how Lua reaches them: what        *)
(* addFunction, addProperty and the other registration calls of            *)
(* Namespace.h store, and what the __index and __newindex metamethods of   *)
(* CFunctions.h find and change, for instances and for the static table.   *)
(*                                                                         *)
(* Besides the metatables of ClassRegistry a class has the table that is   *)
(* bound to its name, <<c, "vst">>, where Lua reads and writes raw first.  *)
(***************************************************************************)
EXTENDS ClassRegistry, FiniteSets, SequencesExt

CONSTANTS Name,       \* member names
          MetaName,   \* those that are names of metamethods
          MaxOps      \* bound: member operations in a behaviour

ASSUME DispatchAssumption == MetaName \subseteq Name /\ MaxOps \in Nat

VARIABLES
  field,     \* field[t][k]: the value stored in table t under k, or Nil
  propget,   \* the <<t, n>> with a getter for n in the propget table of t
  propset,   \* the <<t, n>> with a setter (or read-only error) in its propset table
  answers,   \* answers[t]: the names the __index fallback stored in t answers
  catches,   \* the tables that hold a __newindex fallback
  ops        \* member operations so far

members == <<field, propget, propset, answers, catches, ops>>
dvars == <<vars, members>>

Store == Class \X (Kind \union {"vst"})
Plain(n) == <<"plain", n>>
Super(n) == <<"super_", n>>
Key == {"plain", "super_"} \X Name

Nil == [kind |-> "nil", owner |-> NoClass]
CKind == {"const", "method", "static"}     \* C functions; scripts store "lua", "data"
Member(kind, c) == [kind |-> kind, owner |-> c]
IsCFunction(v) == v.kind \in CKind

DispatchInit ==
  /\ Init
  /\ field = [t \in Store |-> [k \in Key |-> Nil]]
  /\ propget = {} /\ propset = {}
  /\ answers = [t \in Table |-> {}] /\ catches = {} /\ ops = 0

Has(c, option) == option \in options[c]
OverridingFirst(c) == Has(c, "extensibleClass") \/ Has(c, "allowOverridingMethods")

(* Options::test is true when any bit is set, so the test of               *)
(* extensibleClass | ~allowOverridingMethods asks for any other option.    *)
SearchesExtension(c) == options[c] \ {"allowOverridingMethods"} # {}

-----------------------------------------------------------------------------
(* Lookup.  A source is the set of its hits: empty, or one record that     *)
(* says what answers and in which table.                                   *)

FirstHit(sources) ==
  LET hits == {i \in DOMAIN sources : sources[i] # {}}
  IN IF hits = {} THEN [by |-> "none", at |-> <<NoClass, "">>]
     ELSE CHOOSE h \in sources[CHOOSE i \in hits : \A j \in hits : i <= j] : TRUE

Hit(test, what, t) == IF test THEN {[by |-> what, at |-> t]} ELSE {}
Field(t, k) == Hit(field[t][k] # Nil, "field", t)
Getter(t, k) == Hit(k[1] = "plain" /\ <<t, k[2]>> \in propget, "getter", t)
Fallback(t, k) == Hit(k[1] = "plain" /\ k[2] \in answers[t], "fallback", t)
Setter(t, n) == Hit(<<t, n>> \in propset, "setter", t)
Catch(t) == Hit(t \in catches, "fallback", t)

(* push_class_or_const_table, and for a static table the table itself.     *)
StoreTable(t) == <<ClassOf(t), IF t[2] = "cl" THEN "co" ELSE "cl">>
Extension(t) == IF t[2] = "st" THEN t ELSE StoreTable(t)

Each(ts, Source(_)) == [i \in DOMAIN ts |-> Source(ts[i])]
Only(test, source) == IF test THEN source ELSE {}

(* Static members reached through an instance.  Namespace.h stores the     *)
(* static key in cl and in st, never in co.                                *)
InstanceStatic(t, k) ==
  IF t[2] = "cl" THEN <<Field(<<ClassOf(t), "st">>, k), Getter(<<ClassOf(t), "st">>, k)>>
  ELSE <<>>

(* The loop over the parents: of each the field and then the getter.       *)
Inherited(t, k) == FlattenSeq(Each(parentList[t], LAMBDA p : <<Field(p, k), Getter(p, k)>>))

(* Both metamethods search the extension tables of the class and of its    *)
(* parents after all registered members.                                   *)
Extensions(t, k) ==
  <<Only(SearchesExtension(ClassOf(t)), Field(Extension(t), k))>>
  \o Each(parentList[t], LAMBDA p :
            Only(SearchesExtension(ClassOf(p)), Field(Extension(p), k)))

(* What is left after the loop: the extensions, and then the fallbacks. For*)
(* a static table those of parents are looked up under the key of instance *)
(* fallbacks, which no static table has; its own was asked before, and is  *)
(* asked again with the same answer.                                       *)
AfterMembers(t, k) ==
  Extensions(t, k) \o <<Fallback(t, k)>>
  \o IF t[2] = "st" THEN <<>> ELSE Each(parentList[t], LAMBDA p : Fallback(p, k))

(* Mutant: the fallback is asked first whatever the options.               *)
IndexObjectFallbackFirst(t, k) ==
  <<Fallback(t, k), Field(t, k), Getter(t, k)>>
  \o InstanceStatic(t, k)
  \o Inherited(t, k)
  \o Extensions(t, k)
  \o Each(parentList[t], LAMBDA p : Fallback(p, k))

(* index_metamethod<true>, t the metatable of the userdata.                *)
IndexObject(t, k) ==
  LET overriding == OverridingFirst(ClassOf(t)) IN
  <<Only(overriding, Fallback(t, k)), Field(t, k),
    Only(overriding, Field(Extension(t), k)), Getter(t, k)>>
  \o InstanceStatic(t, k)
  \o Inherited(t, k)
  \o AfterMembers(t, k)

(* index_metamethod<false>.                                                *)
IndexStatic(t, k) ==
  <<Fallback(t, k), Field(StoreTable(t), k), Field(t, k), Getter(t, k)>>
  \o Inherited(t, k)
  \o AfterMembers(t, k)

(* Mutant: the simple metamethod leaves the static members out.            *)
SimpleObjectOwnOnly(t, k) == <<Getter(t, k), Field(t, k)>>

(* index_metamethod_simple.                                                *)
SimpleObject(t, k) == <<Getter(t, k), Field(t, k)>> \o InstanceStatic(t, k)
SimpleStatic(t, k) == <<Field(StoreTable(t), k), Field(t, k), Getter(t, k)>>

Hidden(k) == k[1] = "plain" /\ k[2] \in MetaName

Full(t, k) == IF Hidden(k) THEN <<>>
              ELSE IF t[2] = "st" THEN IndexStatic(t, k) ELSE IndexObject(t, k)
Simple(t, k) == IF t[2] = "st" THEN IF Hidden(k) THEN <<>> ELSE SimpleStatic(t, k)
                ELSE IF Hidden(k) THEN <<Getter(t, k)>> ELSE SimpleObject(t, k)

(* What indexing an instance with metatable t, or the table of the class   *)
(* for t = <<c, "st">>, with key k finds.                                  *)
Index(t, k) ==
  FirstHit(IF t[2] = "st" THEN <<Field(<<ClassOf(t), "vst">>, k)>>
                                 \o (IF t \in fast THEN Simple(t, k) ELSE Full(t, k))
           ELSE IF t \in fast THEN Simple(t, k) ELSE Full(t, k))

(* Which handler of __newindex takes a write of member n.  The propset     *)
(* table is missing from co: every write through a const object fails.     *)
Extend(t) == Hit(Has(ClassOf(t), "extensibleClass"), "extend", t)
Catches(t) == Each(parentList[t], LAMBDA p : Catch(p))

NewIndex(t, n) ==
  LET st == <<ClassOf(t), "st">>
      setters == Each(parentList[t], LAMBDA p : Setter(p, n))
  IN FirstHit(
       CASE t[2] = "co" -> <<>>
         [] t[2] = "cl" /\ t \in fast -> <<Setter(t, n), Setter(st, n)>>
         [] t[2] = "cl" /\ t \notin fast ->
              <<Setter(t, n)>> \o setters \o <<Setter(st, n), Catch(t)>>
              \o Catches(t) \o <<Extend(t)>>
         [] t[2] = "st" /\ t \in fast -> <<Setter(t, n)>>
         [] t[2] = "st" /\ t \notin fast ->
              <<Setter(t, n)>> \o setters \o <<Catch(t), Extend(t)>>)

-----------------------------------------------------------------------------
(* Registration calls made on a registered class.                          *)

Registering(c) == building = NoClass /\ c \in registered
Counted == ops < MaxOps /\ ops' = ops + 1

(* A const member function goes to both tables, any other to cl alone.     *)
AddFunction(c, n, kind) ==
  /\ Registering(c) /\ Counted
  /\ field' = [t \in Store |->
        IF t = <<c, "cl">> \/ (t = <<c, "co">> /\ kind = "const")
        THEN [field[t] EXCEPT ![Plain(n)] = Member(kind, c)]
        ELSE field[t]]
  /\ UNCHANGED <<vars, propget, propset, answers, catches>>

AddStaticFunction(c, n) ==
  /\ Registering(c) /\ Counted
  /\ field' = [field EXCEPT ![<<c, "st">>][Plain(n)] = Member("static", c)]
  /\ UNCHANGED <<vars, propget, propset, answers, catches>>

AddProperty(c, n) ==
  /\ Registering(c) /\ Counted
  /\ propget' = propget \union {<<<<c, "co">>, n>>, <<<<c, "cl">>, n>>}
  /\ propset' = propset \union {<<<<c, "cl">>, n>>}
  /\ UNCHANGED <<vars, field, answers, catches>>

AddStaticProperty(c, n) ==
  /\ Registering(c) /\ Counted
  /\ propget' = propget \union {<<<<c, "st">>, n>>}
  /\ propset' = propset \union {<<<<c, "st">>, n>>}
  /\ UNCHANGED <<vars, field, answers, catches>>

(* add[Static]IndexMetaMethod and add[Static]NewIndexMetaMethod install    *)
(* the full metamethods on the table they extend, and on no other.         *)
FullMetaMethods(t) ==
  /\ fast' = fast \ {t}
  /\ UNCHANGED <<bound, registered, options, parentList, cast, loop>>

AddIndexMetaMethod(t, names) ==
  /\ Registering(ClassOf(t)) /\ Counted
  /\ answers' = [answers EXCEPT ![t] = names]
  /\ FullMetaMethods(t)
  /\ UNCHANGED <<field, propget, propset, catches>>

AddNewIndexMetaMethod(t) ==
  /\ Registering(ClassOf(t)) /\ Counted
  /\ catches' = catches \union {t}
  /\ FullMetaMethods(t)
  /\ UNCHANGED <<field, propget, propset, answers>>

-----------------------------------------------------------------------------
(* Writes made by scripts, on the table of a class (t = <<c, "st">>) or on *)
(* an instance (t = <<c, "cl">>).  Setters and fallbacks run C++ code that *)
(* leaves the tables alone, so only the raw and the extending writes act.  *)

(* Mutants: no test of the options; nothing saved.                         *)
MayAlwaysReplace(ct, n) == TRUE
SaveNoSuper(f, ct, dest, n) == f

(* process_metatable of try_call_newindex_extensible: a C function found   *)
(* under n in table ct moves to the super_ key of dest, if its class lets  *)
(* scripts override it.                                                    *)
MayReplace(ct, n) ==
  IsCFunction(field[ct][Plain(n)]) => Has(ClassOf(ct), "allowOverridingMethods")
SaveSuper(f, ct, dest, n) ==
  IF IsCFunction(field[ct][Plain(n)])
  THEN [f EXCEPT ![dest][Super(n)] = field[ct][Plain(n)]] ELSE f

(* The parents whose own store table has n; the loop stops at the first.   *)
Holders(t, n) == {i \in DOMAIN parentList[t] :
                    field[StoreTable(parentList[t][i])][Plain(n)] # Nil}
FirstHolder(t, n) == CHOOSE i \in Holders(t, n) : \A j \in Holders(t, n) : i <= j

(* A function is stored in the class it was written on.  An immutable      *)
(* member of a parent is noticed after the own one was saved.              *)
ExtendFunction(t, n) ==
  LET dest == StoreTable(t)
      own == SaveSuper(field, dest, dest, n)
      value == Member("lua", ClassOf(t))
  IN field' =
       IF ~MayReplace(dest, n) THEN field
       ELSE IF Holders(t, n) = {} THEN [own EXCEPT ![dest][Plain(n)] = value]
       ELSE LET ct == StoreTable(parentList[t][FirstHolder(t, n)]) IN
            IF ~MayReplace(ct, n) THEN own
            ELSE [SaveSuper(own, ct, dest, n) EXCEPT ![dest][Plain(n)] = value]

(* Any other value: the target moves to every parent the loop looks at.    *)
ExtendData(t, n, value) ==
  LET own == SaveSuper(field, StoreTable(t), StoreTable(t), n)
      parents == parentList[t]
  IN field' =
       IF ~MayReplace(StoreTable(t), n) THEN field
       ELSE IF parents = <<>> THEN [own EXCEPT ![StoreTable(t)][Plain(n)] = value]
       ELSE IF Holders(t, n) = {}
            THEN [own EXCEPT ![StoreTable(parents[Len(parents)])][Plain(n)] = value]
       ELSE LET ct == StoreTable(parents[FirstHolder(t, n)]) IN
            IF ~MayReplace(ct, n) THEN own
            ELSE [SaveSuper(own, ct, ct, n) EXCEPT ![ct][Plain(n)] = value]

Writing(t, n) ==
  /\ Registering(ClassOf(t)) /\ Counted
  /\ UNCHANGED <<vars, propget, propset, answers, catches>>

(* A key that is already in the table of the class is assigned raw.        *)
RawHere(c, n) == field[<<c, "vst">>][Plain(n)] # Nil
WriteRaw(c, n, value) == field' = [field EXCEPT ![<<c, "vst">>][Plain(n)] = value]

StaticWriteFunction(c, n) ==
  /\ Writing(<<c, "st">>, n)
  /\ \/ RawHere(c, n) /\ WriteRaw(c, n, Member("lua", c))
     \/ ~RawHere(c, n) /\ NewIndex(<<c, "st">>, n).by = "extend"
                       /\ ExtendFunction(<<c, "st">>, n)

StaticWriteData(c, n, value) ==
  /\ Writing(<<c, "st">>, n)
  /\ RawHere(c, n) \/ NewIndex(<<c, "st">>, n).by = "extend"
  /\ WriteRaw(c, n, value)

InstanceWriteFunction(c, n) ==
  /\ Writing(<<c, "cl">>, n)
  /\ NewIndex(<<c, "cl">>, n).by = "extend"
  /\ ExtendFunction(<<c, "cl">>, n)

InstanceWriteData(c, n, value) ==
  /\ Writing(<<c, "cl">>, n)
  /\ NewIndex(<<c, "cl">>, n).by = "extend"
  /\ ExtendData(<<c, "cl">>, n, value)

Register(c, n) == \/ \E kind \in {"const", "method"} : AddFunction(c, n, kind)
                  \/ AddStaticFunction(c, n)
                  \/ AddProperty(c, n)
                  \/ AddStaticProperty(c, n)

AddFallback(c) == \E k \in {"cl", "st"} :
                    \/ \E names \in SUBSET Name : AddIndexMetaMethod(<<c, k>>, names)
                    \/ AddNewIndexMetaMethod(<<c, k>>)

ScriptWrite(c, n) ==
  \/ StaticWriteFunction(c, n)
  \/ InstanceWriteFunction(c, n)
  \/ \E value \in {Member("data", c), Nil} : \/ StaticWriteData(c, n, value)
                                             \/ InstanceWriteData(c, n, value)

DispatchNext == \/ Next /\ UNCHANGED members
                \/ \E c \in Class, n \in Name : Register(c, n) \/ ScriptWrite(c, n)
                \/ \E c \in Class : AddFallback(c)

DispatchSpec == DispatchInit /\ [][DispatchNext]_dvars

-----------------------------------------------------------------------------
(* The simple metamethods are an optimisation: on a table that has them, a *)
(* name finds what the full metamethods would find.  Left out: a class     *)
(* with a function and a property of one name, the names of metamethods,   *)
(* and the objects of a class that has options but is not extensible,      *)
(* where the two differ (see the README).                                  *)
FastIsFull ==
  building = NoClass => \A t \in fast, k \in Key :
     /\ ~Hidden(k) /\ (Field(t, k) = {} \/ Getter(t, k) = {})
     /\ t[2] = "st" \/ options[ClassOf(t)] = {}
     => FirstHit(Simple(t, k)) = FirstHit(Full(t, k))

Registered(t, k) == Field(t, k) # {} \/ Getter(t, k) # {}
SearchOrder(t) == <<t>> \o parentList[t]

(* On a class without extension options the nearest definition of a member *)
(* wins: the class, then its static members, then its parents in order;    *)
(* a member registered anywhere among them is never shadowed by an __index *)
(* fallback, however late either was added.                                *)
NearestMemberWins ==
  \A t \in ObjectTables, n \in Name \ MetaName :
    LET k == Plain(n)
        st == <<ClassOf(t), "st">>
        found == {i \in DOMAIN SearchOrder(t) : Registered(SearchOrder(t)[i], k)}
    IN options[ClassOf(t)] = {} /\ found # {} =>
         /\ Index(t, k).by \in {"field", "getter"}
         /\ Index(t, k).at \in
              {IF 1 \notin found /\ t[2] = "cl" /\ Registered(st, k) THEN st
               ELSE SearchOrder(t)[CHOOSE i \in found : \A j \in found : i <= j]}

(* A registered setter anywhere in the hierarchy takes a write before any  *)
(* __newindex fallback or extension, and a const object takes none.        *)
SettersFirst ==
  \A c \in registered, n \in Name :
    /\ NewIndex(<<c, "co">>, n).by = "none"
    /\ (\E p \in Range(SearchOrder(<<c, "cl">>)) : <<p, n>> \in propset)
         => NewIndex(<<c, "cl">>, n).by = "setter"

(* A C++ method of a class without allowOverridingMethods stays what it is *)
(* in the class table, whichever derived class or instance scripts write   *)
(* through.                                                                *)
ProtectedMethods ==
  [][\A c \in Class, n \in Name : ScriptWrite(c, n) =>
       \A d \in Class, k \in {"co", "cl"} :
         IsCFunction(field[<<d, k>>][Plain(n)]) /\ ~Has(d, "allowOverridingMethods")
           => field'[<<d, k>>][Plain(n)] = field[<<d, k>>][Plain(n)]]_dvars

(* When a script's function replaces a C method in the class table, that   *)
(* or the one a parent has is still there under super_.                    *)
OverrideKeepsSuper ==
  [][\A c \in Class, n \in Name : StaticWriteFunction(c, n) =>
       LET old == field[<<c, "cl">>]
           new == field'[<<c, "cl">>]
       IN IsCFunction(old[Plain(n)]) /\ new[Plain(n)] # old[Plain(n)]
            => IsCFunction(new[Super(n)])]_dvars

=============================================================================
