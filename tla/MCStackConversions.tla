-------------------------- MODULE MCStackConversions --------------------------
(***************************************************************************)
(* Small widths, a few values of every type, and tables that scripts make: *)
(* sequences, with holes, with keys of several types. The widths are those *)
(* of a lua_Integer that is an int: long long is wider.                    *)
(***************************************************************************)
EXTENDS ConversionChecks

I(t) == <<"integer", t>>
Str == <<"string">>
Choice == <<"enum", UnsignedChar, {1, 2}>>
Opt(T) == <<"optional", T>>
Var == <<"variant", <<I(UnsignedChar), Str>>>>
Arr == <<"array", Opt(I(Int8)), 2>>
Vec(T) == Sequence(VectorTraits, T)

Integers == {<<I(t), n>> : t \in IntegerTypes, n \in {-2, -1, 0, 1, 7, 8, 15}}
Bare == {p \in Integers : p[2] \in ValuesOf(p[1][2])}
Scalars == {<<Float, 2>>, <<LongDouble, 40>>, <<LongDouble, 11>>, <<LongDouble, 12>>, <<<<"bool">>, FALSE>>, <<<<"char">>, "a">>,
            <<<<"view">>, "ab">>, <<Str, "1">>, <<<<"cstring">>, <<>>>>, <<<<"cstring">>, <<"a">>>>,
            <<<<"nullptr">>, <<>>>>, <<<<"pointer">>, <<1>>>>, <<<<"cfunction">>, 1>>,
            <<Choice, 3>>}
Nested == {<<Opt(I(CInt)), <<>>>>, <<Opt(I(CInt)), <<1>>>>,
            <<<<"expected", Str>>, <<>>>>, <<<<"expected", Str>>, <<"a">>>>,
            <<<<"address", Str>>, <<>>>>, <<<<"address", Str>>, <<"a">>>>,
            <<Var, <<1, 1>>>>, <<Var, <<2, "a">>>>,
            <<<<"any">>, <<>>>>, <<<<"any">>, <<Str, "a">>>>}
Collections ==
  {<<Vec(I(UnsignedLong)), <<1, 15>>>>, <<Vec(I(UnsignedLong)), <<1, 7>>>>,
   <<Vec(Sequence(DequeTraits, Str)), << <<"a">>, <<>> >>>>,
   <<Sequence(ListTraits, Opt(Str)), << <<>>, <<"a">> >>>>,
   <<Sequence(ForwardListTraits, I(UnsignedLong)), <<7, 8>>>>,
   <<Sequence(SpanTraits, Str), <<"a", "1">>>>,
   <<Sequence(SetTraits, Str), {"a", "1"}>>, <<Sequence(UnorderedSetTraits, Str), {"a"}>>,
   <<Sequence(FlatSetTraits, Str), {"1"}>>,
   <<Arr, << <<1>>, <<>> >>>>, <<Arr, << <<>>, <<1>> >>>>,
   <<Pair(Str, I(UnsignedLong)), <<"a", 8>>>>, <<Pair(Str, I(UnsignedLong)), <<"a", 1>>>>,
   <<<<"carray", Str, 2>>, <<"a", "1">>>>,
   <<Mapping(MapTraits, Str, I(UnsignedLong)), [k \in {"a", "1"} |-> IF k = "a" THEN 1 ELSE 8]>>,
   <<Mapping(UnorderedMapTraits, Str, Str), [k \in {"a", "1"} |-> k]>>,
   <<Mapping(FlatMapTraits, Str, Str), [k \in {"1"} |-> k]>>,
   <<Mapping(MapTraits, Opt(Str), Str), [k \in { <<>>, <<"a">> } |-> "1"]>>,
   <<MultiMap(Str, Str), [k \in {"a", "1"} |-> <<k, "1">>]>>}
MCInputs == Bare \union Scalars \union Nested \union Collections

Entry(k, x) == <<k, x>>
MCScripts ==
  {Nil, Boolean(TRUE), Number(-2), Number(1), Number(2), Number(14), Number(16), String("ab"), String("1"),
   Object("A", FALSE, FALSE), Object("B", TRUE, FALSE), Object("B", FALSE, TRUE),
   Table(<<Entry(Number(2), Object("A", FALSE, FALSE))>>),
   Table(<<Entry(Number(2), String("a"))>>),
   Table(<<Entry(Number(4), Number(2)), Entry(Number(2), String("1"))>>),
   Table(<<Entry(Number(2), String("a")), Entry(String("1"), String("b"))>>),
   Table(<<Entry(Number(2), Table(<<Entry(Number(2), String("a"))>>))>>)}

(* B is derived from A.                                                    *)
MCBases == [c \in {"A", "B"} |-> IF c = "B" THEN {"A"} ELSE {}]
MCConversions == {<<"A", "B">>}
Of(c) == ClassType(c, "value")
MCObjects ==
  {ClassType("A", way) : way \in Ways} \union
  {ClassType("B", "converted"), Opt(ClassType("A", "pointer")), Vec(Of("B")),
   <<"variant", <<Of("B"), Of("A")>>>>, <<"variant", <<Str, Of("A"), <<"nullptr">>>>>>,
   Opt(<<"variant", <<Vec(Of("B")), Of("A")>>>>)}
MCAsked == {p[1] : p \in {q \in MCInputs : /\ q[1][1] \notin {"any", "carray"}
                                           /\ q[1][1] = "sequence" => q[1][2].get # "none"}}
           \union {Opt(Choice), Opt(Var), <<"variant", <<Choice, Opt(Str)>>>>}
           \union MCObjects
WithParts(types) == types \union UNION {Parts(T) : T \in types}
MCWanted == WithParts(WithParts(MCAsked))
=============================================================================
