--------------------------- MODULE ConversionProofs ---------------------------
(***************************************************************************)
(* Proofs about IntegerConversions: which casts keep the value, and that   *)
(* what passes the checks of the code arrives as the same number; and      *)
(* about StackConversions: how the calls under way share the stack, that a *)
(* push is whole, a get changes nothing, and both are one step of their    *)
(* caller.                                                                 *)
(***************************************************************************)
EXTENDS StackConversions, TLAPS

AnyType == [half : Halves, signed : BOOLEAN, checked : BOOLEAN]

(* The widths of the types are known, and the unchecked ones are narrow.   *)
LEMMA TypesKnown ==
  /\ IntegerTypes \subseteq AnyType /\ LuaInteger \in AnyType
  /\ \A t \in IntegerTypes : ~t.checked => t.half < LuaHalf
<1> USE DEF IntegerType, AnyType, Halves
<1>1. LuaInteger \in AnyType
  BY DEF LuaInteger
<1>2. {Byte, Int8, UnsignedChar, Short, UnsignedShort, CInt, UnsignedInt} \subseteq AnyType
  BY DEF Byte, Int8, UnsignedChar, Short, UnsignedShort, CInt, UnsignedInt
<1>3. {Long, UnsignedLong, LongLong, UnsignedLongLong} \subseteq AnyType
  BY DEF Long, UnsignedLong, LongLong, UnsignedLongLong
<1>4. \A t \in {Byte, Int8, UnsignedChar, Short, UnsignedShort} : t.half < LuaHalf
  BY WidthAssumption DEF Byte, Int8, UnsignedChar, Short, UnsignedShort
<1>5. \A t \in {CInt, UnsignedInt, Long, UnsignedLong, LongLong, UnsignedLongLong} : t.checked
  BY DEF CInt, UnsignedInt, Long, UnsignedLong, LongLong, UnsignedLongLong
<1>6. QED
  BY <1>1, <1>2, <1>3, <1>4, <1>5 DEF IntegerTypes

(* The remainder of a number within one turn of the modulus.               *)
LEMMA Remainder ==
  ASSUME NEW m \in Nat \ {0}, NEW n \in Int
  PROVE  /\ n \in 0..m - 1 => n % m = n
         /\ n \in -m..-1 => n % m = n + m
OBVIOUS
(* The limits of a type, and the values a cast keeps.                      *)
LEMMA Limits ==
  ASSUME NEW t \in AnyType
  PROVE  /\ t.half \in Nat /\ t.half >= 1 /\ 2 * t.half \in Nat \ {0}
         /\ MinOf(t) \in Int /\ MaxOf(t) \in Int
         /\ MinOf(t) <= 0 /\ MaxOf(t) >= 0
<1>1. t.half \in Nat \ {0} /\ t.signed \in BOOLEAN
  BY WidthAssumption DEF AnyType
<1>2. QED
  BY <1>1 DEF MinOf, MaxOf

LEMMA CastKeeps ==
  ASSUME NEW t \in AnyType, NEW n \in Int, n \in ValuesOf(t)
  PROVE  Cast(t, n) = n
<1>1. t.half \in Nat /\ t.half >= 1 /\ t.signed \in BOOLEAN
  BY Limits DEF AnyType
<1> DEFINE m == 2 * t.half
<1>2. m \in Nat \ {0} /\ m = 2 * t.half
  BY <1>1
<1>3. /\ n \in 0..m - 1 => n % m = n
      /\ n \in -m..-1 => n % m = n + m
  BY <1>2, Remainder
<1>4. Cast(t, n) = IF t.signed /\ n % m >= t.half THEN (n % m) - m ELSE n % m
  BY DEF Cast
<1> HIDE DEF m
<1>5. CASE t.signed /\ n < 0
  <2>1. n \in -m..-1 /\ n + m >= t.half
    BY <1>1, <1>2, <1>5 DEF ValuesOf, MinOf, MaxOf
  <2>2. QED
    BY <2>1, <1>1, <1>2, <1>3, <1>4, <1>5
<1>6. CASE t.signed /\ n >= 0
  <2>1. n \in 0..m - 1 /\ ~(n >= t.half)
    BY <1>1, <1>2, <1>6 DEF ValuesOf, MinOf, MaxOf
  <2>2. QED
    BY <2>1, <1>3, <1>4
<1>7. CASE ~t.signed
  <2>1. n \in 0..m - 1
    BY <1>1, <1>2, <1>7 DEF ValuesOf, MinOf, MaxOf
  <2>2. QED
    BY <2>1, <1>3, <1>4, <1>7
<1>8. QED
  BY <1>1, <1>5, <1>6, <1>7

(* A cast of any number into a type is one of its values.                  *)
LEMMA CastInRange ==
  ASSUME NEW t \in AnyType, NEW n \in Int
  PROVE  Cast(t, n) \in ValuesOf(t)
<1>1. t.half \in Nat /\ t.half >= 1 /\ t.signed \in BOOLEAN
  BY Limits DEF AnyType
<1> DEFINE m == 2 * t.half
           low == n % m
<1>2. m \in Nat \ {0} /\ m = 2 * t.half
  BY <1>1
<1>3. low \in 0..m - 1
  BY <1>2
<1>4. Cast(t, n) = IF t.signed /\ low >= t.half THEN low - m ELSE low
  BY DEF Cast
<1> HIDE DEF m, low
<1>5. QED
  BY <1>1, <1>2, <1>3, <1>4 DEF ValuesOf, MinOf, MaxOf

(* The check of the code is exact: a value passes if and only if the other *)
(* type has it. Only a narrower signed type against an unsigned one is     *)
(* excepted (is_integral_representable_by, LuaHelpers.h:620).              *)
THEOREM RepresentableExact ==
  ASSUME NEW u \in AnyType, NEW t \in AnyType, NEW n \in ValuesOf(t),
         ~(t.signed /\ ~u.signed /\ t.half < u.half)
  PROVE  Representable(u, t, n) <=> n \in ValuesOf(u)
<1>1. /\ u.half \in Nat /\ u.half >= 1 /\ u.half \in Halves /\ u.signed \in BOOLEAN
      /\ t.half \in Nat /\ t.half >= 1 /\ t.half \in Halves /\ t.signed \in BOOLEAN
  BY Limits DEF AnyType
<1>2. /\ n \in Int /\ MinOf(t) <= n /\ n <= MaxOf(t)
      /\ MinOf(u) \in Int /\ MaxOf(u) \in Int
  BY Limits DEF ValuesOf
<1>3. n \in ValuesOf(u) <=> MinOf(u) <= n /\ n <= MaxOf(u)
  BY <1>2 DEF ValuesOf
<1>4. /\ MinOf(u) = IF u.signed THEN -u.half ELSE 0
      /\ MaxOf(u) = IF u.signed THEN u.half - 1 ELSE 2 * u.half - 1
      /\ MinOf(t) = IF t.signed THEN -t.half ELSE 0
      /\ MaxOf(t) = IF t.signed THEN t.half - 1 ELSE 2 * t.half - 1
  BY DEF MinOf, MaxOf
<1>5. \A k \in Int : MinOf(t) <= k /\ k <= MaxOf(t) => Cast(t, k) = k
  BY <1>2, CastKeeps, Limits DEF ValuesOf
<1>6. \A k \in Int : MinOf(u) <= k /\ k <= MaxOf(u) => Cast(u, k) = k
  BY <1>2, CastKeeps DEF ValuesOf
<1>7. CASE t.half = u.half /\ t.signed = u.signed
  BY <1>2, <1>3, <1>4, <1>7 DEF Representable
<1>8. CASE t.half = u.half /\ ~t.signed /\ u.signed
  <2>1. Cast(t, MaxOf(u)) = MaxOf(u)
    BY <1>1, <1>2, <1>4, <1>5, <1>8
  <2>2. Representable(u, t, n) <=> n <= MaxOf(u)
    BY <2>1, <1>8 DEF Representable
  <2>3. QED
    BY <2>2, <1>1, <1>2, <1>3, <1>4, <1>8
<1>9. CASE t.half = u.half /\ t.signed /\ ~u.signed
  <2>1. Cast(t, MinOf(u)) = MinOf(u)
    BY <1>1, <1>2, <1>4, <1>5, <1>9
  <2>2. Representable(u, t, n) <=> n >= MinOf(u) /\ Cast(u, n) <= MaxOf(u)
    BY <2>1, <1>9 DEF Representable
  <2>3. n >= MinOf(u) => Cast(u, n) = n
    BY <1>1, <1>2, <1>4, <1>6, <1>9
  <2>4. QED
    BY <2>2, <2>3, <1>1, <1>2, <1>3, <1>4, <1>9
<1>10. CASE t.half < u.half
  <2>1. 2 * t.half <= u.half
    BY <1>1, <1>10, WidthAssumption
  <2>2. n \in ValuesOf(u)
    BY <2>1, <1>1, <1>2, <1>3, <1>4
  <2>3. Representable(u, t, n) <=> Cast(u, n) >= MinOf(u) /\ Cast(u, n) <= MaxOf(u)
    BY <1>1, <1>10 DEF Representable
  <2>4. QED
    BY <2>2, <2>3, <1>2, <1>3, <1>6
<1>11. CASE t.half > u.half /\ ~t.signed
  <2>1. 2 * u.half <= t.half
    BY <1>1, <1>11, WidthAssumption
  <2>2. Cast(t, MaxOf(u)) = MaxOf(u)
    BY <2>1, <1>1, <1>2, <1>4, <1>5, <1>11
  <2>3. Representable(u, t, n) <=> n <= MaxOf(u)
    BY <2>2, <1>1, <1>11 DEF Representable
  <2>4. QED
    BY <2>3, <1>1, <1>2, <1>3, <1>4, <1>11
<1>12. CASE t.half > u.half /\ t.signed
  <2>1. 2 * u.half <= t.half
    BY <1>1, <1>12, WidthAssumption
  <2>2. Cast(t, MinOf(u)) = MinOf(u) /\ Cast(t, MaxOf(u)) = MaxOf(u)
    BY <2>1, <1>1, <1>2, <1>4, <1>5, <1>12
  <2>3. Representable(u, t, n) <=> n >= MinOf(u) /\ n <= MaxOf(u)
    <3>1. t.half # u.half /\ ~(t.half < u.half)
      BY <1>1, <1>12
    <3>2. QED
      BY <3>1, <2>2, <1>12 DEF Representable
  <2>4. QED
    BY <2>3, <1>2, <1>3
<1>13. QED
  BY <1>1, <1>7, <1>8, <1>9, <1>10, <1>11, <1>12

(* An integer that C++ pushes arrives in Lua as the same number: types     *)
(* that are not checked are narrower than a lua_Integer (Stack.h:289).     *)
THEOREM PushedIntegerExact ==
  ASSUME NEW t \in IntegerTypes, NEW n \in ValuesOf(t), PushesInteger(t, n)
  PROVE  PushedInteger(t, n) = n /\ n \in ValuesOf(LuaInteger)
<1>1. /\ t \in AnyType /\ LuaInteger \in AnyType
      /\ t.checked \/ t.half < LuaHalf
      /\ LuaInteger.signed /\ LuaInteger.half = LuaHalf
  BY TypesKnown DEF LuaInteger, IntegerType
<1>2. n \in Int /\ MinOf(t) <= n /\ n <= MaxOf(t)
  BY <1>1, Limits DEF ValuesOf
<1>3. n \in ValuesOf(LuaInteger)
  <2>1. CASE t.checked
    BY <2>1, <1>1, RepresentableExact DEF PushesInteger
  <2>2. CASE t.half < LuaHalf
    <3>1. 2 * t.half <= LuaHalf /\ t.half \in Nat /\ LuaHalf \in Nat
      BY <2>2, <1>1, WidthAssumption DEF AnyType, Halves
    <3>2. QED
      BY <3>1, <1>1, <1>2 DEF ValuesOf, MinOf, MaxOf
  <2>3. QED
    BY <2>1, <2>2, <1>1
<1>4. QED
  BY <1>1, <1>2, <1>3, CastKeeps DEF PushedInteger

(* A number that C++ gets as an integer is the number Lua had, for every   *)
(* type that is signed or no wider than a lua_Integer.                     *)
THEOREM GotIntegerExact ==
  ASSUME NEW t \in IntegerTypes, NEW n \in ValuesOf(LuaInteger),
         t.signed \/ t.half <= LuaHalf
  PROVE  /\ GetsInteger(t, n) <=> n \in ValuesOf(t)
         /\ GetsInteger(t, n) => GotInteger(t, n) = n
<1>1. /\ t \in AnyType /\ LuaInteger \in AnyType
      /\ LuaInteger.half = LuaHalf /\ LuaHalf \in Nat /\ t.half \in Nat
  BY TypesKnown, WidthAssumption DEF LuaInteger, IntegerType, AnyType, Halves
<1>2. n \in Int
  BY <1>1, Limits DEF ValuesOf
<1>3. Representable(t, LuaInteger, n) <=> n \in ValuesOf(t)
  BY <1>1, RepresentableExact
<1>4. QED
  BY <1>1, <1>2, <1>3, CastKeeps DEF GetsInteger, GotInteger

(* For an unsigned type wider than a lua_Integer the check refuses nothing *)
(* and a negative number arrives as a positive one (LuaHelpers.h:642).     *)
THEOREM NegativeAccepted ==
  ASSUME NEW t \in IntegerTypes, ~t.signed, t.half > LuaHalf,
         NEW n \in ValuesOf(LuaInteger), n < 0
  PROVE  GetsInteger(t, n) /\ GotInteger(t, n) # n
<1>1. /\ t \in AnyType /\ LuaInteger \in AnyType
      /\ LuaInteger.half = LuaHalf /\ LuaInteger.signed
      /\ LuaHalf \in Nat /\ t.half \in Nat
  BY TypesKnown, WidthAssumption DEF LuaInteger, IntegerType, AnyType, Halves
<1>2. n \in Int /\ MinOf(t) = 0 /\ MinOf(t) \in Int /\ MaxOf(t) \in Int
  BY <1>1, Limits DEF ValuesOf, MinOf
<1>3. Cast(t, n) \in Int /\ Cast(t, n) >= 0 /\ Cast(t, n) <= MaxOf(t)
  BY <1>1, <1>2, CastInRange DEF ValuesOf
<1>4. Representable(t, LuaInteger, n) <=> Cast(t, n) >= MinOf(t) /\ Cast(t, n) <= MaxOf(t)
  <2>1. LuaInteger.half # t.half /\ LuaInteger.half < t.half
    BY <1>1
  <2>2. QED
    BY <2>1 DEF Representable
<1>5. QED
  BY <1>2, <1>3, <1>4 DEF GetsInteger, GotInteger
-----------------------------------------------------------------------------
(* The calls under way. A stack, or the sequence of the calls, is any      *)
(* sequence at all: the set of Lua values has no name.                     *)
List(s) == s \in Seq({s[i] : i \in DOMAIN s})

(* What a waiting call has put on the stack: the height of the stack when  *)
(* the call it waits for began.                                            *)
Held(f) == CASE f.of = "fill" -> (IF f.stage = "keyed" THEN 2 ELSE 1)
             [] f.of = "visit" -> 2
             [] OTHER -> 0
Top(f) == f.base + Held(f)
Height(frames, s, k) == IF k = 0 THEN Len(s) ELSE Top(frames[k])
Depth(frames, s) == Height(frames, s, Len(frames))

(* Every call began where the one that made it left the stack.             *)
Chained(frames, s) ==
  /\ \A k \in 1..Len(frames) : frames[k].base = Height(frames, s, k - 1)
  /\ \A j, k \in 0..Len(frames) : j <= k => Height(frames, s, j) <= Height(frames, s, k)

Frame(f) ==
  /\ f.of \in {"fill", "visit", "try", "wrap"} /\ f.base \in Nat
  /\ f.type[1] \notin {"integer", "enum"}
  /\ f.of # "fill" => f.index \in 1..f.base
Frames(frames) == \A k \in 1..Len(frames) : Frame(frames[k])
Fills(frames) ==
  \A k \in 1..Len(frames) : frames[k].of = "fill" /\ frames[k].stage \in {"raw", "keyed", "key"}
Gets(frames) == \A k \in 1..Len(frames) : frames[k].of # "fill"

(* A visited table is where it was, and lua_next finds the key over it.    *)
KeyOf(t, key) == key = Nil \/ \E j \in DOMAIN t : t[j][1] = key
Visits(f, s) == f.base + 1 <= Len(s) /\ KeyOf(s[f.index][2], s[f.base + 1])
Visited(frames, s) == \A k \in 1..Len(frames) : frames[k].of = "visit" => Visits(frames[k], s)

(* The stack and the calls on it, over the values of the caller.           *)
Same(s, t, n) == n <= Len(s) /\ n <= Len(t) /\ \A i \in 1..n : s[i] = t[i]
Framed(s, frames, under) ==
  /\ List(s) /\ List(frames) /\ List(under)
  /\ Frames(frames) /\ Chained(frames, under) /\ Visited(frames, s)
  /\ Same(s, under, Len(under))

Still == {"idle", IndexIsNil.at}
Pushes == {"push", "pushed", "notpushed"}
Answers == {"get", "got", "notgot", "threw", "raised"}
Returns == {"got", "notgot", "threw", "raised"}
Pushing ==
  /\ now.at \in Pushes /\ Fills(calls)
  /\ Len(stack) = Depth(calls, before) + (IF now.at = "pushed" THEN 1 ELSE 0)
Answering ==
  /\ now.at \in Answers /\ Gets(calls)
  /\ now.at = "get" => now.index \in 1..Len(stack)
  /\ Len(stack) = Depth(calls, before)
InLoop ==
  /\ now.at = "loop" /\ calls # <<>> /\ Len(stack) = Last(calls).base + 1
  /\ \/ Fills(Front(calls)) /\ Last(calls).of = "fill" /\ Last(calls).stage = "next"
     \/ Gets(calls) /\ Last(calls).of = "visit"

CallsInv ==
  /\ List(stack)
  /\ IF now.at \in Still THEN calls = <<>>
     ELSE Framed(stack, calls, before) /\ (Pushing \/ Answering \/ InLoop)
-----------------------------------------------------------------------------
(* Sequences of whatever they hold.                                        *)
LEMMA ListOf ==
  ASSUME NEW S, NEW s \in Seq(S)
  PROVE  List(s)
<1>1. \A i \in 1..Len(s) : s[i] \in {s[j] : j \in DOMAIN s}
  OBVIOUS
<1>2. s = [i \in 1..Len(s) |-> s[i]] /\ Len(s) \in Nat
  OBVIOUS
<1>3. s \in Seq({s[j] : j \in DOMAIN s})
  BY <1>1, <1>2
<1>4. QED
  BY <1>3 DEF List

LEMMA ListLen ==
  ASSUME NEW s, List(s)
  PROVE  /\ Len(s) \in Nat /\ DOMAIN s = 1..Len(s)
         /\ s # <<>> <=> Len(s) >= 1
<1> DEFINE S == {s[j] : j \in DOMAIN s}
<1>1. s \in Seq(S)
  BY DEF List
<1> HIDE DEF S
<1>2. QED
  BY <1>1

LEMMA ListEmpty == List(<<>>) /\ Len(<<>>) = 0
<1>1. <<>> \in Seq({})
  OBVIOUS
<1>2. QED
  BY <1>1, ListOf

LEMMA ListAppend ==
  ASSUME NEW s, List(s), NEW x
  PROVE  /\ List(Append(s, x)) /\ Len(Append(s, x)) = Len(s) + 1
         /\ \A i \in 1..Len(s) : Append(s, x)[i] = s[i]
         /\ Append(s, x)[Len(s) + 1] = x
<1> DEFINE S == {s[j] : j \in DOMAIN s}
           R == S \union {x}
<1>1. s \in Seq(S)
  BY DEF List
<1> HIDE DEF S
<1>2. s \in Seq(R) /\ x \in R
  BY <1>1
<1> HIDE DEF R
<1>3. /\ Append(s, x) \in Seq(R) /\ Len(Append(s, x)) = Len(s) + 1
      /\ \A i \in 1..Len(s) : Append(s, x)[i] = s[i]
      /\ Append(s, x)[Len(s) + 1] = x
  BY <1>2
<1>4. List(Append(s, x))
  BY <1>3, ListOf
<1>5. QED
  BY <1>3, <1>4

LEMMA ListPrefix ==
  ASSUME NEW s, List(s), NEW n \in 0..Len(s)
  PROVE  /\ List(SubSeq(s, 1, n)) /\ Len(SubSeq(s, 1, n)) = n
         /\ \A i \in 1..n : SubSeq(s, 1, n)[i] = s[i]
<1> DEFINE S == {s[j] : j \in DOMAIN s}
<1>1. s \in Seq(S)
  BY DEF List
<1> HIDE DEF S
<1>2. n \in Nat /\ n <= Len(s) /\ Len(s) \in Nat
  BY ListLen
<1>3. SubSeq(s, 1, n) \in Seq(S) /\ Len(SubSeq(s, 1, n)) = n
  BY <1>1, <1>2
<1>4. \A i \in 1..n : SubSeq(s, 1, n)[i] = s[i]
  BY <1>1, <1>2
<1>5. QED
  BY <1>3, <1>4, ListOf

LEMMA ListFront ==
  ASSUME NEW s, List(s), s # <<>>
  PROVE  /\ List(Front(s)) /\ Len(Front(s)) = Len(s) - 1
         /\ \A i \in 1..Len(s) - 1 : Front(s)[i] = s[i]
         /\ Len(s) \in Nat /\ Len(s) >= 1 /\ Last(s) = s[Len(s)]
<1>1. Len(s) \in Nat /\ Len(s) >= 1 /\ Len(s) - 1 \in 0..Len(s)
  BY ListLen
<1>2. /\ List(SubSeq(s, 1, Len(s) - 1)) /\ Len(SubSeq(s, 1, Len(s) - 1)) = Len(s) - 1
      /\ \A i \in 1..Len(s) - 1 : SubSeq(s, 1, Len(s) - 1)[i] = s[i]
  BY <1>1, ListPrefix
<1>3. QED
  BY <1>1, <1>2 DEF Front, Last

LEMMA ListExcept ==
  ASSUME NEW s, List(s), NEW n \in 1..Len(s), NEW x
  PROVE  /\ List([s EXCEPT ![n] = x]) /\ Len([s EXCEPT ![n] = x]) = Len(s)
         /\ \A i \in 1..Len(s) : i # n => [s EXCEPT ![n] = x][i] = s[i]
<1> DEFINE S == {s[j] : j \in DOMAIN s}
           R == S \union {x}
<1>1. s \in Seq(S)
  BY DEF List
<1> HIDE DEF S
<1>2. s \in Seq(R) /\ x \in R
  BY <1>1
<1> HIDE DEF R
<1>3. /\ [s EXCEPT ![n] = x] \in Seq(R) /\ Len([s EXCEPT ![n] = x]) = Len(s)
      /\ \A i \in 1..Len(s) : i # n => [s EXCEPT ![n] = x][i] = s[i]
  BY <1>2
<1>4. List([s EXCEPT ![n] = x])
  BY <1>3, ListOf
<1>5. QED
  BY <1>3, <1>4

LEMMA ListEqual ==
  ASSUME NEW s, List(s), NEW t, List(t), Len(s) = Len(t), \A i \in 1..Len(s) : s[i] = t[i]
  PROVE  s = t
<1> DEFINE S == {s[j] : j \in DOMAIN s}
           R == {t[j] : j \in DOMAIN t}
<1>1. s \in Seq(S) /\ t \in Seq(R)
  BY DEF List
<1> HIDE DEF S, R
<1>2. /\ s = [i \in 1..Len(s) |-> s[i]]
      /\ t = [i \in 1..Len(t) |-> t[i]]
  BY <1>1
<1>3. QED
  BY <1>2

(* Calls on the stack: one is made, one returns, the stack changes above   *)
(* what they hold.                                                         *)
LEMMA TopOf ==
  ASSUME NEW f, Frame(f)
  PROVE  f.base \in Nat /\ Top(f) \in Nat /\ Top(f) >= f.base
<1>1. Held(f) \in {0, 1, 2}
  BY DEF Held, Frame
<1>2. QED
  BY <1>1 DEF Frame, Top

LEMMA Heights ==
  ASSUME NEW frames, List(frames), Frames(frames), NEW s, List(s)
  PROVE  /\ \A k \in 0..Len(frames) : Height(frames, s, k) \in Nat
         /\ Len(frames) \in Nat /\ Depth(frames, s) \in Nat
         /\ Height(frames, s, 0) = Len(s)
         /\ \A k \in 1..Len(frames) : Height(frames, s, k) = Top(frames[k])
<1>1. Len(frames) \in Nat /\ Len(s) \in Nat
  BY ListLen
<1>2. \A k \in 1..Len(frames) : Top(frames[k]) \in Nat
  BY TopOf DEF Frames
<1>3. QED
  BY <1>1, <1>2 DEF Height, Depth

LEMMA CallMade ==
  ASSUME NEW s, NEW frames, NEW under, Framed(s, frames, under),
         NEW f, Frame(f), f.base = Depth(frames, under), f.of = "visit" => Visits(f, s)
  PROVE  /\ Framed(s, Append(frames, f), under)
         /\ Append(frames, f) # <<>> /\ Last(Append(frames, f)) = f
         /\ Front(Append(frames, f)) = frames /\ Depth(Append(frames, f), under) = Top(f)
         /\ Fills(frames) /\ f.of = "fill" /\ f.stage \in {"raw", "keyed", "key"}
              => Fills(Append(frames, f))
         /\ Gets(frames) /\ f.of # "fill" => Gets(Append(frames, f))
<1> DEFINE more == Append(frames, f)
           n == Len(frames)
<1>1. /\ List(s) /\ List(frames) /\ List(under)
      /\ Frames(frames) /\ Chained(frames, under) /\ Visited(frames, s)
      /\ Same(s, under, Len(under))
  BY DEF Framed
<1>2. /\ List(more) /\ Len(more) = n + 1 /\ n \in Nat /\ more[n + 1] = f
      /\ \A k \in 1..n : more[k] = frames[k]
  BY <1>1, ListAppend, ListLen
<1> HIDE DEF more
<1>3. Frames(more)
  BY <1>1, <1>2 DEF Frames
<1>4. /\ \A k \in 0..n : Height(more, under, k) = Height(frames, under, k)
      /\ Height(more, under, n + 1) = Top(f)
  BY <1>2 DEF Height
<1>5. /\ \A k \in 0..n : Height(frames, under, k) \in Nat
      /\ f.base = Height(frames, under, n) /\ Top(f) \in Nat /\ Top(f) >= f.base
  BY <1>1, Heights, TopOf DEF Depth
<1>6. \A k \in 1..n + 1 : more[k].base = Height(more, under, k - 1)
  <2> TAKE k \in 1..n + 1
  <2>1. CASE k = n + 1
    BY <2>1, <1>2, <1>4, <1>5
  <2>2. CASE k # n + 1
    <3>1. k \in 1..n /\ k - 1 \in 0..n
      BY <2>2, <1>2
    <3>2. frames[k].base = Height(frames, under, k - 1)
      BY <3>1, <1>1 DEF Chained
    <3>3. QED
      BY <3>1, <3>2, <1>2, <1>4
  <2>3. QED
    BY <2>1, <2>2
<1>7. \A j, k \in 0..n + 1 : j <= k => Height(more, under, j) <= Height(more, under, k)
  <2> SUFFICES ASSUME NEW j \in 0..n + 1, NEW k \in 0..n + 1, j <= k
               PROVE  Height(more, under, j) <= Height(more, under, k)
    OBVIOUS
  <2>1. \A i \in 0..n : Height(frames, under, i) <= Height(frames, under, n)
    BY <1>1, <1>2 DEF Chained
  <2>2. CASE k = n + 1 /\ j = n + 1
    BY <2>2, <1>4, <1>5
  <2>3. CASE k = n + 1 /\ j # n + 1
    <3>1. j \in 0..n /\ n \in 0..n
      BY <2>3, <1>2
    <3>2. QED
      BY <3>1, <2>1, <2>3, <1>4, <1>5
  <2>4. CASE k # n + 1
    <3>1. j \in 0..n /\ k \in 0..n
      BY <2>4, <1>2
    <3>2. QED
      BY <3>1, <1>1, <1>4 DEF Chained
  <2>5. QED
    BY <2>2, <2>3, <2>4
<1>8. Chained(more, under)
  BY <1>2, <1>6, <1>7 DEF Chained
<1>9. Visited(more, s)
  BY <1>1, <1>2 DEF Visited
<1>10. more # <<>> /\ Last(more) = f /\ Front(more) = frames
  <2>1. more # <<>> /\ Last(more) = f
    BY <1>2, ListLen DEF Last
  <2>2. List(Front(more)) /\ Len(Front(more)) = n /\ \A k \in 1..n : Front(more)[k] = more[k]
    BY <2>1, <1>2, ListFront
  <2>3. QED
    BY <2>1, <2>2, <1>1, <1>2, ListEqual
<1>11. /\ Fills(frames) /\ f.of = "fill" /\ f.stage \in {"raw", "keyed", "key"} => Fills(more)
       /\ Gets(frames) /\ f.of # "fill" => Gets(more)
  BY <1>2 DEF Fills, Gets
<1>12. Depth(more, under) = Top(f)
  BY <1>2, <1>4 DEF Depth
<1>13. QED
  BY <1>1, <1>2, <1>3, <1>8, <1>9, <1>10, <1>11, <1>12 DEF Framed, more

LEMMA CallEnds ==
  ASSUME NEW s, NEW frames, NEW under, Framed(s, frames, under), frames # <<>>
  PROVE  /\ Framed(s, Front(frames), under)
         /\ Frame(Last(frames)) /\ Last(frames).base = Depth(Front(frames), under)
         /\ Depth(frames, under) = Top(Last(frames))
         /\ Last(frames).of = "visit" => Visits(Last(frames), s)
         /\ Fills(frames) => /\ Last(frames).of = "fill" /\ Fills(Front(frames))
                             /\ Last(frames).stage \in {"raw", "keyed", "key"}
         /\ Gets(frames) => Last(frames).of # "fill" /\ Gets(Front(frames))
<1> DEFINE less == Front(frames)
           n == Len(frames) - 1
<1>1. /\ List(s) /\ List(frames) /\ List(under)
      /\ Frames(frames) /\ Chained(frames, under) /\ Visited(frames, s)
      /\ Same(s, under, Len(under))
  BY DEF Framed
<1>2. /\ List(less) /\ Len(less) = n /\ n \in Nat /\ Len(frames) = n + 1
      /\ Last(frames) = frames[n + 1] /\ n + 1 \in 1..Len(frames)
      /\ \A k \in 1..n : less[k] = frames[k]
  BY <1>1, ListFront
<1> HIDE DEF less, n
<1>3. \A k \in 0..n : Height(less, under, k) = Height(frames, under, k)
  BY <1>2 DEF Height
<1>4. Frames(less) /\ Frame(Last(frames))
  BY <1>1, <1>2 DEF Frames
<1>5. \A k \in 1..n : less[k].base = Height(less, under, k - 1)
  <2> TAKE k \in 1..n
  <2>1. k \in 1..Len(frames) /\ k - 1 \in 0..n
    BY <1>2
  <2>2. frames[k].base = Height(frames, under, k - 1)
    BY <2>1, <1>1 DEF Chained
  <2>3. QED
    BY <2>1, <2>2, <1>2, <1>3
<1>6. Chained(less, under)
  <2>1. \A j, k \in 0..n : j <= k => Height(frames, under, j) <= Height(frames, under, k)
    BY <1>1, <1>2 DEF Chained
  <2>2. QED
    BY <2>1, <1>2, <1>3, <1>5 DEF Chained
<1>7. Last(frames).base = Depth(less, under)
  <2>1. frames[n + 1].base = Height(frames, under, n)
    <3>1. frames[n + 1].base = Height(frames, under, (n + 1) - 1)
      BY <1>1, <1>2 DEF Chained
    <3>2. (n + 1) - 1 = n
      BY <1>2
    <3>3. QED
      BY <3>1, <3>2
  <2>2. QED
    BY <2>1, <1>2, <1>3 DEF Depth
<1>8. Visited(less, s) /\ (Last(frames).of = "visit" => Visits(Last(frames), s))
  BY <1>1, <1>2 DEF Visited
<1>9. /\ Fills(frames) => /\ Last(frames).of = "fill" /\ Fills(less)
                        /\ Last(frames).stage \in {"raw", "keyed", "key"}
      /\ Gets(frames) => Last(frames).of # "fill" /\ Gets(less)
  BY <1>2 DEF Fills, Gets
<1>10. Depth(frames, under) = Top(Last(frames))
  BY <1>2 DEF Depth, Height
<1>11. QED
  BY <1>1, <1>2, <1>4, <1>6, <1>7, <1>8, <1>9, <1>10 DEF Framed, less

(* Only what is above the calls changes.                                   *)
LEMMA ChangedAbove ==
  ASSUME NEW s, NEW frames, NEW under, Framed(s, frames, under),
         NEW t, List(t), Same(t, s, Depth(frames, under))
  PROVE  Framed(t, frames, under)
<1> DEFINE d == Depth(frames, under)
<1>1. /\ List(s) /\ List(frames) /\ List(under)
      /\ Frames(frames) /\ Chained(frames, under) /\ Visited(frames, s)
      /\ Same(s, under, Len(under))
  BY DEF Framed
<1>2. /\ d \in Nat /\ d <= Len(t) /\ \A i \in 1..d : t[i] = s[i]
      /\ Len(t) \in Nat /\ Len(s) \in Nat /\ Len(under) \in Nat
  BY <1>1, Heights, ListLen DEF Same
<1>3. /\ Len(frames) \in Nat /\ d = Height(frames, under, Len(frames))
      /\ Height(frames, under, 0) = Len(under)
      /\ \A k \in 1..Len(frames) : Height(frames, under, k) = Top(frames[k])
  BY <1>1, Heights DEF Depth
<1>4. \A k \in 0..Len(frames) : Height(frames, under, k) <= d
  BY <1>1, <1>3 DEF Chained
<1> HIDE DEF d
<1>5. Same(t, under, Len(under))
  <2>1. Len(under) <= d
    BY <1>3, <1>4
  <2>2. QED
    BY <2>1, <1>1, <1>2 DEF Same
<1>6. Visited(frames, t)
  <2> SUFFICES ASSUME NEW k \in 1..Len(frames), frames[k].of = "visit"
               PROVE  Visits(frames[k], t)
    BY DEF Visited
  <2>1. Visits(frames[k], s) /\ Frame(frames[k])
    BY <1>1 DEF Visited, Frames
  <2>2. frames[k].base \in Nat /\ frames[k].index \in 1..frames[k].base
    BY <2>1 DEF Frame
  <2>3. frames[k].base + 2 <= d
    <3>1. Top(frames[k]) = frames[k].base + 2
      BY DEF Top, Held
    <3>2. QED
      BY <3>1, <1>3, <1>4
  <2>4. /\ frames[k].base + 1 \in 1..d /\ frames[k].index \in 1..d
        /\ frames[k].base + 1 <= Len(t)
    BY <2>2, <2>3, <1>2
  <2>5. t[frames[k].base + 1] = s[frames[k].base + 1] /\ t[frames[k].index] = s[frames[k].index]
    BY <2>4, <1>2
  <2>6. QED
    BY <2>1, <2>4, <2>5 DEF Visits
<1>7. QED
  BY <1>1, <1>5, <1>6 DEF Framed

(* The call on top returns or goes on, the stack having changed above its  *)
(* base.                                                                   *)
LEMMA CallGoesOn ==
  ASSUME NEW s, NEW frames, NEW under, Framed(s, frames, under), frames # <<>>,
         NEW t, List(t), Same(t, s, Last(frames).base),
         NEW f, Frame(f), f.base = Last(frames).base, f.of = "visit" => Visits(f, t)
  PROVE  /\ Framed(t, Append(Front(frames), f), under)
         /\ Append(Front(frames), f) # <<>> /\ Last(Append(Front(frames), f)) = f
         /\ Front(Append(Front(frames), f)) = Front(frames)
         /\ Depth(Append(Front(frames), f), under) = Top(f)
         /\ Fills(Front(frames)) /\ f.of = "fill" /\ f.stage \in {"raw", "keyed", "key"}
              => Fills(Append(Front(frames), f))
         /\ Gets(Front(frames)) /\ f.of # "fill" => Gets(Append(Front(frames), f))
<1>1. /\ Framed(s, Front(frames), under)
      /\ Last(frames).base = Depth(Front(frames), under)
  BY CallEnds
<1>2. Framed(t, Front(frames), under)
  BY <1>1, ChangedAbove
<1>3. f.base = Depth(Front(frames), under)
  BY <1>1
<1>4. QED
  BY <1>2, <1>3, CallMade

LEMMA CallReturns ==
  ASSUME NEW s, NEW frames, NEW under, Framed(s, frames, under), frames # <<>>,
         NEW t, List(t), Same(t, s, Last(frames).base)
  PROVE  /\ Framed(t, Front(frames), under)
         /\ Depth(Front(frames), under) = Last(frames).base /\ Last(frames).base \in Nat
         /\ Fills(frames) => Fills(Front(frames))
         /\ Gets(frames) => Gets(Front(frames))
<1>1. /\ Framed(s, Front(frames), under)
      /\ Last(frames).base = Depth(Front(frames), under) /\ Frame(Last(frames))
      /\ Fills(frames) => Fills(Front(frames))
      /\ Gets(frames) => Gets(Front(frames))
  BY CallEnds
<1>2. Framed(t, Front(frames), under)
  BY <1>1, ChangedAbove
<1>3. QED
  BY <1>1, <1>2 DEF Frame

(* A prefix of a stack is the same up to its length, and so is a longer    *)
(* one.                                                                    *)
LEMMA SameItself ==
  ASSUME NEW s, List(s), NEW n \in Nat, n <= Len(s)
  PROVE  Same(s, s, n)
BY ListLen DEF Same

LEMMA SameAppended ==
  ASSUME NEW s, List(s), NEW x, NEW n \in Nat, n <= Len(s)
  PROVE  List(Append(s, x)) /\ Len(Append(s, x)) = Len(s) + 1 /\ Same(Append(s, x), s, n)
<1>1. /\ Len(s) \in Nat /\ List(Append(s, x)) /\ Len(Append(s, x)) = Len(s) + 1
      /\ \A i \in 1..Len(s) : Append(s, x)[i] = s[i]
  BY ListLen, ListAppend
<1>2. QED
  BY <1>1 DEF Same

LEMMA SameRestored ==
  ASSUME NEW s, List(s), NEW n \in Nat, n <= Len(s)
  PROVE  List(Restored(s, n)) /\ Len(Restored(s, n)) = n /\ Same(Restored(s, n), s, n)
<1>1. Len(s) \in Nat /\ n \in 0..Len(s)
  BY ListLen
<1>2. /\ List(SubSeq(s, 1, n)) /\ Len(SubSeq(s, 1, n)) = n
      /\ \A i \in 1..n : SubSeq(s, 1, n)[i] = s[i]
  BY <1>1, ListPrefix
<1>3. QED
  BY <1>1, <1>2 DEF Same, Restored

(* What a push leaves in the table at n + 1, on top of the stack.          *)
LEMMA StoredAbove ==
  ASSUME NEW s, List(s), NEW n \in Nat, NEW popped \in {1, 2}, NEW key,
         Len(s) = n + 1 + popped
  PROVE  LET t == Stored(s, n + 1, key, popped)
         IN  List(t) /\ Len(t) = n + 1 /\ Same(t, s, n)
<1> DEFINE below == SubSeq(s, 1, Len(s) - popped)
           table == Table(Append(s[n + 1][2], <<key, Last(s)>>))
           t == Stored(s, n + 1, key, popped)
<1>1. Len(s) - popped = n + 1 /\ n + 1 \in 0..Len(s) /\ Len(s) \in Nat
  BY ListLen
<1>2. List(below) /\ Len(below) = n + 1 /\ \A i \in 1..n + 1 : below[i] = s[i]
  BY <1>1, ListPrefix
<1>3. t = below \/ t = [below EXCEPT ![n + 1] = table]
  BY DEF Stored
<1> HIDE DEF below, table, t
<1>4. n + 1 \in 1..Len(below)
  BY <1>2
<1> DEFINE m == n + 1
           changed == [below EXCEPT ![m] = table]
<1>5. /\ List(changed) /\ Len(changed) = n + 1
      /\ \A i \in 1..n + 1 : i # n + 1 => changed[i] = below[i]
  <2>1. m \in 1..Len(below) /\ List(below)
    BY <1>2, <1>4
  <2> HIDE DEF m
  <2>2. /\ List(changed) /\ Len(changed) = Len(below)
        /\ \A i \in 1..Len(below) : i # m => changed[i] = below[i]
    BY <2>1, ListExcept
  <2> HIDE DEF changed
  <2>3. QED
    BY <2>2, <1>2 DEF m
<1>6. List(t) /\ Len(t) = n + 1
  BY <1>2, <1>3, <1>5
<1>7. \A i \in 1..n : t[i] = s[i]
  <2> TAKE i \in 1..n
  <2>1. i \in 1..n + 1 /\ i # n + 1
    OBVIOUS
  <2>2. QED
    BY <2>1, <1>2, <1>3, <1>5
<1>8. Same(t, s, n)
  BY <1>1, <1>6, <1>7 DEF Same
<1>9. QED
  BY <1>6, <1>8 DEF t
-----------------------------------------------------------------------------
(* The steps of a push.                                                    *)
LEMMA PushingNow ==
  ASSUME CallsInv, now.at \in Pushes
  PROVE  /\ Framed(stack, calls, before) /\ Fills(calls) /\ List(stack)
         /\ Len(stack) = Depth(calls, before) + (IF now.at = "pushed" THEN 1 ELSE 0)
         /\ Depth(calls, before) \in Nat /\ Len(stack) \in Nat
<1>1. /\ Framed(stack, calls, before) /\ Fills(calls) /\ List(stack)
      /\ Len(stack) = Depth(calls, before) + (IF now.at = "pushed" THEN 1 ELSE 0)
  BY DEF CallsInv, Pushes, Still, Answering, Answers, Pushing, InLoop, IndexIsNil, At
<1>2. Depth(calls, before) \in Nat /\ Len(stack) \in Nat
  BY <1>1, Heights, ListLen DEF Framed
<1>3. QED
  BY <1>1, <1>2

LEMMA PushingThen ==
  ASSUME Framed(stack, calls, before)', Fills(calls)', now'.at \in Pushes,
         Len(stack') = Depth(calls', before') + (IF now'.at = "pushed" THEN 1 ELSE 0)
  PROVE  CallsInv'
BY DEF CallsInv, Pushing, Pushes, Still, IndexIsNil, At, Framed

LEMMA PushOneInv ==
  ASSUME CallsInv, PushOne
  PROVE  CallsInv'
<1>1. now.at = "push" /\ calls' = calls /\ before' = before
  BY DEF PushOne, Aside
<1>2. /\ Framed(stack, calls, before) /\ Fills(calls) /\ List(stack)
      /\ Len(stack) = Depth(calls, before)
      /\ Depth(calls, before) \in Nat /\ Len(stack) \in Nat
  BY <1>1, PushingNow DEF Pushes
<1>3. CASE \E x : stack' = Append(stack, x) /\ now' = Pushed
  <2>1. PICK x : stack' = Append(stack, x) /\ now' = Pushed
    BY <1>3
  <2>2. /\ List(stack') /\ Len(stack') = Len(stack) + 1
        /\ Same(stack', stack, Depth(calls, before))
    BY <2>1, <1>2, SameAppended
  <2>3. Framed(stack', calls, before)
    BY <2>2, <1>2, ChangedAbove
  <2>4. now'.at = "pushed"
    BY <2>1 DEF Pushed, At
  <2>5. QED
    BY <2>2, <2>3, <2>4, <1>1, <1>2, PushingThen DEF Pushes
<1>4. CASE now' = NotPushed /\ stack' = stack
  <2>1. now'.at = "notpushed"
    BY <1>4 DEF NotPushed, At
  <2>2. QED
    BY <2>1, <1>1, <1>2, <1>4, PushingThen DEF Pushes
<1>5. QED
  BY <1>3, <1>4 DEF PushOne

LEMMA PushWrappedInv ==
  ASSUME CallsInv, PushWrapped
  PROVE  CallsInv'
<1>1. now.at = "push" /\ calls' = calls /\ before' = before /\ stack' = stack
  BY DEF PushWrapped, Aside
<1>2. /\ Framed(stack, calls, before) /\ Fills(calls) /\ List(stack)
      /\ Len(stack) = Depth(calls, before)
  BY <1>1, PushingNow DEF Pushes
<1>3. now'.at \in {"push", "notpushed"}
  <2>1. CASE now.type[1] \in Wrappers
    BY <2>1 DEF PushWrapped, ToPush, At, Wrappers
  <2>2. CASE now.type[1] = "variant"
    BY <2>2 DEF PushWrapped, ToPush, At, Wrappers
  <2>3. CASE now.type[1] = "any"
    BY <2>3 DEF PushWrapped, ToPush, NotPushed, At, Wrappers
  <2>4. QED
    BY <2>1, <2>2, <2>3 DEF PushWrapped, Wraps
<1>4. QED
  BY <1>1, <1>2, <1>3, PushingThen DEF Pushes

LEMMA BuildInv ==
  ASSUME CallsInv, Build
  PROVE  CallsInv'
<1>1. now.at = "push" /\ now.type[1] \in Containers /\ before' = before
  BY DEF Build, Aside
<1>2. /\ Framed(stack, calls, before) /\ Fills(calls) /\ List(stack)
      /\ Len(stack) = Depth(calls, before)
      /\ Depth(calls, before) \in Nat /\ Len(stack) \in Nat
  BY <1>1, PushingNow DEF Pushes
<1>3. CASE now' = NotPushed /\ stack' = stack /\ calls' = calls
  <2>1. now'.at = "notpushed"
    BY <1>3 DEF NotPushed, At
  <2>2. QED
    BY <2>1, <1>1, <1>2, <1>3, PushingThen DEF Pushes
<1>4. CASE ~(now' = NotPushed /\ stack' = stack /\ calls' = calls)
  <2> DEFINE f == FillFrame(now.type, Len(stack), Entries(now.type, now.value), "next")
  <2>1. stack' = Append(stack, Table(<<>>)) /\ calls' = Append(calls, f) /\ now' = Looping
    BY <1>4 DEF Build, Call
  <2>2. /\ List(stack') /\ Len(stack') = Len(stack) + 1
        /\ Same(stack', stack, Depth(calls, before))
    BY <2>1, <1>2, SameAppended
  <2>3. Framed(stack', calls, before)
    BY <2>2, <1>2, ChangedAbove
  <2>4. f.of = "fill" /\ f.base = Len(stack) /\ f.stage = "next" /\ f.type = now.type
    BY DEF FillFrame
  <2> HIDE DEF f
  <2>5. Frame(f) /\ f.base = Depth(calls, before)
    BY <2>4, <1>1, <1>2 DEF Frame, Containers
  <2>6. /\ Framed(stack', calls', before) /\ calls' # <<>> /\ Last(calls') = f
        /\ Front(calls') = calls
    BY <2>1, <2>3, <2>4, <2>5, CallMade
  <2>7. now'.at = "loop"
    BY <2>1 DEF Looping, At
  <2>8. InLoop'
    BY <2>2, <2>4, <2>6, <2>7, <1>2 DEF InLoop
  <2>9. QED
    BY <2>2, <2>6, <2>7, <2>8, <1>1 DEF CallsInv, Still, IndexIsNil, At
<1>5. QED
  BY <1>3, <1>4

LEMMA LoopingNow ==
  ASSUME CallsInv, now.at = "loop"
  PROVE  /\ Framed(stack, calls, before) /\ List(stack) /\ calls # <<>>
         /\ Frame(Last(calls)) /\ Last(calls).base \in Nat /\ Len(stack) = Last(calls).base + 1
         /\ Last(calls).of = "fill" => Fills(Front(calls)) /\ Last(calls).stage = "next"
         /\ Last(calls).of = "visit" => Gets(Front(calls)) /\ Visits(Last(calls), stack)
<1>1. Framed(stack, calls, before) /\ List(stack) /\ InLoop
  BY DEF CallsInv, Pushes, Still, Answering, Answers, Pushing, InLoop, IndexIsNil, At
<1>2. /\ calls # <<>> /\ Len(stack) = Last(calls).base + 1
      /\ \/ Fills(Front(calls)) /\ Last(calls).of = "fill" /\ Last(calls).stage = "next"
         \/ Gets(calls) /\ Last(calls).of = "visit"
  BY <1>1 DEF InLoop
<1>3. /\ Frame(Last(calls))
      /\ Last(calls).of = "visit" => Visits(Last(calls), stack)
      /\ Gets(calls) => Last(calls).of # "fill" /\ Gets(Front(calls))
  BY <1>1, <1>2, CallEnds
<1>4. QED
  BY <1>1, <1>2, <1>3 DEF Frame

(* A frame for the element, or the key, that is pushed next.               *)
LEMMA FillsOn ==
  ASSUME Framed(stack, calls, before), calls # <<>>, Last(calls).of = "fill",
         Fills(Front(calls)), before' = before,
         List(stack'), Same(stack', stack, Last(calls).base),
         NEW stage \in {"raw", "keyed", "key"}, NEW to, to.at = "push",
         Filling(Last(calls), stage, to),
         Len(stack') = Last(calls).base + (IF stage = "keyed" THEN 2 ELSE 1)
  PROVE  CallsInv'
<1> DEFINE f == FillFrame(Last(calls).type, Last(calls).base, Last(calls).items, stage)
<1>1. calls' = Append(Front(calls), f) /\ now' = to
  BY DEF Filling, Goto
<1>2. f.of = "fill" /\ f.base = Last(calls).base /\ f.stage = stage /\ f.type = Last(calls).type
  BY DEF FillFrame
<1> HIDE DEF f
<1>3. Frame(Last(calls))
  BY CallEnds
<1>4. Frame(f)
  BY <1>2, <1>3 DEF Frame
<1>5. /\ Framed(stack', calls', before) /\ Depth(calls', before) = Top(f)
      /\ Fills(calls')
  BY <1>1, <1>2, <1>4, CallGoesOn
<1>6. Top(f) = Len(stack')
  BY <1>2 DEF Top, Held
<1>7. QED
  BY <1>1, <1>5, <1>6, PushingThen DEF Pushes

LEMMA FillInv ==
  ASSUME CallsInv, Fill
  PROVE  CallsInv'
<1> DEFINE item == Head(Caller.items)
<1>1. /\ now.at = "loop" /\ calls # <<>> /\ Last(calls).of = "fill" /\ before' = before
      /\ Caller = Last(calls)
  BY DEF Fill, Aside, Waiting, Caller
<1>2. /\ Framed(stack, calls, before) /\ List(stack)
      /\ Last(calls).base \in Nat /\ Len(stack) = Last(calls).base + 1
      /\ Fills(Front(calls))
  BY <1>1, LoopingNow
<1>3. /\ ToPush(item.type, item.value).at = "push"
      /\ ToPush(item.keyType, item.key).at = "push"
  BY DEF ToPush, At
<1>4. Same(stack, stack, Last(calls).base)
  BY <1>2, SameItself
<1>5. CASE stack' = stack /\ Filling(Caller, "raw", ToPush(item.type, item.value))
  BY <1>5, <1>1, <1>2, <1>3, <1>4, FillsOn
<1>6. CASE stack' = stack /\ Filling(Caller, "key", ToPush(item.keyType, item.key))
  BY <1>6, <1>1, <1>2, <1>3, <1>4, FillsOn
<1>7. CASE /\ stack' = Append(stack, Number(2 * item.key))
           /\ Filling(Caller, "keyed", ToPush(item.type, item.value))
  <2>1. /\ List(stack') /\ Len(stack') = Last(calls).base + 2
        /\ Same(stack', stack, Last(calls).base)
    BY <1>7, <1>2, SameAppended
  <2>2. QED
    BY <2>1, <1>7, <1>1, <1>2, <1>3, FillsOn
<1>8. QED
  BY <1>5, <1>6, <1>7 DEF Fill

LEMMA FillKeyedInv ==
  ASSUME CallsInv, FillKeyed
  PROVE  CallsInv'
<1> DEFINE item == Head(Caller.items)
<1>1. /\ now.at = "pushed" /\ calls # <<>> /\ Last(calls).of = "fill" /\ before' = before
      /\ Last(calls).stage = "key" /\ Caller = Last(calls) /\ stack' = stack
      /\ Filling(Last(calls), "keyed", ToPush(item.type, item.value))
  BY DEF FillKeyed, Aside, Waiting, Caller
<1>2. /\ Framed(stack, calls, before) /\ Fills(calls) /\ List(stack)
      /\ Len(stack) = Depth(calls, before) + 1
  BY <1>1, PushingNow DEF Pushes
<1>3. /\ Frame(Last(calls)) /\ Fills(Front(calls))
      /\ Depth(calls, before) = Top(Last(calls))
  BY <1>1, <1>2, CallEnds
<1>4. Last(calls).base \in Nat /\ Len(stack) = Last(calls).base + 2
  BY <1>1, <1>2, <1>3 DEF Frame, Top, Held
<1>5. Same(stack, stack, Last(calls).base)
  BY <1>2, <1>4, SameItself
<1>6. ToPush(item.type, item.value).at = "push"
  BY DEF ToPush, At
<1>7. QED
  BY <1>1, <1>2, <1>3, <1>4, <1>5, <1>6, FillsOn

LEMMA StoreInv ==
  ASSUME CallsInv, Store
  PROVE  CallsInv'
<1> DEFINE f == FillFrame(Last(calls).type, Last(calls).base, Tail(Last(calls).items), "next")
           raw == Last(calls).stage = "raw"
           key == IF raw THEN Number(2 * Head(Last(calls).items).key) ELSE stack[Len(stack) - 1]
           popped == IF raw THEN 1 ELSE 2
<1>1. /\ now.at = "pushed" /\ calls # <<>> /\ Last(calls).of = "fill" /\ before' = before
      /\ Last(calls).stage \in {"raw", "keyed"} /\ Caller = Last(calls)
  BY DEF Store, Aside, Waiting, Caller
<1>2. /\ Framed(stack, calls, before) /\ Fills(calls) /\ List(stack)
      /\ Len(stack) = Depth(calls, before) + 1
  BY <1>1, PushingNow DEF Pushes
<1>3. /\ Frame(Last(calls)) /\ Fills(Front(calls))
      /\ Depth(calls, before) = Top(Last(calls))
  BY <1>1, <1>2, CallEnds
<1>4. CASE Raise(IndexIsNil)
  BY <1>4, ListEmpty DEF Raise, CallsInv, Still
<1>5. CASE /\ stack' = Stored(stack, Last(calls).base + 1, key, popped)
           /\ Goto(f, Looping)
  <2>1. /\ popped \in {1, 2} /\ Last(calls).base \in Nat
        /\ Len(stack) = Last(calls).base + 1 + popped
    BY <1>1, <1>2, <1>3 DEF Frame, Top, Held
  <2> HIDE DEF key, popped
  <2>2. /\ List(stack') /\ Len(stack') = Last(calls).base + 1
        /\ Same(stack', stack, Last(calls).base)
    BY <2>1, <1>2, <1>5, StoredAbove
  <2>3. calls' = Append(Front(calls), f) /\ now'.at = "loop"
    BY <1>5 DEF Goto, Looping, At
  <2>4. /\ f.of = "fill" /\ f.base = Last(calls).base /\ f.stage = "next"
        /\ f.type = Last(calls).type
    BY DEF FillFrame
  <2> HIDE DEF f
  <2>5. Frame(f)
    BY <2>4, <1>3 DEF Frame
  <2>6. /\ Framed(stack', calls', before) /\ calls' # <<>> /\ Last(calls') = f
        /\ Front(calls') = Front(calls)
    BY <2>2, <2>3, <2>4, <2>5, <1>1, <1>2, CallGoesOn
  <2>7. InLoop'
    BY <2>2, <2>3, <2>4, <2>6, <1>3 DEF InLoop
  <2>8. QED
    BY <2>2, <2>3, <2>6, <2>7, <1>1 DEF CallsInv, Still, IndexIsNil, At
<1>6. QED
  BY <1>4, <1>5, <1>1 DEF Store

LEMMA FilledInv ==
  ASSUME CallsInv, Filled
  PROVE  CallsInv'
<1>1. /\ now.at = "loop" /\ calls # <<>> /\ Last(calls).of = "fill" /\ before' = before
      /\ stack' \in Layouts(Last(calls).type, stack)
      /\ calls' = Front(calls) /\ now' = Pushed
  BY DEF Filled, Aside, Waiting, Caller, Return
<1>2. /\ Framed(stack, calls, before) /\ List(stack)
      /\ Last(calls).base \in Nat /\ Len(stack) = Last(calls).base + 1
      /\ Fills(Front(calls))
  BY <1>1, LoopingNow
<1>3. stack # <<>> /\ Len(stack) \in Nat
  BY <1>2, ListLen
<1>4. /\ List(Front(stack)) /\ Len(Front(stack)) = Last(calls).base
      /\ \A i \in 1..Last(calls).base : Front(stack)[i] = stack[i]
  BY <1>2, <1>3, ListFront
<1>5. List(stack') /\ Len(stack') = Len(stack) /\ Same(stack', stack, Last(calls).base)
  <2>1. CASE stack' = stack
    BY <2>1, <1>2, SameItself
  <2>2. CASE \E x : stack' = Append(Front(stack), x)
    <3>1. PICK x : stack' = Append(Front(stack), x)
      BY <2>2
    <3>2. /\ List(stack') /\ Len(stack') = Len(Front(stack)) + 1
          /\ Same(stack', Front(stack), Last(calls).base)
      BY <3>1, <1>2, <1>4, SameAppended
    <3>3. QED
      BY <3>2, <1>2, <1>4 DEF Same
  <2>3. QED
    BY <2>1, <2>2, <1>1 DEF Layouts
<1>6. /\ Framed(stack', calls', before)
      /\ Depth(calls', before) = Last(calls).base
  BY <1>1, <1>2, <1>5, CallReturns
<1>7. now'.at = "pushed"
  BY <1>1 DEF Pushed, At
<1>8. QED
  BY <1>1, <1>2, <1>5, <1>6, <1>7, PushingThen DEF Pushes

LEMMA FillFailedInv ==
  ASSUME CallsInv, FillFailed
  PROVE  CallsInv'
<1>1. /\ now.at = "notpushed" /\ calls # <<>> /\ Last(calls).of = "fill" /\ before' = before
      /\ stack' = Restored(stack, Last(calls).base)
      /\ calls' = Front(calls) /\ now' = NotPushed
  BY DEF FillFailed, Aside, Waiting, Caller, Return
<1>2. /\ Framed(stack, calls, before) /\ Fills(calls) /\ List(stack)
      /\ Len(stack) = Depth(calls, before) /\ Len(stack) \in Nat
  BY <1>1, PushingNow DEF Pushes
<1>3. /\ Frame(Last(calls)) /\ Fills(Front(calls))
      /\ Depth(calls, before) = Top(Last(calls))
  BY <1>1, <1>2, CallEnds
<1>4. Last(calls).base \in Nat /\ Last(calls).base <= Len(stack)
  BY <1>2, <1>3, TopOf
<1>5. /\ List(stack') /\ Len(stack') = Last(calls).base
      /\ Same(stack', stack, Last(calls).base)
  BY <1>1, <1>2, <1>4, SameRestored
<1>6. /\ Framed(stack', calls', before)
      /\ Depth(calls', before) = Last(calls).base
  BY <1>1, <1>2, <1>5, CallReturns
<1>7. now'.at = "notpushed"
  BY <1>1 DEF NotPushed, At
<1>8. QED
  BY <1>1, <1>3, <1>4, <1>5, <1>6, <1>7, PushingThen DEF Pushes
-----------------------------------------------------------------------------
(* The steps of a get.                                                     *)
LEMMA AnsweringNow ==
  ASSUME CallsInv, now.at \in Answers
  PROVE  /\ Framed(stack, calls, before) /\ Gets(calls) /\ List(stack)
         /\ Len(stack) = Depth(calls, before) /\ Len(stack) \in Nat
         /\ now.at = "get" => now.index \in 1..Len(stack)
<1>1. /\ Framed(stack, calls, before) /\ Gets(calls) /\ List(stack)
      /\ Len(stack) = Depth(calls, before)
      /\ now.at = "get" => now.index \in 1..Len(stack)
  BY DEF CallsInv, Pushes, Still, Answering, Answers, Pushing, InLoop, IndexIsNil, At
<1>2. QED
  BY <1>1, ListLen

LEMMA AnsweringThen ==
  ASSUME Framed(stack, calls, before)', Gets(calls)', now'.at \in Answers,
         now'.at = "get" => now'.index \in 1..Len(stack'),
         Len(stack') = Depth(calls', before')
  PROVE  CallsInv'
BY DEF CallsInv, Answering, Answers, Still, IndexIsNil, At, Framed

(* The call on top returns to the one that waits for it.                   *)
LEMMA ReturnsAt ==
  ASSUME Framed(stack, calls, before), calls # <<>>, Gets(Front(calls)), before' = before,
         List(stack'), Len(stack') = Last(calls).base, Same(stack', stack, Last(calls).base),
         NEW result, Return(result), result.at \in Returns
  PROVE  CallsInv'
<1>1. /\ Framed(stack', Front(calls), before)
      /\ Depth(Front(calls), before) = Last(calls).base
  BY CallReturns
<1>2. calls' = Front(calls) /\ now' = result
  BY DEF Return
<1>3. QED
  BY <1>1, <1>2, AnsweringThen DEF Answers, Returns

LEMMA ReturnsTo ==
  ASSUME CallsInv, now.at \in Answers, calls # <<>>, before' = before,
         \/ stack' = Restored(stack, Last(calls).base)
         \/ (Last(calls).of \in {"try", "wrap"} /\ stack' = stack),
         NEW result, Return(result), result.at \in Returns
  PROVE  CallsInv'
<1>1. /\ Framed(stack, calls, before) /\ Gets(calls) /\ List(stack)
      /\ Len(stack) = Depth(calls, before) /\ Len(stack) \in Nat
  BY AnsweringNow
<1>2. /\ Frame(Last(calls)) /\ Gets(Front(calls))
      /\ Depth(calls, before) = Top(Last(calls))
  <2>1. calls # <<>>
    OBVIOUS
  <2>2. QED
    BY ONLY <2>1, <1>1, CallEnds
<1>3. Last(calls).base \in Nat /\ Last(calls).base <= Len(stack)
  BY <1>1, <1>2, TopOf
<1>4. /\ List(stack') /\ Len(stack') = Last(calls).base
      /\ Same(stack', stack, Last(calls).base)
  <2>1. CASE stack' = Restored(stack, Last(calls).base)
    BY <2>1, <1>1, <1>3, SameRestored
  <2>2. CASE Last(calls).of \in {"try", "wrap"} /\ stack' = stack
    <3>1. Len(stack) = Last(calls).base
      BY <2>2, <1>1, <1>2, <1>3 DEF Top, Held
    <3>2. QED
      BY <3>1, <2>2, <1>1, <1>3, SameItself
  <2>3. QED
    BY <2>1, <2>2
<1>5. QED
  BY <1>1, <1>2, <1>4, ReturnsAt

LEMMA GetOneIs ==
  ASSUME GetOne
  PROVE  /\ now.at = "get" /\ stack' = stack
         /\ now.type[1] \notin Containers \union Wrappers \union {"variant"}
         /\ \/ \E v \in FromLua(now.type, stack[now.index]) : now' = Got(now.type, v, now.index)
            \/ /\ FromLua(now.type, stack[now.index]) = {}
               /\ now' = NotGot(now.type, now.index)
<1> DEFINE values == FromLua(now.type, stack[now.index])
           told == Told(now.type, stack[now.index])
<1>1. stack' = stack
  BY DEF GetOne, ConvertedCopy
<1> HIDE DEF values, told
<1>2. /\ now.at = "get" /\ now.type[1] \notin Containers \union Wrappers \union {"variant"}
      /\ \/ \E v \in values : now' = Got(now.type, v, now.index)
         \/ values = {} /\ told # "bad argument" /\ now' = NotGot(now.type, now.index)
  BY DEF GetOne, values, told
<1>3. QED
  BY <1>1, <1>2 DEF values

LEMMA GetOneInv ==
  ASSUME CallsInv, GetOne
  PROVE  CallsInv'
<1>1. /\ now.at = "get" /\ stack' = stack /\ calls' = calls /\ before' = before
      /\ now'.at \in {"got", "notgot"}
  <2>1. calls' = calls /\ before' = before
    BY DEF GetOne, Aside
  <2>2. QED
    BY <2>1, GetOneIs DEF Got, NotGot, At
<1>2. /\ Framed(stack, calls, before) /\ Gets(calls)
      /\ Len(stack) = Depth(calls, before)
  BY <1>1, AnsweringNow DEF Answers
<1>3. QED
  BY <1>1, <1>2, AnsweringThen DEF Answers

(* An argument is refused by an exception or an error of Lua, which goes   *)
(* through the calls that wait.                                            *)
LEMMA LeftAt ==
  ASSUME BadArgument \/ Leave
  PROVE  now'.at \in {"threw", "raised"}
<1>1. CASE BadArgument
  BY <1>1 DEF BadArgument, Left, At
<1>2. CASE Leave
  BY <1>2 DEF Leave, Return, Left, At
<1>3. QED
  BY <1>1, <1>2

LEMMA BadArgumentInv ==
  ASSUME CallsInv, BadArgument
  PROVE  CallsInv'
<1>1. /\ now.at = "get" /\ stack' = stack /\ calls' = calls /\ before' = before
      /\ now'.at \in {"threw", "raised"}
  BY DEF BadArgument, Aside, Left, At
<1>2. /\ Framed(stack, calls, before) /\ Gets(calls)
      /\ Len(stack) = Depth(calls, before)
  BY <1>1, AnsweringNow DEF Answers
<1>3. QED
  BY <1>1, <1>2, AnsweringThen DEF Answers

LEMMA LeaveInv ==
  ASSUME CallsInv, Leave
  PROVE  CallsInv'
<1> DEFINE c == Last(calls)
           result == Left(now.at, c.type, c.index)
<1>1. /\ now.at \in {"threw", "raised"} /\ calls # <<>> /\ before' = before
      /\ stack' = IF c.of = "visit" THEN Restored(stack, c.base) ELSE stack
      /\ Return(result)
  BY DEF Leave, Aside, Caller
<1>2. now.at \in Answers
  BY <1>1 DEF Answers
<1>3. result.at \in Returns
  BY <1>1 DEF Left, At, Returns
<1>4. c.of \in {"visit", "try", "wrap"}
  <2>1. Framed(stack, calls, before) /\ Gets(calls)
    BY <1>2, AnsweringNow
  <2>2. Frame(c) /\ c.of # "fill"
    BY <2>1, <1>1, CallEnds
  <2>3. QED
    BY <2>2 DEF Frame
<1>5. \/ stack' = Restored(stack, c.base)
      \/ (c.of \in {"try", "wrap"} /\ stack' = stack)
  BY <1>1, <1>4
<1> HIDE DEF result
<1>6. QED
  BY <1>1, <1>2, <1>3, <1>5, ReturnsTo

LEMMA GetAddressInv ==
  ASSUME CallsInv, GetAddress
  PROVE  CallsInv'
<1>1. /\ now.at = "get" /\ stack' = stack /\ calls' = calls /\ before' = before
      /\ now'.at = "get" /\ now'.index = now.index
  BY DEF GetAddress, Aside, ToGet, At
<1>2. /\ Framed(stack, calls, before) /\ Gets(calls)
      /\ Len(stack) = Depth(calls, before) /\ now.index \in 1..Len(stack)
  BY <1>1, AnsweringNow DEF Answers
<1>3. QED
  BY <1>1, <1>2, AnsweringThen DEF Answers

(* An optional, an Expected or a variant asks for what it holds.           *)
LEMMA AsksInside ==
  ASSUME CallsInv, now.at = "get", stack' = stack, before' = before,
         NEW f, f.of \in {"try", "wrap"}, f.base = Len(stack), f.index = now.index,
         f.type[1] \notin {"integer", "enum"},
         calls' = Append(calls, f), now'.at = "get", now'.index = now.index
  PROVE  CallsInv'
<1>1. /\ Framed(stack, calls, before) /\ Gets(calls) /\ List(stack)
      /\ Len(stack) = Depth(calls, before) /\ Len(stack) \in Nat
      /\ now.index \in 1..Len(stack)
  BY AnsweringNow DEF Answers
<1>2. Frame(f) /\ f.base = Depth(calls, before)
  BY <1>1 DEF Frame
<1>3. /\ Framed(stack', calls', before) /\ Gets(calls')
      /\ Depth(calls', before) = Top(f)
  BY <1>1, <1>2, CallMade
<1>4. Top(f) = Len(stack)
  BY <1>1 DEF Top, Held
<1>5. QED
  BY <1>1, <1>3, <1>4, AnsweringThen DEF Answers

LEMMA GetNullableInv ==
  ASSUME CallsInv, GetNullable
  PROVE  CallsInv'
<1>1. /\ now.at = "get" /\ stack' = stack /\ before' = before
      /\ now.type[1] \in {"optional", "expected"}
  BY DEF GetNullable, Aside
<1>2. CASE now'.at \in {"got", "notgot"} /\ calls' = calls
  <2>1. /\ Framed(stack, calls, before) /\ Gets(calls)
        /\ Len(stack) = Depth(calls, before)
    BY <1>1, AnsweringNow DEF Answers
  <2>2. QED
    BY <2>1, <1>1, <1>2, AnsweringThen DEF Answers
<1>3. CASE Call(WrapFrame(now.type, now.index, Len(stack)), ToGet(now.type[2], now.index))
  <2> DEFINE f == WrapFrame(now.type, now.index, Len(stack))
  <2>1. f.of = "wrap" /\ f.base = Len(stack) /\ f.index = now.index /\ f.type = now.type
    BY DEF WrapFrame
  <2>2. calls' = Append(calls, f) /\ now'.at = "get" /\ now'.index = now.index
    BY <1>3 DEF Call, ToGet, At
  <2> HIDE DEF f
  <2>3. QED
    BY <2>1, <2>2, <1>1, AsksInside
<1>4. QED
  BY <1>2, <1>3 DEF GetNullable, Got, NotGot, At

LEMMA GotNullableInv ==
  ASSUME CallsInv, GotNullable
  PROVE  CallsInv'
<1> DEFINE result == IF now.at = "got" THEN Got(Caller.type, <<now.value>>, Caller.index)
                                       ELSE NotGot(Caller.type, Caller.index)
<1>1. /\ now.at \in Answers /\ calls # <<>> /\ Last(calls).of = "wrap"
      /\ stack' = stack /\ before' = before /\ Return(result)
  BY DEF GotNullable, Aside, Waiting, Caller, Answers
<1>2. result.at \in Returns
  BY DEF Got, NotGot, At, Returns
<1> HIDE DEF result
<1>3. QED
  BY <1>1, <1>2, ReturnsTo

LEMMA GetVariantInv ==
  ASSUME CallsInv, GetVariant
  PROVE  CallsInv'
<1> DEFINE f == TryFrame(now.type, now.index, Len(stack), 1)
<1>1. /\ now.at = "get" /\ stack' = stack /\ before' = before
      /\ now.type[1] = "variant"
      /\ calls' = Append(calls, f) /\ now'.at = "get" /\ now'.index = now.index
  BY DEF GetVariant, Aside, Call, ToGet, At
<1>2. f.of = "try" /\ f.base = Len(stack) /\ f.index = now.index /\ f.type = now.type
  BY DEF TryFrame
<1> HIDE DEF f
<1>3. QED
  BY <1>1, <1>2, AsksInside

LEMMA TryGetInv ==
  ASSUME CallsInv, TryGet
  PROVE  CallsInv'
<1> DEFINE c == Last(calls)
           f == TryFrame(c.type, c.index, c.base, c.n + 1)
<1>1. /\ now.at \in Answers /\ calls # <<>> /\ c.of = "try"
      /\ stack' = stack /\ before' = before
  BY DEF TryGet, Aside, Waiting, Caller, Answers
<1>2. CASE Return(Got(c.type, <<c.n, now.value>>, c.index))
  <2>1. Got(c.type, <<c.n, now.value>>, c.index).at = "got"
    BY DEF Got, At
  <2>2. QED
    BY <2>1, <1>1, <1>2, ReturnsTo DEF Returns
<1>3. CASE Return(NotGot(c.type, c.index))
  <2>1. NotGot(c.type, c.index).at = "notgot"
    BY DEF NotGot, At
  <2>2. QED
    BY <2>1, <1>1, <1>3, ReturnsTo DEF Returns
<1>4. CASE Goto(f, ToGet(c.type[2][c.n + 1], c.index))
  <2>1. /\ Framed(stack, calls, before) /\ Gets(calls) /\ List(stack)
        /\ Len(stack) = Depth(calls, before) /\ Len(stack) \in Nat
    BY <1>1, AnsweringNow
  <2>2. Frame(c) /\ Gets(Front(calls)) /\ Depth(calls, before) = Top(c)
    BY <2>1, <1>1, CallEnds
  <2>3. c.base \in Nat /\ c.base = Len(stack) /\ c.index \in 1..Len(stack)
    BY <2>1, <2>2, <1>1 DEF Frame, Top, Held
  <2>4. /\ f.of = "try" /\ f.base = c.base /\ f.index = c.index
        /\ f.type = c.type
    BY DEF TryFrame
  <2>5. calls' = Append(Front(calls), f) /\ now'.at = "get" /\ now'.index = c.index
    BY <1>4 DEF Goto, ToGet, At
  <2> HIDE DEF f
  <2>6. Frame(f)
    BY <2>2, <2>4, <1>1 DEF Frame
  <2>7. Same(stack, stack, c.base)
    BY <2>1, <2>3, SameItself
  <2>8. /\ Framed(stack, calls', before) /\ Gets(calls')
        /\ Depth(calls', before) = Top(f)
    BY <2>1, <2>2, <2>4, <2>5, <2>6, <2>7, <1>1, CallGoesOn
  <2>9. Top(f) = Len(stack)
    BY <2>3, <2>4 DEF Top, Held
  <2>10. QED
    BY <2>3, <2>5, <2>8, <2>9, <1>1, AnsweringThen DEF Answers
<1>5. QED
  BY <1>2, <1>3, <1>4 DEF TryGet, Caller

LEMMA GetTableInv ==
  ASSUME CallsInv, GetTable
  PROVE  CallsInv'
<1> DEFINE f == VisitFrame(now.type, now.index, Len(stack), <<>>, <<>>)
<1>1. now.at = "get" /\ before' = before /\ now.type[1] \in Containers
  BY DEF GetTable, Aside
<1>2. /\ Framed(stack, calls, before) /\ Gets(calls) /\ List(stack)
      /\ Len(stack) = Depth(calls, before) /\ Len(stack) \in Nat
      /\ now.index \in 1..Len(stack)
  BY <1>1, AnsweringNow DEF Answers
<1>3. CASE now' = NotGot(now.type, now.index) /\ stack' = stack /\ calls' = calls
  <2>1. now'.at = "notgot"
    BY <1>3 DEF NotGot, At
  <2>2. QED
    BY <2>1, <1>1, <1>2, <1>3, AnsweringThen DEF Answers
<1>4. CASE stack' = Append(stack, Nil) /\ Call(f, Looping)
  <2>1. calls' = Append(calls, f) /\ now'.at = "loop"
    BY <1>4 DEF Call, Looping, At
  <2>2. /\ f.of = "visit" /\ f.base = Len(stack) /\ f.index = now.index /\ f.type = now.type
    BY DEF VisitFrame
  <2> HIDE DEF f
  <2>3. /\ List(stack') /\ Len(stack') = Len(stack) + 1
        /\ Same(stack', stack, Depth(calls, before)) /\ stack'[Len(stack) + 1] = Nil
    BY <1>2, <1>4, SameAppended, ListAppend
  <2>4. Framed(stack', calls, before)
    BY <2>3, <1>2, ChangedAbove
  <2>5. Frame(f) /\ f.base = Depth(calls, before) /\ Visits(f, stack')
    BY <2>2, <2>3, <1>1, <1>2 DEF Frame, Containers, Visits, KeyOf
  <2>6. /\ Framed(stack', calls', before) /\ calls' # <<>> /\ Last(calls') = f
        /\ Gets(calls')
    BY <2>1, <2>2, <2>4, <2>5, <1>2, CallMade
  <2>7. InLoop'
    BY <2>1, <2>2, <2>3, <2>6 DEF InLoop
  <2>8. QED
    BY <2>1, <2>3, <2>6, <2>7, <1>1 DEF CallsInv, Still, IndexIsNil, At
<1>5. QED
  BY <1>3, <1>4 DEF GetTable
(* lua_next finds the key it continues from.                               *)
LEMMA KeyFound ==
  ASSUME NEW t, NEW key, KeyOf(t, key)
  PROVE  After(t, key) # {}
<1>1. CASE key = Nil
  <2>1. 1 \in After(t, key)
    BY <1>1 DEF After
  <2>2. QED
    BY <2>1
<1>2. CASE key # Nil
  <2>1. PICK j \in DOMAIN t : t[j][1] = key
    BY <1>2 DEF KeyOf
  <2>2. j + 1 \in After(t, key)
    BY <2>1, <1>2 DEF After
  <2>3. QED
    BY <2>2
<1>3. QED
  BY <1>1, <1>2

(* The next entry: its key and its value over the table.                   *)
LEMMA NextEntry ==
  ASSUME Framed(stack, calls, before), List(stack), calls # <<>>,
         Last(calls).of = "visit", Gets(Front(calls)), before' = before,
         Len(stack) = Last(calls).base + 1,
         NEW j \in DOMAIN stack[Last(calls).index][2], NEW x, NEW to,
         stack' = Append(Append(Front(stack), stack[Last(calls).index][2][j][1]), x),
         Goto(Last(calls), to), to.at = "get", to.index \in {Len(stack), Len(stack) + 1}
  PROVE  CallsInv'
<1> DEFINE c == Last(calls)
           t == stack[c.index][2]
           key == t[j][1]
           keyed == Append(Front(stack), key)
<1>1. /\ Frame(c) /\ c.base \in Nat /\ c.index \in 1..c.base
      /\ Len(stack) = c.base + 1 /\ c.of = "visit"
  BY CallEnds DEF Frame
<1>2. stack' = Append(keyed, x) /\ calls' = Append(Front(calls), c) /\ now' = to
  BY DEF Goto
<1>3. KeyOf(t, key)
  BY DEF KeyOf
<1>4. stack # <<>>
  <2>1. Len(stack) >= 1
    BY <1>1
  <2>2. QED
    BY <2>1, ListLen
<1> HIDE DEF c, key
<1>5. /\ List(Front(stack)) /\ Len(Front(stack)) = c.base
      /\ \A i \in 1..c.base : Front(stack)[i] = stack[i]
  BY <1>1, <1>4, ListFront
<1>6. /\ List(keyed) /\ Len(keyed) = c.base + 1 /\ keyed[c.base + 1] = key
      /\ \A i \in 1..c.base : keyed[i] = stack[i]
  BY <1>5, ListAppend
<1> HIDE DEF keyed
<1>7. /\ List(stack') /\ Len(stack') = c.base + 2
      /\ \A i \in 1..c.base + 1 : stack'[i] = keyed[i]
  BY <1>1, <1>2, <1>6, ListAppend
<1>8. /\ \A i \in 1..c.base : stack'[i] = stack[i]
      /\ stack'[c.base + 1] = key
  BY <1>1, <1>6, <1>7
<1>9. Same(stack', stack, c.base)
  BY <1>1, <1>7, <1>8 DEF Same
<1>10. Visits(c, stack')
  <2>1. stack'[c.index][2] = t
    BY <1>1, <1>8
  <2>2. KeyOf(stack'[c.index][2], stack'[c.base + 1])
    BY ONLY <2>1, <1>3, <1>8
  <2>3. c.base + 1 <= Len(stack')
    BY <1>1, <1>7
  <2>4. QED
    BY ONLY <2>2, <2>3 DEF Visits
<1>11. /\ Framed(stack', calls', before) /\ Gets(calls')
       /\ Depth(calls', before) = Top(c)
  BY <1>1, <1>2, <1>7, <1>9, <1>10, CallGoesOn DEF c
<1>12. Top(c) = c.base + 2
  BY <1>1 DEF Top, Held
<1>13. now'.at = "get" /\ now'.index \in 1..Len(stack')
  BY <1>1, <1>2, <1>7
<1>14. QED
  BY <1>7, <1>11, <1>12, <1>13, AnsweringThen DEF Answers

LEMMA VisitInv ==
  ASSUME CallsInv, Visit
  PROVE  CallsInv'
<1> DEFINE c == Last(calls)
           t == stack[c.index][2]
           next == After(t, Last(stack))
           top == Len(stack) + 1
           to == IF KeyFirst(c.type) THEN GetKey(c.type, top) ELSE GetElement(c.type, c.pairs, top)
           end == IF c.type[1] = "tuple" THEN NotGot(c.type, c.index) ELSE GotAll(c)
<1>1. now.at = "loop" /\ calls # <<>> /\ c.of = "visit" /\ before' = before
  BY DEF Visit, Aside, Waiting, Caller
<1>2. /\ Framed(stack, calls, before) /\ List(stack) /\ c.base \in Nat
      /\ Len(stack) = c.base + 1 /\ Gets(Front(calls)) /\ Visits(c, stack)
  BY <1>1, LoopingNow
<1>3. Last(stack) = stack[c.base + 1] /\ Len(stack) \in Nat
  BY <1>2, ListLen DEF Last
<1>4. next # {}
  BY <1>2, <1>3, KeyFound DEF Visits
<1>5. PICK j \in next :
        IF j \notin DOMAIN t
          THEN Returned(end)
          ELSE stack' = Append(Append(Front(stack), t[j][1]), t[j][2]) /\ Goto(c, to)
  BY <1>4 DEF Visit, Caller
<1>6. /\ to.at = "get" /\ to.index \in {Len(stack), Len(stack) + 1}
      /\ end.at \in {"got", "notgot"}
  BY <1>3 DEF GetKey, GetElement, ToGet, GotAll, Got, NotGot, At
<1> HIDE DEF next, to, end
<1>7. CASE j \notin DOMAIN t
  <2>1. stack' = Restored(stack, c.base) /\ Return(end)
    BY <1>5, <1>7 DEF Returned, Caller
  <2>2. /\ List(stack') /\ Len(stack') = c.base /\ Same(stack', stack, c.base)
    BY <2>1, <1>2, SameRestored
  <2>3. QED
    BY <2>1, <2>2, <1>1, <1>2, <1>6, ReturnsAt DEF Returns
<1>8. CASE j \in DOMAIN t
  BY <1>1, <1>2, <1>5, <1>6, <1>8, NextEntry
<1>9. QED
  BY <1>7, <1>8

LEMMA VisitCompleteInv ==
  ASSUME CallsInv, VisitComplete
  PROVE  CallsInv'
<1> DEFINE c == Last(calls)
           end == GotAll(c)
<1>1. /\ now.at = "loop" /\ calls # <<>> /\ c.of = "visit" /\ before' = before
      /\ stack' = Restored(stack, c.base) /\ Return(end)
  BY DEF VisitComplete, Aside, Waiting, Caller, Returned
<1>2. /\ Framed(stack, calls, before) /\ List(stack) /\ c.base \in Nat
      /\ Len(stack) = c.base + 1 /\ Gets(Front(calls))
  BY <1>1, LoopingNow
<1>3. List(stack') /\ Len(stack') = c.base /\ Same(stack', stack, c.base)
  BY <1>1, <1>2, SameRestored
<1>4. end.at = "got"
  BY DEF GotAll, Got, At
<1> HIDE DEF end
<1>5. QED
  BY <1>1, <1>2, <1>3, <1>4, ReturnsAt DEF Returns

LEMMA VisitGotInv ==
  ASSUME CallsInv, VisitGot
  PROVE  CallsInv'
<1> DEFINE c == Last(calls)
<1>1. now.at = "got" /\ calls # <<>> /\ c.of = "visit" /\ before' = before
  BY DEF VisitGot, Aside, Waiting, Caller
<1>2. /\ Framed(stack, calls, before) /\ Gets(calls) /\ List(stack)
      /\ Len(stack) = Depth(calls, before) /\ Len(stack) \in Nat
  BY <1>1, AnsweringNow DEF Answers
<1>3. /\ Frame(c) /\ Gets(Front(calls)) /\ Depth(calls, before) = Top(c)
      /\ Visits(c, stack)
  <2>1. calls # <<>> /\ c.of = "visit" /\ Framed(stack, calls, before) /\ Gets(calls)
    BY <1>1, <1>2
  <2>2. QED
    BY ONLY <2>1, CallEnds
<1>4. c.base \in Nat /\ c.index \in 1..c.base /\ Len(stack) = c.base + 2
  BY <1>1, <1>2, <1>3 DEF Frame, Top, Held
<1>5. PICK pairs, first, to :
        /\ Goto(VisitFrame(c.type, c.index, c.base, pairs, first), to)
        /\ \/ stack' = stack /\ to.at = "get" /\ to.index \in {Len(stack) - 1, Len(stack)}
           \/ stack' = Front(stack) /\ to.at = "loop"
  <2> DEFINE value == GetElement(c.type, c.pairs, Len(stack))
             key == GetKey(c.type, Len(stack))
             to == IF KeyFirst(c.type) THEN value ELSE key
             Goes(pairs, first, next) == Goto(VisitFrame(c.type, c.index, c.base, pairs, first), next)
  <2>1. /\ to.at = "get" /\ to.index \in {Len(stack) - 1, Len(stack)}
        /\ Looping.at = "loop"
    BY DEF GetElement, GetKey, ToGet, Looping, At
  <2>2. \/ stack' = stack /\ Goes(c.pairs, <<now.value>>, to)
        \/ \E pairs : stack' = Front(stack) /\ Goes(pairs, <<>>, Looping)
    BY DEF VisitGot, Caller
  <2> HIDE DEF to
  <2>3. QED
    BY <2>1, <2>2
<1> DEFINE f == VisitFrame(c.type, c.index, c.base, pairs, first)
<1>6. /\ f.of = "visit" /\ f.index = c.index /\ f.base = c.base /\ f.type = c.type
      /\ calls' = Append(Front(calls), f) /\ now' = to
  BY <1>5 DEF VisitFrame, Goto
<1> HIDE DEF f
<1>7. Frame(f)
  BY <1>1, <1>3, <1>6 DEF Frame
<1>8. CASE stack' = stack /\ to.at = "get" /\ to.index \in {Len(stack) - 1, Len(stack)}
  <2>1. Same(stack', stack, c.base) /\ Visits(f, stack') /\ List(stack')
    BY <1>2, <1>3, <1>4, <1>6, <1>8, SameItself DEF Visits
  <2>2. /\ Framed(stack', calls', before) /\ Gets(calls')
        /\ Depth(calls', before) = Top(f)
    BY <2>1, <1>1, <1>2, <1>3, <1>6, <1>7, CallGoesOn
  <2>3. Top(f) = Len(stack') /\ now'.index \in 1..Len(stack')
    BY <1>4, <1>6, <1>8 DEF Top, Held
  <2>4. QED
    BY <2>2, <2>3, <1>1, <1>6, <1>8, AnsweringThen DEF Answers
<1>9. CASE stack' = Front(stack) /\ to.at = "loop"
  <2>1. stack # <<>>
    <3>1. Len(stack) >= 1
      BY <1>4
    <3>2. QED
      BY <3>1, <1>2, ListLen
  <2>2. /\ List(stack') /\ Len(stack') = c.base + 1
        /\ \A i \in 1..c.base + 1 : stack'[i] = stack[i]
    BY <2>1, <1>2, <1>4, <1>9, ListFront
  <2>3. Same(stack', stack, c.base)
    BY <2>2, <1>4 DEF Same
  <2>4. stack'[c.index] = stack[c.index] /\ stack'[c.base + 1] = stack[c.base + 1]
    <3>1. c.index \in 1..c.base + 1 /\ c.base + 1 \in 1..c.base + 1
      BY <1>4
    <3>2. QED
      BY <3>1, <2>2
  <2>5. Visits(f, stack')
    BY <2>2, <2>4, <1>3, <1>4, <1>6 DEF Visits
  <2>6. /\ Framed(stack', calls', before) /\ Gets(calls')
        /\ calls' # <<>> /\ Last(calls') = f
    BY <2>2, <2>3, <2>5, <1>1, <1>2, <1>3, <1>6, <1>7, CallGoesOn
  <2>7. InLoop'
    BY <2>2, <2>6, <1>6, <1>9 DEF InLoop
  <2>8. QED
    BY <2>2, <2>6, <2>7, <1>1, <1>6, <1>9 DEF CallsInv, Still, IndexIsNil, At
<1>10. QED
  BY <1>5, <1>8, <1>9

LEMMA VisitFailedInv ==
  ASSUME CallsInv, VisitFailed
  PROVE  CallsInv'
<1> DEFINE end == NotGot(Last(calls).type, Last(calls).index)
<1>1. /\ now.at \in Answers /\ calls # <<>> /\ Last(calls).of = "visit" /\ before' = before
      /\ stack' = Restored(stack, Last(calls).base) /\ Return(end)
  BY DEF VisitFailed, Aside, Waiting, Caller, Returned, Answers
<1>2. end.at \in Returns
  BY DEF NotGot, At, Returns
<1> HIDE DEF end
<1>3. QED
  BY <1>1, <1>2, ReturnsTo
-----------------------------------------------------------------------------
(* Between two calls, and at the first step of one.                        *)
LEMMA NoCalls ==
  ASSUME NEW s, List(s)
  PROVE  Framed(s, <<>>, s) /\ Fills(<<>>) /\ Gets(<<>>) /\ Depth(<<>>, s) = Len(s)
<1>1. List(<<>>) /\ Len(<<>>) = 0 /\ Len(s) \in Nat
  BY ListEmpty, ListLen
<1>2. Frames(<<>>) /\ Visited(<<>>, s) /\ Fills(<<>>) /\ Gets(<<>>)
  BY <1>1 DEF Frames, Visited, Fills, Gets
<1>3. Depth(<<>>, s) = Len(s)
  BY <1>1 DEF Depth, Height
<1>4. Chained(<<>>, s)
  <2>1. \A j, k \in 0..0 : Height(<<>>, s, j) <= Height(<<>>, s, k)
    BY <1>1 DEF Height
  <2>2. QED
    BY <2>1, <1>1 DEF Chained
<1>5. Same(s, s, Len(s))
  BY <1>1 DEF Same
<1>6. QED
  BY <1>1, <1>2, <1>3, <1>4, <1>5 DEF Framed

LEMMA CallBegins ==
  ASSUME CallsInv, now.at = "idle", stack' = stack, calls' = calls, before' = stack,
         now'.at = "push" \/ (now'.at = "get" /\ now'.index \in DOMAIN stack)
  PROVE  CallsInv'
<1>1. calls = <<>> /\ List(stack) /\ DOMAIN stack = 1..Len(stack)
  BY ListLen DEF CallsInv, Still
<1>2. /\ Framed(stack', calls', before') /\ Fills(calls') /\ Gets(calls')
      /\ Depth(calls', before') = Len(stack') /\ Len(stack') \in Nat
  BY <1>1, NoCalls, ListLen
<1>3. CASE now'.at = "push"
  BY <1>2, <1>3, PushingThen DEF Pushes
<1>4. CASE now'.at = "get" /\ now'.index \in DOMAIN stack
  BY <1>1, <1>2, <1>4, AnsweringThen DEF Answers
<1>5. QED
  BY <1>3, <1>4

LEMMA IdleInv ==
  ASSUME CallsInv, now.at = "idle", now' = now, calls' = calls, List(stack')
  PROVE  CallsInv'
BY DEF CallsInv, Still

LEMMA InitCalls == Init => CallsInv
<1> SUFFICES ASSUME Init PROVE CallsInv
  OBVIOUS
<1>1. PICK n \in 0..Below : stack = [i \in 1..n |-> Boolean(TRUE)]
  BY DEF Init
<1>2. stack \in Seq({Boolean(TRUE)})
  BY <1>1
<1>3. List(stack)
  BY <1>2, ListOf
<1>4. now.at = "idle" /\ calls = <<>>
  BY DEF Init, Idle, At
<1>5. QED
  BY <1>3, <1>4 DEF CallsInv, Still

LEMMA NextCalls == CallsInv /\ [Next]_vars => CallsInv'
<1> SUFFICES ASSUME CallsInv, [Next]_vars PROVE CallsInv'
  OBVIOUS
<1>1. CASE TakeResult
  <2>1. calls' = <<>> /\ stack' \in {stack, <<>>} /\ now'.at = "idle"
    BY <1>1 DEF TakeResult, Idle, At
  <2>2. QED
    BY <2>1, ListEmpty DEF CallsInv, Still
<1>2. CASE \E input \in Inputs : PushValue(input[1], input[2])
  BY <1>2, CallBegins DEF PushValue, ToPush, At
<1>3. CASE \E T \in Wanted, i \in DOMAIN stack : GetValue(T, i)
  BY <1>3, CallBegins DEF GetValue, ToGet, At
<1>4. CASE \E x \in Scripts : PassValue(x)
  <2>1. PICK x \in Scripts : PassValue(x)
    BY <1>4
  <2>2. stack' = Append(stack, x) /\ now.at = "idle" /\ now' = now /\ calls' = calls
    BY <2>1 DEF PassValue
  <2>3. List(stack')
    BY <2>2, ListAppend DEF CallsInv
  <2>4. QED
    BY <2>2, <2>3, IdleInv
<1>5. CASE Pop
  <2>1. /\ stack # <<>> /\ stack' = Front(stack)
        /\ now.at = "idle" /\ now' = now /\ calls' = calls
    BY <1>5 DEF Pop
  <2>2. List(stack')
    BY <2>1, ListFront DEF CallsInv
  <2>3. QED
    BY <2>1, <2>2, IdleInv
<1>6. CASE (\E T \in AnyTypes : RegisterAnyPush(T)) \/ EnableExceptions
  <2>1. stack' = stack /\ now.at = "idle" /\ now' = now /\ calls' = calls
    BY <1>6 DEF RegisterAnyPush, EnableExceptions
  <2>2. QED
    BY <2>1, IdleInv DEF CallsInv
<1>7. CASE \E pair \in Conversions : AddConverter(pair[1], pair[2])
  <2>1. stack' = stack /\ now.at = "idle" /\ now' = now /\ calls' = calls
    BY <1>7 DEF AddConverter
  <2>2. QED
    BY <2>1, IdleInv DEF CallsInv
<1>8. CASE PushOne \/ PushWrapped
  BY <1>8, PushOneInv, PushWrappedInv
<1>9. CASE Build \/ Fill \/ FillKeyed \/ Store \/ Filled \/ FillFailed
  BY <1>9, BuildInv, FillInv, FillKeyedInv, StoreInv, FilledInv, FillFailedInv
<1>10. CASE \/ GetOne \/ BadArgument \/ Leave
            \/ GetAddress \/ GetNullable \/ GotNullable \/ GetVariant \/ TryGet
  BY <1>10, GetOneInv, BadArgumentInv, LeaveInv, GetAddressInv, GetNullableInv,
     GotNullableInv, GetVariantInv, TryGetInv
<1>11. CASE GetTable \/ Visit \/ VisitComplete \/ VisitGot \/ VisitFailed
  BY <1>11, GetTableInv, VisitInv, VisitCompleteInv, VisitGotInv, VisitFailedInv
<1>12. CASE UNCHANGED vars
  <2>1. stack' = stack /\ calls' = calls /\ now' = now /\ before' = before
    BY <1>12 DEF vars
  <2>2. QED
    BY <2>1 DEF CallsInv, Pushing, Answering, InLoop
<1>13. QED
  BY <1>1, <1>2, <1>3, <1>4, <1>5, <1>6, <1>7, <1>8, <1>9, <1>10, <1>11, <1>12 DEF Next

(* At every step the calls under way lie over one another on the stack,    *)
(* over the values of the caller, which none of them changes; a table that *)
(* is visited keeps its place and its last key.                            *)
THEOREM CallsNest == Spec => []CallsInv
<1>1. QED
  BY InitCalls, NextCalls, PTL DEF Spec

(* A push is whole: one value more over those of the caller, or none, also *)
(* when it fails in the middle of a container inside a container.          *)
LEMMA CallsPushWhole == CallsInv => PushIsWhole
<1> SUFFICES ASSUME CallsInv, calls = <<>>, now.at \in {"pushed", "notpushed"}
             PROVE  /\ now.at = "pushed" => /\ Len(stack) = Len(before) + 1
                                            /\ Front(stack) = before
                    /\ now.at = "notpushed" => stack = before
  BY DEF PushIsWhole
<1>1. /\ Framed(stack, calls, before) /\ List(stack)
      /\ Len(stack) = Depth(calls, before) + (IF now.at = "pushed" THEN 1 ELSE 0)
  BY PushingNow DEF Pushes
<1>2. List(before) /\ Len(before) \in Nat /\ Same(stack, before, Len(before))
  BY <1>1, ListLen DEF Framed
<1>3. Depth(calls, before) = Len(before)
  BY <1>2, NoCalls
<1>4. CASE now.at = "pushed"
  <2>1. Len(stack) = Len(before) + 1 /\ stack # <<>>
    <3>1. Len(stack) = Len(before) + 1
      BY <1>1, <1>3, <1>4
    <3>2. Len(stack) >= 1
      BY <3>1, <1>2
    <3>3. QED
      BY <3>1, <3>2, <1>1, ListLen
  <2>2. /\ List(Front(stack)) /\ Len(Front(stack)) = Len(before)
        /\ \A i \in 1..Len(before) : Front(stack)[i] = stack[i]
    <3>1. /\ List(Front(stack)) /\ Len(Front(stack)) = Len(stack) - 1
          /\ \A i \in 1..Len(stack) - 1 : Front(stack)[i] = stack[i]
      BY ONLY <2>1, <1>1, ListFront
    <3>2. Len(stack) - 1 = Len(before)
      BY ONLY <2>1, <1>2
    <3>3. QED
      BY ONLY <3>1, <3>2
  <2>3. Front(stack) = before
    BY <2>2, <1>2, ListEqual DEF Same
  <2>4. QED
    BY <2>1, <2>3, <1>4
<1>5. CASE now.at = "notpushed"
  <2>1. Len(stack) = Len(before)
    BY <1>1, <1>2, <1>3, <1>5
  <2>2. stack = before
    BY <2>1, <1>1, <1>2, ListEqual DEF Same
  <2>3. QED
    BY <2>2, <1>5
<1>6. QED
  BY <1>4, <1>5

(* A push leaves one value more on the stack, or the stack as it was, for  *)
(* every type, value, depth and stack size (Vector.h:41).                  *)
THEOREM PushesWhole == Spec => []PushIsWhole
<1>1. QED
  BY CallsNest, CallsPushWhole, PTL

(* A get leaves the stack of the caller as it was, value by value, and     *)
(* lua_next never misses the key it continues from.                        *)
LEMMA CallsReadOnly == CallsInv => GetReadsOnly
<1> SUFFICES ASSUME CallsInv PROVE GetReadsOnly
  OBVIOUS
<1>1. now.at # InvalidKey.at
  BY DEF CallsInv, Still, Pushing, Pushes, Answering, Answers, InLoop, IndexIsNil,
         InvalidKey, At
<1>2. ASSUME calls = <<>>, now.at \in {"got", "notgot", "threw", "raised"}
      PROVE  stack = before
  <2>1. /\ Framed(stack, calls, before) /\ List(stack)
        /\ Len(stack) = Depth(calls, before)
    BY <1>2, AnsweringNow DEF Answers
  <2>2. List(before) /\ Same(stack, before, Len(before))
    BY <2>1 DEF Framed
  <2>3. Len(stack) = Len(before)
    BY <2>1, <2>2, <1>2, NoCalls
  <2>4. QED
    BY <2>1, <2>2, <2>3, ListEqual DEF Same
<1>3. QED
  BY <1>1, <1>2 DEF GetReadsOnly

(* A get leaves every value on the stack as it was, however it ends, and   *)
(* lua_next never misses its key (Stack.h:1010).                           *)
THEOREM GetsReadOnly == Spec => []GetReadsOnly
<1>1. QED
  BY CallsNest, CallsReadOnly, PTL

(* Only a step that gets one value returns an integer.                     *)
LEMMA IntegersComeFrom ==
  ASSUME CallsInv, Next, now'.at = "got"
  PROVE  \/ GetOne
         \/ now'.type[1] \notin {"integer", "enum"}
<1>1. CASE TakeResult
  BY <1>1 DEF TakeResult, Idle, At
<1>2. CASE \E input \in Inputs : PushValue(input[1], input[2])
  BY <1>2 DEF PushValue, ToPush, At
<1>3. CASE \E T \in Wanted, i \in DOMAIN stack : GetValue(T, i)
  BY <1>3 DEF GetValue, ToGet, At
<1>4. CASE \/ \E x \in Scripts : PassValue(x)
           \/ Pop
           \/ \E T \in AnyTypes : RegisterAnyPush(T)
           \/ \E pair \in Conversions : AddConverter(pair[1], pair[2])
           \/ EnableExceptions
  BY <1>4 DEF PassValue, Pop, RegisterAnyPush, AddConverter, EnableExceptions
<1>5. CASE PushOne
  BY <1>5 DEF PushOne, Pushed, NotPushed, At
<1>6. CASE PushWrapped
  <2>1. CASE now.type[1] \in Wrappers
    BY <2>1, <1>6 DEF PushWrapped, ToPush, At, Wrappers
  <2>2. CASE now.type[1] = "variant"
    BY <2>2, <1>6 DEF PushWrapped, ToPush, At, Wrappers
  <2>3. CASE now.type[1] = "any"
    BY <2>3, <1>6 DEF PushWrapped, ToPush, NotPushed, At, Wrappers
  <2>4. QED
    BY <2>1, <2>2, <2>3, <1>6 DEF PushWrapped, Wraps
<1>7. CASE Build
  BY <1>7 DEF Build, Call, Looping, NotPushed, At
<1>8. CASE Fill
  BY <1>8 DEF Fill, Filling, Goto, ToPush, At
<1>9. CASE FillKeyed
  BY <1>9 DEF FillKeyed, Filling, Goto, ToPush, At
<1>10. CASE Store
  <2>1. now' = IndexIsNil \/ now' = Looping
    BY <1>10 DEF Store, Raise, Goto
  <2>2. IndexIsNil.at # "got" /\ Looping.at # "got"
    BY DEF IndexIsNil, Looping, At
  <2>3. QED
    BY <2>1, <2>2
<1>11. CASE Filled \/ FillFailed
  BY <1>11 DEF Filled, FillFailed, Return, Pushed, NotPushed, At
<1>12. CASE BadArgument \/ Leave \/ GetAddress
  <2>1. CASE GetAddress
    BY <2>1 DEF GetAddress, ToGet, At
  <2>2. QED
    BY <2>1, <1>12, LeftAt
<1>13. CASE GetNullable
  BY <1>13 DEF GetNullable, Call, Got, NotGot, ToGet, At
<1>14. CASE GetVariant
  BY <1>14 DEF GetVariant, Call, ToGet, At
<1>15. CASE VisitFailed
  BY <1>15 DEF VisitFailed, Returned, Return, NotGot, At
<1>16. CASE GetTable
  BY <1>16 DEF GetTable, Call, NotGot, Looping, At
<1>17. CASE GotNullable \/ TryGet
  <2>1. /\ Framed(stack, calls, before) /\ calls # <<>>
    BY <1>17, AnsweringNow DEF GotNullable, TryGet, Waiting, Answers
  <2>2. Last(calls).type[1] \notin {"integer", "enum"}
    BY <2>1, CallEnds DEF Frame
  <2>3. now'.type = Last(calls).type
    BY <1>17 DEF GotNullable, TryGet, Return, Goto, Caller, Got, NotGot, ToGet, At
  <2>4. QED
    BY <2>2, <2>3
<1>18. CASE Visit \/ VisitComplete \/ VisitGot
  <2>1. /\ Framed(stack, calls, before) /\ calls # <<>>
    <3>1. CASE VisitGot
      BY <3>1, AnsweringNow DEF VisitGot, Waiting, Answers
    <3>2. CASE Visit \/ VisitComplete
      BY <3>2, LoopingNow DEF Visit, VisitComplete
    <3>3. QED
      BY <1>18, <3>1, <3>2
  <2>2. Last(calls).type[1] \notin {"integer", "enum"}
    BY <2>1, CallEnds DEF Frame
  <2>3. now'.type = Last(calls).type
    <3>1. CASE Visit
      <4> DEFINE c == Last(calls)
                 top == Len(stack) + 1
                 to == IF KeyFirst(c.type) THEN GetKey(c.type, top)
                                           ELSE GetElement(c.type, c.pairs, top)
                 end == IF c.type[1] = "tuple" THEN NotGot(c.type, c.index) ELSE GotAll(c)
      <4>1. now' = InvalidKey \/ now' = end \/ now' = to
        BY <3>1 DEF Visit, Raise, Returned, Return, Goto, Caller
      <4>2. InvalidKey.at # "got" /\ to.at # "got" /\ end.type = c.type
        BY DEF InvalidKey, GetKey, GetElement, GotAll, Got, NotGot, ToGet, At
      <4> HIDE DEF to, end
      <4>3. QED
        BY <4>1, <4>2
    <3>2. CASE VisitComplete
      BY <3>2 DEF VisitComplete, Returned, Return, Caller, GotAll, Got, At
    <3>3. CASE VisitGot
      BY <3>3 DEF VisitGot, Goto, GetKey, GetElement, Looping, Caller, ToGet, At
    <3>4. QED
      BY <1>18, <3>1, <3>2, <3>3
  <2>4. QED
    BY <2>2, <2>3
<1>19. QED
  BY <1>1, <1>2, <1>3, <1>4, <1>5, <1>6, <1>7, <1>8, <1>9, <1>10, <1>11, <1>12, <1>13,
     <1>14, <1>15, <1>16, <1>17, <1>18 DEF Next

(* The integer a get returns is the number on the stack.                   *)
LEMMA GetIntegerIs ==
  ASSUME NEW t, Exactly(t), NEW x, NEW v \in GetInteger(t, x)
  PROVE  x = Number(2 * v)
<1>1. Integral(x) /\ GetsInteger(t, Whole(x)) /\ v = GotInteger(t, Whole(x))
  BY DEF GetInteger, When
<1>2. PICK n \in ValuesOf(LuaInteger) : x = Number(2 * n)
  BY <1>1 DEF Integral
<1>3. n \in Int
  BY DEF ValuesOf
<1>4. Whole(x) = n
  <2>1. Whole(x) = (2 * n) \div 2
    BY <1>2 DEF Whole, Number
  <2>2. QED
    BY ONLY <2>1, <1>3
<1>5. v = n
  BY <1>1, <1>4, GotIntegerExact DEF Exactly
<1>6. QED
  BY <1>2, <1>5

LEMMA GetOneExact ==
  ASSUME GetOne, now'.at = "got", now'.type[1] \in {"integer", "enum"},
         Exactly(now'.type[2])
  PROVE  stack'[now'.index] = Number(2 * now'.value)
<1> DEFINE T == now.type
           x == stack[now.index]
<1>1. PICK v \in FromLua(T, x) : now' = Got(T, v, now.index)
  BY GetOneIs DEF NotGot, At
<1>2. now'.type = T /\ now'.value = v /\ now'.index = now.index
  BY <1>1 DEF Got, At
<1>3. stack' = stack
  BY DEF GetOne, ConvertedCopy
<1>4. v \in GetInteger(T[2], x)
  <2>1. CASE T[1] = "integer"
    BY <2>1 DEF FromLua
  <2>2. CASE T[1] = "enum"
    BY <2>2 DEF FromLua, GetEnum
  <2>3. QED
    BY <2>1, <2>2, <1>2
<1>5. x = Number(2 * v)
  BY <1>2, <1>4, GetIntegerIs
<1>6. QED
  BY <1>2, <1>3, <1>5

(* The integers C++ gets are those of Lua, wherever they are: by itself,   *)
(* in a container, a variant or an optional, of every width at once.       *)
THEOREM IntegersExact == Spec => []IntegersArrive
<1>1. Init => IntegersArrive
  BY DEF Init, Idle, At, IntegersArrive
<1>2. CallsInv /\ IntegersArrive /\ [Next]_vars => IntegersArrive'
  <2> SUFFICES ASSUME CallsInv, IntegersArrive, [Next]_vars,
                      now'.at = "got", now'.type[1] \in {"integer", "enum"},
                      Exactly(now'.type[2])
               PROVE  stack'[now'.index] = Number(2 * now'.value)
    BY DEF IntegersArrive
  <2>1. CASE Next
    BY <2>1, IntegersComeFrom, GetOneExact
  <2>2. CASE UNCHANGED vars
    <3>1. now' = now /\ stack' = stack
      BY <2>2 DEF vars
    <3>2. QED
      BY <3>1 DEF IntegersArrive
  <2>3. QED
    BY <2>1, <2>2
<1>3. QED
  BY <1>1, <1>2, CallsNest, PTL DEF Spec

(* What the caller sees of the stack: what the call under way does to it   *)
(* appears when the outermost one returns.                                 *)
Calling == calls # <<>> \/ now.at \in {"push", "get"}
Seen == IF Calling THEN before ELSE stack

AtOnce ==
  \/ Seen' = Seen
  \/ \E x : Seen' = Append(Seen, x)
  \/ Seen # <<>> /\ Seen' = Front(Seen)
  \/ now'.at = IndexIsNil.at                    \* the frame is gone
  \/ now.at = "raised" /\ Seen' = <<>>          \* likewise

LEMMA OneMore ==
  ASSUME NEW s, List(s), s # <<>>
  PROVE  s = Append(Front(s), Last(s))
<1>1. /\ List(Front(s)) /\ Len(Front(s)) = Len(s) - 1
      /\ \A i \in 1..Len(s) - 1 : Front(s)[i] = s[i]
      /\ Len(s) \in Nat /\ Len(s) >= 1 /\ Last(s) = s[Len(s)]
  BY ListFront
<1> DEFINE t == Append(Front(s), Last(s))
<1>2. /\ List(t) /\ Len(t) = Len(Front(s)) + 1
      /\ \A i \in 1..Len(Front(s)) : t[i] = Front(s)[i]
      /\ t[Len(Front(s)) + 1] = Last(s)
  BY <1>1, ListAppend
<1> HIDE DEF t
<1>3. Len(t) = Len(s)
  BY <1>1, <1>2
<1>4. \A i \in 1..Len(s) : t[i] = s[i]
  <2> TAKE i \in 1..Len(s)
  <2>1. CASE i = Len(s)
    BY <2>1, <1>1, <1>2
  <2>2. CASE i # Len(s)
    BY <2>2, <1>1, <1>2
  <2>3. QED
    BY <2>1, <2>2
<1>5. t = s
  BY <1>2, <1>3, <1>4, ListEqual
<1>6. QED
  BY <1>5 DEF t

(* A call under way keeps the stack it began with, and ends in a result or *)
(* an error.                                                               *)
LEMMA CallKeeps ==
  ASSUME Next, Calling, CallsInv
  PROVE  before' = before /\ now'.at # "idle"
<1>1. now.at # "idle"
  BY DEF Calling, CallsInv, Still
<1>2. ~TakeResult
  BY DEF Calling, TakeResult
<1>3. \/ PushOne \/ PushWrapped
      \/ Build \/ Fill \/ FillKeyed \/ Store \/ Filled \/ FillFailed
      \/ GetOne \/ BadArgument \/ Leave
      \/ GetAddress \/ GetNullable \/ GotNullable \/ GetVariant \/ TryGet
      \/ GetTable \/ Visit \/ VisitComplete \/ VisitGot \/ VisitFailed
  BY <1>1, <1>2 DEF Next, PushValue, GetValue, PassValue, Pop, RegisterAnyPush, AddConverter,
                    EnableExceptions
<1>4. before' = before
  BY <1>3 DEF PushOne, PushWrapped, Build, Fill, FillKeyed, Store, Filled, FillFailed,
     GetOne, BadArgument, Leave, GetAddress, GetNullable, GotNullable, GetVariant, TryGet,
     GetTable, Visit, VisitComplete, VisitGot, VisitFailed, Aside
<1>5. now'.at # "idle"
  <2>1. CASE PushOne \/ Filled \/ FillFailed
    BY <2>1 DEF PushOne, Filled, FillFailed, Return, Pushed, NotPushed, At
  <2>2. CASE PushWrapped
    <3>1. CASE now.type[1] \in Wrappers
      BY <3>1, <2>2 DEF PushWrapped, ToPush, At, Wrappers
    <3>2. CASE now.type[1] = "variant"
      BY <3>2, <2>2 DEF PushWrapped, ToPush, At, Wrappers
    <3>3. CASE now.type[1] = "any"
      BY <3>3, <2>2 DEF PushWrapped, ToPush, NotPushed, At, Wrappers
    <3>4. QED
      BY <3>1, <3>2, <3>3, <2>2 DEF PushWrapped, Wraps
  <2>3. CASE Build
    BY <2>3 DEF Build, Call, Looping, NotPushed, At
  <2>4. CASE Fill \/ FillKeyed
    BY <2>4 DEF Fill, FillKeyed, Filling, Goto, ToPush, At
  <2>5. CASE Store
    <3>1. now' = IndexIsNil \/ now' = Looping
      BY <2>5 DEF Store, Raise, Goto
    <3>2. IndexIsNil.at # "idle" /\ Looping.at # "idle"
      BY DEF IndexIsNil, Looping, At
    <3>3. QED
      BY <3>1, <3>2
  <2>6. CASE GetOne \/ BadArgument \/ Leave \/ GetAddress \/ GetNullable
    <3>1. CASE GetOne
      BY <3>1, GetOneIs DEF Got, NotGot, At
    <3>2. CASE GetAddress \/ GetNullable
      BY <3>2 DEF GetAddress, GetNullable, Call, Got, NotGot, ToGet, At
    <3>3. QED
      BY <3>1, <3>2, <2>6, LeftAt
  <2>7. CASE GotNullable \/ GetVariant \/ TryGet
    BY <2>7 DEF GotNullable, GetVariant, TryGet, Call, Return, Goto, Got, NotGot, ToGet, At
  <2>8. CASE GetTable \/ VisitComplete \/ VisitFailed
    BY <2>8 DEF GetTable, VisitComplete, VisitFailed, Call, Returned, Return, GotAll, Got,
                NotGot, Looping, At
  <2>9. CASE Visit
    <3> DEFINE c == Last(calls)
               top == Len(stack) + 1
               to == IF KeyFirst(c.type) THEN GetKey(c.type, top)
                                         ELSE GetElement(c.type, c.pairs, top)
               end == IF c.type[1] = "tuple" THEN NotGot(c.type, c.index) ELSE GotAll(c)
    <3>1. now' = InvalidKey \/ now' = end \/ now' = to
      BY <2>9 DEF Visit, Raise, Returned, Return, Goto, Caller
    <3>2. InvalidKey.at # "idle" /\ to.at # "idle" /\ end.at # "idle"
      BY DEF InvalidKey, GetKey, GetElement, GotAll, Got, NotGot, ToGet, At
    <3> HIDE DEF to, end
    <3>3. QED
      BY <3>1, <3>2
  <2>10. CASE VisitGot
    BY <2>10 DEF VisitGot, Goto, GetKey, GetElement, Looping, ToGet, At
  <2>11. QED
    BY <1>3, <2>1, <2>2, <2>3, <2>4, <2>5, <2>6, <2>7, <2>8, <2>9, <2>10
<1>6. QED
  BY <1>4, <1>5

(* A conversion is one step of its caller: C++ sees the stack with one     *)
(* value more, as it was, or an error of Lua, and never a table half       *)
(* filled or the key and the value of an entry.                            *)
THEOREM ConversionsAtOnce == Spec => [][AtOnce]_vars
<1>1. ASSUME CallsInv, CallsInv', PushIsWhole', GetReadsOnly', [Next]_vars
      PROVE  [AtOnce]_vars
  <2>1. CASE UNCHANGED vars
    BY <2>1
  <2>2. CASE Next /\ Calling
    <3>1. before' = before /\ now'.at # "idle" /\ Seen = before
      BY <2>2, <1>1, CallKeeps DEF Seen
    <3>2. CASE Calling'
      BY <3>1, <3>2 DEF Seen, AtOnce
    <3>3. CASE ~Calling'
      <4>1. /\ calls' = <<>> /\ now'.at \notin {"push", "get"}
            /\ Seen' = stack' /\ List(stack')
        BY <3>3, <1>1 DEF Calling, Seen, CallsInv
      <4>2. CASE now'.at = "pushed"
        <5>1. Len(stack') = Len(before) + 1 /\ Front(stack') = before
          BY <4>1, <4>2, <3>1, <1>1 DEF PushIsWhole
        <5>2. stack' # <<>>
          <6>1. List(before) /\ Len(before) \in Nat
            <7>1. Framed(stack', calls', before')
              BY <4>1, <4>2, <1>1 DEF CallsInv, Still, IndexIsNil, At, Pushing, Answering, InLoop
            <7>2. QED
              BY <7>1, <3>1, ListLen DEF Framed
          <6>2. Len(stack') >= 1
            BY <6>1, <5>1
          <6>3. QED
            BY <6>2, <4>1, ListLen
        <5>3. QED
          BY <5>1, <5>2, <4>1, <3>1, OneMore DEF AtOnce
      <4>3. CASE now'.at \in {"notpushed", "got", "notgot", "threw", "raised"}
        <5>1. stack' = before
          BY <4>1, <4>3, <3>1, <1>1 DEF PushIsWhole, GetReadsOnly
        <5>2. QED
          BY <5>1, <4>1, <3>1 DEF AtOnce
      <4>4. CASE now'.at \in Still
        <5>1. now'.at = IndexIsNil.at
          BY <4>4, <3>1 DEF Still
        <5>2. QED
          BY <5>1 DEF AtOnce
      <4>5. now'.at \in Still \union Pushes \union Answers \union {"loop"}
        BY <1>1 DEF CallsInv, Pushing, Answering, InLoop
      <4>6. now'.at # "loop"
        BY <4>1, <1>1 DEF CallsInv, Pushing, Pushes, Answering, Answers, InLoop, Still,
                          IndexIsNil, At
      <4>7. QED
        BY <4>1, <4>2, <4>3, <4>4, <4>5, <4>6 DEF Pushes, Answers
    <3>4. QED
      BY <3>2, <3>3
  <2>3. CASE Next /\ ~Calling
    <3>1. calls = <<>> /\ now.at \notin {"push", "get", "loop"} /\ Seen = stack
      BY <2>3, <1>1 DEF Calling, Seen, CallsInv, Pushing, Pushes, Answering, Answers, InLoop,
                        Still, IndexIsNil, At
    <3>2. \/ TakeResult
          \/ \E input \in Inputs : PushValue(input[1], input[2])
          \/ \E T \in Wanted, i \in DOMAIN stack : GetValue(T, i)
          \/ \E x \in Scripts : PassValue(x)
          \/ Pop
          \/ \E T \in AnyTypes : RegisterAnyPush(T)
          \/ \E pair \in Conversions : AddConverter(pair[1], pair[2])
          \/ EnableExceptions
      BY <2>3, <3>1 DEF Next, PushOne, PushWrapped, Build, Fill, FillKeyed, Store, Filled,
         FillFailed, GetOne, BadArgument, Leave, GetAddress, GetNullable, GotNullable, GetVariant, TryGet,
         GetTable, Visit, VisitComplete, VisitGot, VisitFailed, Waiting
    <3>3. CASE TakeResult
      BY <3>1, <3>3 DEF TakeResult, Idle, At, Seen, Calling, AtOnce
    <3>4. CASE \E input \in Inputs : PushValue(input[1], input[2])
      BY <3>1, <3>4 DEF PushValue, ToPush, At, Seen, Calling, AtOnce
    <3>5. CASE \E T \in Wanted, i \in DOMAIN stack : GetValue(T, i)
      BY <3>1, <3>5 DEF GetValue, ToGet, At, Seen, Calling, AtOnce
    <3>6. ASSUME calls' = calls, now' = now
          PROVE  Seen' = stack'
      BY <3>1, <3>6 DEF Seen, Calling
    <3>7. CASE \E x \in Scripts : PassValue(x)
      <4>1. PICK x \in Scripts : PassValue(x)
        BY <3>7
      <4>2. Seen' = Append(Seen, x)
        BY <4>1, <3>1, <3>6 DEF PassValue
      <4>3. QED
        BY <4>2 DEF AtOnce
    <3>8. CASE Pop
      BY <3>1, <3>6, <3>8 DEF Pop, AtOnce
    <3>9. CASE \/ \E T \in AnyTypes : RegisterAnyPush(T)
               \/ \E pair \in Conversions : AddConverter(pair[1], pair[2])
               \/ EnableExceptions
      BY <3>1, <3>6, <3>9 DEF RegisterAnyPush, AddConverter, EnableExceptions, AtOnce
    <3>10. QED
      BY <3>2, <3>3, <3>4, <3>5, <3>7, <3>8, <3>9
  <2>4. QED
    BY <1>1, <2>1, <2>2, <2>3
<1>2. QED
  BY <1>1, CallsNest, PushesWhole, GetsReadOnly, PTL DEF Spec

-----------------------------------------------------------------------------
(* A predicate of types that asks their parts is there: the least set of   *)
(* types that is closed under the definition.                              *)
LEMMA PartsAsked ==
  ASSUME NEW base \in [Wanted -> BOOLEAN], NEW asks \in [Wanted -> BOOLEAN]
  PROVE  \E is : /\ is \in [Wanted -> BOOLEAN]
                 /\ is = [U \in Wanted |-> base[U] \/ (asks[U] /\ \E P \in Parts(U) : is[P])]
<1> DEFINE Yes(U, R) == base[U] \/ (asks[U] /\ \E P \in Parts(U) : P \in R)
           Closed(R) == \A U \in Wanted : Yes(U, R) => U \in R
           S == {U \in Wanted : \A R \in SUBSET Wanted : Closed(R) => U \in R}
           is == [U \in Wanted |-> U \in S]
<1>1. \A U \in Wanted : Yes(U, S) => U \in S
  <2> SUFFICES ASSUME NEW U \in Wanted, Yes(U, S), NEW R \in SUBSET Wanted, Closed(R)
               PROVE  U \in R
    OBVIOUS
  <2>1. S \subseteq R
    OBVIOUS
  <2>2. Yes(U, R)
    BY <2>1
  <2>3. QED
    BY <2>2
<1>2. \A U \in S : Yes(U, S)
  <2> DEFINE R == {U \in S : Yes(U, S)}
  <2>1. R \in SUBSET Wanted /\ R \subseteq S
    OBVIOUS
  <2>2. Closed(R)
    <3> SUFFICES ASSUME NEW U \in Wanted, Yes(U, R) PROVE U \in R
      OBVIOUS
    <3>1. Yes(U, S)
      BY <2>1
    <3>2. U \in S
      BY <3>1, <1>1
    <3>3. QED
      BY <3>1, <3>2
  <2>3. S \subseteq R
    BY <2>1, <2>2
  <2>4. QED
    BY <2>3
<1>3. \A U \in Wanted : Parts(U) \subseteq Wanted
  BY WantedAssumption
<1>4. S \subseteq Wanted
  OBVIOUS
<1>5. \A U \in Wanted : (U \in S) <=> Yes(U, S)
  BY <1>1, <1>2
<1> HIDE DEF S
<1>6. \A U \in Wanted : (U \in S) <=> base[U] \/ (asks[U] /\ \E P \in Parts(U) : is[P])
  <2> TAKE U \in Wanted
  <2>1. (\E P \in Parts(U) : P \in S) <=> (\E P \in Parts(U) : is[P])
    BY <1>3
  <2>2. QED
    BY <2>1, <1>5
<1>7. is = [U \in Wanted |-> base[U] \/ (asks[U] /\ \E P \in Parts(U) : is[P])]
  BY <1>6
<1>8. is \in [Wanted -> BOOLEAN]
  OBVIOUS
<1>9. QED
  BY <1>7, <1>8

(* isInstance asks the parts of a type, and so do MayLeave and Loose.      *)
LEMMA InstanceIs ==
  ASSUME NEW x
  PROVE  \A T \in Wanted : IsInstance(T, x) <=>
           Accepts(T, x) \/ (Asks(T, x) /\ \E P \in Parts(T) : IsInstance(P, x))
<1> DEFINE base == [U \in Wanted |-> IF Accepts(U, x) THEN TRUE ELSE FALSE]
           asks == [U \in Wanted |-> IF Asks(U, x) THEN TRUE ELSE FALSE]
           Defines(is) ==
             is = [U \in Wanted |-> Accepts(U, x) \/ (Asks(U, x) /\ \E P \in Parts(U) : is[P])]
<1>1. base \in [Wanted -> BOOLEAN] /\ asks \in [Wanted -> BOOLEAN]
  OBVIOUS
<1>2. \A U \in Wanted : (base[U] <=> Accepts(U, x)) /\ (asks[U] <=> Asks(U, x))
  OBVIOUS
<1> HIDE DEF base, asks
<1>3. PICK f : /\ f \in [Wanted -> BOOLEAN]
               /\ f = [U \in Wanted |-> base[U] \/ (asks[U] /\ \E P \in Parts(U) : f[P])]
  BY <1>1, PartsAsked
<1>4. Defines(f)
  BY <1>2, <1>3
<1> DEFINE is == CHOOSE g : Defines(g)
<1>5. Defines(is)
  BY <1>4
<1>6. \A T : IsInstance(T, x) = is[T]
  BY DEF IsInstance
<1> HIDE DEF is
<1>7. \A T \in Wanted : is[T] = (Accepts(T, x) \/ (Asks(T, x) /\ \E P \in Parts(T) : is[P]))
  BY <1>5
<1> HIDE DEF Defines
<1>8. QED
  BY <1>6, <1>7

LEMMA LeaveIs ==
  ASSUME NEW x, NEW mode
  PROVE  \A T \in Wanted : MayLeave(T, x, mode) <=>
           (Leaves(T, x, mode)) \/ \E P \in Parts(T) : MayLeave(P, x, mode)
<1> DEFINE Own(U) == Leaves(U, x, mode)
           base == [U \in Wanted |-> IF Own(U) THEN TRUE ELSE FALSE]
           asks == [U \in Wanted |-> TRUE]
           Defines(may) == may = [U \in Wanted |-> Own(U) \/ \E P \in Parts(U) : may[P]]
<1>1. base \in [Wanted -> BOOLEAN] /\ asks \in [Wanted -> BOOLEAN]
  OBVIOUS
<1>2. \A U \in Wanted : (base[U] <=> Own(U)) /\ asks[U]
  OBVIOUS
<1> HIDE DEF base, asks
<1>3. PICK f : /\ f \in [Wanted -> BOOLEAN]
               /\ f = [U \in Wanted |-> base[U] \/ (asks[U] /\ \E P \in Parts(U) : f[P])]
  BY <1>1, PartsAsked
<1>4. Defines(f)
  <2> HIDE DEF Own
  <2>1. QED
    BY <1>2, <1>3
<1> DEFINE may == CHOOSE g : Defines(g)
<1>5. Defines(may)
  <2> HIDE DEF Defines
  <2>1. QED
    BY <1>4
<1>6. \A T : MayLeave(T, x, mode) = may[T]
  BY DEF MayLeave
<1> HIDE DEF may, Own
<1>7. \A T \in Wanted : may[T] = (Own(T) \/ \E P \in Parts(T) : may[P])
  BY <1>5
<1> HIDE DEF Defines
<1>8. \A T \in Wanted : MayLeave(T, x, mode) <=> Own(T) \/ \E P \in Parts(T) : MayLeave(P, x, mode)
  BY <1>6, <1>7
<1>9. QED
  BY <1>8 DEF Own

LEMMA LooseIs ==
  ASSUME NEW x, NEW mode
  PROVE  \A T \in Wanted : Loose(T, x, mode) <=>
           (Unkept(T, x) \/ (T[1] = "variant" /\ MayLeave(T, x, mode))) \/ \E P \in Parts(T) : Loose(P, x, mode)
<1> DEFINE Own(U) == Unkept(U, x) \/ (U[1] = "variant" /\ MayLeave(U, x, mode))
           base == [U \in Wanted |-> IF Own(U) THEN TRUE ELSE FALSE]
           asks == [U \in Wanted |-> TRUE]
           Defines(loose) == loose = [U \in Wanted |-> Own(U) \/ \E P \in Parts(U) : loose[P]]
<1>1. base \in [Wanted -> BOOLEAN] /\ asks \in [Wanted -> BOOLEAN]
  OBVIOUS
<1>2. \A U \in Wanted : (base[U] <=> Own(U)) /\ asks[U]
  OBVIOUS
<1> HIDE DEF base, asks
<1>3. PICK f : /\ f \in [Wanted -> BOOLEAN]
               /\ f = [U \in Wanted |-> base[U] \/ (asks[U] /\ \E P \in Parts(U) : f[P])]
  BY <1>1, PartsAsked
<1>4. Defines(f)
  <2> HIDE DEF Own
  <2>1. QED
    BY <1>2, <1>3
<1> DEFINE loose == CHOOSE g : Defines(g)
<1>5. Defines(loose)
  <2> HIDE DEF Defines
  <2>1. QED
    BY <1>4
<1>6. \A T : Loose(T, x, mode) = loose[T]
  BY DEF Loose
<1> HIDE DEF loose, Own
<1>7. \A T \in Wanted : loose[T] = (Own(T) \/ \E P \in Parts(T) : loose[P])
  BY <1>5
<1> HIDE DEF Defines
<1>8. \A T \in Wanted : Loose(T, x, mode) <=> Own(T) \/ \E P \in Parts(T) : Loose(P, x, mode)
  BY <1>6, <1>7
<1>9. QED
  BY <1>8 DEF Own

(* A type that is asked for holds a value: isInstance accepts it, and it   *)
(* promises a conversion.                                                  *)
Holds(T, x) == T \in Wanted /\ Exact(T, x, exceptions) /\ IsInstance(T, x)
Loud(T, x) == MayLeave(T, x, exceptions)

LEMMA HoldsOf ==
  ASSUME NEW T, NEW x, Holds(T, x)
  PROVE  /\ T \in Wanted /\ Kind(x) # "table" /\ ~Unkept(T, x)
         /\ T[1] = "variant" => ~Loud(T, x)
         /\ Accepts(T, x) \/ (Asks(T, x) /\ \E P \in Parts(T) : Holds(P, x))
<1>1. /\ T \in Wanted /\ Kind(x) # "table" /\ ~Loose(T, x, exceptions)
      /\ IsInstance(T, x)
  BY DEF Holds, Exact
<1>2. /\ ~Unkept(T, x) /\ (T[1] = "variant" => ~Loud(T, x))
      /\ \A P \in Parts(T) : ~Loose(P, x, exceptions)
  BY <1>1, LooseIs DEF Loud
<1>3. Accepts(T, x) \/ (Asks(T, x) /\ \E P \in Parts(T) : IsInstance(P, x))
  BY <1>1, InstanceIs
<1>4. \A P \in Parts(T) : P \in Wanted
  BY <1>1, WantedAssumption
<1>5. QED
  BY <1>1, <1>2, <1>3, <1>4 DEF Holds, Exact

(* No container: isInstance takes any table for one.                       *)
LEMMA NoTableHeld ==
  ASSUME NEW T, NEW x, T[1] \in Containers
  PROVE  ~Holds(T, x)
<1> SUFFICES ASSUME Holds(T, x) PROVE FALSE
  OBVIOUS
<1>1. Parts(T) = {}
  BY DEF Containers, Parts, Wrappers
<1>2. Accepts(T, x) /\ Kind(x) # "table"
  BY <1>1, HoldsOf
<1>3. QED
  BY <1>2 DEF Accepts, Containers

(* A value that is held by a type of one value converts.                   *)
LEMMA OneHeld ==
  ASSUME NEW T, NEW x, T[1] \notin Containers \union Wrappers \union {"variant"}, Holds(T, x)
  PROVE  FromLua(T, x) # {}
<1>1. Parts(T) = {}
  BY DEF Parts, Wrappers
<1>2. /\ T \in Wanted /\ Accepts(T, x) /\ Kind(x) # "table"
      /\ ~Unkept(T, x) /\ T[1] # "enum"
  BY <1>1, HoldsOf DEF Unkept
<1>3. CASE T[1] = "integer"
  BY <1>2, <1>3 DEF Accepts, FromLua, GetInteger, When
<1>4. CASE T[1] = "floating"
  BY <1>2, <1>4 DEF Accepts, FromLua, When
<1>5. CASE T[1] = "bool"
  BY <1>5 DEF FromLua
<1>6. CASE T[1] = "char"
  BY <1>2, <1>6 DEF Accepts, FromLua, When
<1>7. CASE T[1] \in {"view", "path"}
  BY <1>2, <1>7 DEF Accepts, FromLua, When
<1>8. CASE T[1] = "string"
  BY <1>2, <1>8 DEF Accepts, FromLua, When
<1>9. CASE T[1] = "cstring"
  BY <1>2, <1>9 DEF Accepts, FromLua, When
<1>10. CASE T[1] = "pointer"
  BY <1>2, <1>10 DEF Accepts, FromLua, When
<1>11. CASE T[1] = "cfunction"
  BY <1>2, <1>11 DEF Accepts, FromLua, When
<1>12. CASE T[1] = "class"
  <2>1. T[3] \in Ways
    BY <1>2, <1>12, WantedAssumption
  <2>2. IsA(T[2], x)
    BY <1>2, <1>12 DEF Accepts
  <2>3. /\ ~(T[3] = "pointer" /\ x[2].const)
        /\ ~(T[3] \in {"value", "converted"} /\ x[2].null)
    BY <2>2, <1>2, <1>12 DEF Unkept, IsA
  <2>4. Takes(T, x)
    BY <2>1, <2>2, <2>3 DEF Takes, Serves, Ways, Found
  <2>5. QED
    BY <2>4, <1>12 DEF FromLua, GetClass, When
<1>13. CASE T[1] \in {"nullptr", "monostate"}
  BY <1>2, <1>13 DEF Accepts, FromLua, When
<1>14. QED
  BY <1>2, <1>3, <1>4, <1>5, <1>6, <1>7, <1>8, <1>9, <1>10, <1>11, <1>12, <1>13
     DEF Accepts, Containers, Wrappers

(* What an optional, an Expected or a T* holds is held inside.             *)
LEMMA WrappedHeld ==
  ASSUME NEW T, NEW x, T[1] \in Wrappers, Holds(T, x)
  PROVE  /\ Holds(T[2], x) \/ (T[1] = "optional" /\ x = Nil)
         /\ T[1] = "expected" => x # Nil
<1>1. Parts(T) = {T[2]}
  BY DEF Parts, Wrappers
<1>2. Accepts(T, x) \/ (Asks(T, x) /\ Holds(T[2], x))
  BY <1>1, HoldsOf
<1>3. Accepts(T, x) => T[1] = "optional" /\ x = Nil
  BY DEF Accepts, Wrappers
<1>4. QED
  BY <1>2, <1>3 DEF Asks

LEMMA VariantHeld ==
  ASSUME NEW T, NEW x, T[1] = "variant", Holds(T, x)
  PROVE  /\ \E m \in 1..Len(T[2]) : Holds(T[2][m], x)
         /\ Len(T[2]) \in Nat
<1>1. T[2] \in Seq(Wanted)
  BY HoldsOf, WantedAssumption
<1>2. Len(T[2]) \in Nat /\ DOMAIN T[2] = 1..Len(T[2])
  BY <1>1
<1>3. Parts(T) = {T[2][n] : n \in DOMAIN T[2]}
  BY DEF Parts, Wrappers
<1>4. ~Accepts(T, x)
  BY DEF Accepts
<1>5. \E P \in Parts(T) : Holds(P, x)
  BY <1>4, HoldsOf
<1>6. QED
  BY <1>2, <1>3, <1>5

LEMMA PartsHeard ==
  ASSUME NEW T \in Wanted, NEW P \in Parts(T)
  PROVE  P \in Wanted /\ \A x : Loud(P, x) => Loud(T, x)
<1>1. P \in Wanted
  BY WantedAssumption
<1>2. ASSUME NEW x, Loud(P, x)
      PROVE  Loud(T, x)
  BY <1>2, LeaveIs DEF Loud
<1>3. QED
  BY <1>1, <1>2

(* A call waits for an answer about the same value, and what it has to     *)
(* convert is held by the type it asks, or by an alternative that is left. *)
Pending(f, T, x) ==
  Holds(f.type, x) => \/ Holds(T, x)
                      \/ f.of = "try" /\ \E m \in 1..Len(f.type[2]) :
                                           m > f.n /\ Holds(f.type[2][m], x)
Heard(f, T, x) == f.type \in Wanted => T \in Wanted /\ (Loud(T, x) => Loud(f.type, x))
Waits(f, c, s) ==
  /\ f.of \in {"try", "wrap"} => /\ c.index = f.index
                                /\ Pending(f, c.type, s[f.index])
                                /\ Heard(f, c.type, s[f.index])
  /\ f.of = "try" => f.n \in Nat /\ f.type[1] = "variant"
  /\ f.of = "visit" => f.type[1] \in Containers /\ Kind(s[f.index]) = "table"
Callee(frames, c, k) == IF k < Len(frames) THEN frames[k + 1] ELSE c
Asked(s, frames, c) ==
  /\ \A k \in 1..Len(frames) : Waits(frames[k], Callee(frames, c, k), s)
  /\ Callee(frames, c, 0).type \in Wanted
Asking == now.at \in Answers \/ (now.at = "loop" /\ Last(calls).of = "visit")

(* What left its call by an exception or an error of Lua might have.       *)
Spoken(T, x) == Kind(x) = "table" \/ (T \in Wanted => Loud(T, x))
ChecksInv ==
  /\ Asking => Asked(stack, calls, now)
  /\ now.at \in {"notgot", "threw", "raised"} => ~Holds(now.type, stack[now.index])
  /\ now.at \in {"threw", "raised"} => Spoken(now.type, stack[now.index])

LEMMA AlternativeHeard ==
  ASSUME NEW T \in Wanted, T[1] = "variant", NEW n \in Nat, n >= 1, n <= Len(T[2])
  PROVE  T[2][n] \in Wanted /\ \A x : Loud(T[2][n], x) => Loud(T, x)
<1>1. T[2] \in Seq(Wanted)
  BY WantedAssumption
<1>2. n \in DOMAIN T[2]
  BY <1>1
<1>3. Parts(T) = {T[2][m] : m \in DOMAIN T[2]}
  BY DEF Parts, Wrappers
<1>4. T[2][n] \in Parts(T)
  BY <1>2, <1>3
<1>5. QED
  BY <1>4, PartsHeard

LEMMA AskedOf ==
  ASSUME NEW s, NEW frames, List(frames), NEW c, Asked(s, frames, c),
         NEW d, d.index = c.index,
         c.type \in Wanted => /\ d.type \in Wanted
                              /\ Loud(d.type, s[c.index]) => Loud(c.type, s[c.index]),
         Holds(c.type, s[c.index]) => Holds(d.type, s[c.index])
  PROVE  Asked(s, frames, d)
<1>1. Len(frames) \in Nat
  BY ListLen
<1>2. ASSUME NEW f, Waits(f, c, s)
      PROVE  Waits(f, d, s)
  BY <1>2 DEF Waits, Pending, Heard
<1>3. \A k \in 1..Len(frames) : Waits(frames[k], Callee(frames, d, k), s)
  <2> TAKE k \in 1..Len(frames)
  <2>1. Waits(frames[k], Callee(frames, c, k), s)
    BY DEF Asked
  <2>2. QED
    BY <2>1, <1>2 DEF Callee
<1>4. Callee(frames, d, 0).type \in Wanted
  BY <1>1 DEF Asked, Callee
<1>5. QED
  BY <1>3, <1>4 DEF Asked

(* What is asked now is what the last call asked.                          *)
LEMMA AskedBefore ==
  ASSUME NEW s, NEW frames, List(frames), frames # <<>>, NEW c, Asked(s, frames, c)
  PROVE  Asked(s, Front(frames), Last(frames)) /\ Waits(Last(frames), c, s)
<1> DEFINE less == Front(frames)
           n == Len(frames)
           f == Last(frames)
<1>1. /\ List(less) /\ Len(less) = n - 1 /\ \A i \in 1..n - 1 : less[i] = frames[i]
      /\ n \in Nat /\ n >= 1 /\ f = frames[n]
  BY ListFront
<1> HIDE DEF less, f
<1>2. \A k \in 0..n - 1 : Callee(less, f, k) = frames[k + 1]
  BY <1>1 DEF Callee
<1>3. \A k \in 0..n - 1 : Callee(less, f, k) = Callee(frames, c, k)
  BY <1>1, <1>2 DEF Callee
<1>4. \A k \in 1..n - 1 : Waits(less[k], Callee(less, f, k), s)
  <2> TAKE k \in 1..n - 1
  <2>1. k \in 1..n /\ k \in 0..n - 1
    BY <1>1
  <2>2. Waits(frames[k], Callee(frames, c, k), s)
    BY <2>1 DEF Asked
  <2>3. QED
    BY <2>1, <2>2, <1>1, <1>3
<1>5. Callee(less, f, 0).type \in Wanted
  BY <1>1, <1>3 DEF Asked
<1>6. Asked(s, less, f)
  BY <1>1, <1>4, <1>5 DEF Asked
<1>7. Waits(f, c, s)
  <2>1. n \in 1..n /\ Callee(frames, c, n) = c
    BY <1>1 DEF Callee
  <2>2. QED
    BY <2>1, <1>1 DEF Asked
<1>8. QED
  BY <1>6, <1>7 DEF less, f

LEMMA AskedNext ==
  ASSUME NEW s, NEW frames, List(frames), NEW f, Asked(s, frames, f),
         NEW c, Waits(f, c, s)
  PROVE  Asked(s, Append(frames, f), c)
<1> DEFINE more == Append(frames, f)
           n == Len(frames)
<1>1. /\ Len(more) = n + 1 /\ n \in Nat /\ more[n + 1] = f
      /\ \A k \in 1..n : more[k] = frames[k]
  BY ListAppend, ListLen
<1> HIDE DEF more
<1>2. \A k \in 0..n : Callee(more, c, k) = Callee(frames, f, k)
  BY <1>1 DEF Callee
<1>3. \A k \in 1..n + 1 : Waits(more[k], Callee(more, c, k), s)
  <2> TAKE k \in 1..n + 1
  <2>1. CASE k = n + 1
    BY <2>1, <1>1 DEF Callee
  <2>2. CASE k # n + 1
    <3>1. k \in 1..n /\ k \in 0..n
      BY <2>2, <1>1
    <3>2. Waits(frames[k], Callee(frames, f, k), s)
      BY <3>1 DEF Asked
    <3>3. QED
      BY <3>1, <3>2, <1>1, <1>2
  <2>3. QED
    BY <2>1, <2>2
<1>4. Callee(more, c, 0).type \in Wanted
  BY <1>1, <1>2 DEF Asked
<1>5. QED
  BY <1>1, <1>3, <1>4 DEF Asked, more

(* The stack changes above the calls: what they wait for is the same.      *)
LEMMA AskedAbove ==
  ASSUME NEW s, NEW frames, NEW under, Framed(s, frames, under),
         NEW c, Asked(s, frames, c),
         NEW t, Same(t, s, Depth(frames, under))
  PROVE  Asked(t, frames, c)
<1> DEFINE n == Len(frames)
<1>1. List(under) /\ List(frames) /\ Frames(frames) /\ Chained(frames, under)
  BY DEF Framed
<1>2. /\ n \in Nat /\ Depth(frames, under) = Height(frames, under, n)
      /\ \A k \in 0..n : Height(frames, under, k) \in Nat
  BY <1>1, Heights DEF Depth
<1>3. \A k \in 1..n : Waits(frames[k], Callee(frames, c, k), t)
  <2> TAKE k \in 1..n
  <2>1. Waits(frames[k], Callee(frames, c, k), s)
    BY DEF Asked
  <2>2. CASE frames[k].of \in {"try", "wrap", "visit"}
    <3>1. /\ frames[k].index \in 1..frames[k].base /\ frames[k].base \in Nat
          /\ frames[k].base = Height(frames, under, k - 1)
      BY <2>2, <1>1 DEF Frames, Frame, Chained
    <3>2. Height(frames, under, k - 1) <= Height(frames, under, n)
      <4>1. k - 1 \in 0..n /\ n \in 0..n /\ k - 1 <= n
        BY <1>2
      <4>2. QED
        BY <4>1, <1>1 DEF Chained
    <3>3. frames[k].index \in 1..Depth(frames, under)
      BY <3>1, <3>2, <1>2
    <3>4. t[frames[k].index] = s[frames[k].index]
      BY <3>3 DEF Same
    <3>5. QED
      BY <3>4, <2>1 DEF Waits
  <2>3. CASE frames[k].of \notin {"try", "wrap", "visit"}
    BY <2>1, <2>3 DEF Waits
  <2>4. QED
    BY <2>2, <2>3
<1>4. QED
  BY <1>3 DEF Asked

LEMMA LastCalled ==
  ASSUME NEW frames, List(frames), NEW f
  PROVE  Last(Append(frames, f)) = f
<1> DEFINE more == Append(frames, f)
<1>1. Len(more) = Len(frames) + 1 /\ more[Len(frames) + 1] = f
  BY ListAppend
<1> HIDE DEF more
<1>2. Last(more) = f
  BY <1>1 DEF Last
<1>3. QED
  BY <1>2 DEF more

(* A step of a push asks nothing.                                          *)
LEMMA PushAsksNothing ==
  ASSUME CallsInv,
         PushOne \/ PushWrapped \/ Build \/ Fill \/ FillKeyed \/ Store \/ Filled \/ FillFailed
  PROVE  ~Asking' /\ now'.at \notin {"notgot", "threw", "raised"}
<1>1. CASE now' \in {Pushed, NotPushed, IndexIsNil}
  <2>1. now'.at \in {"pushed", "notpushed", "index is nil"}
    <3>1. Pushed.at = "pushed" /\ NotPushed.at = "notpushed" /\ IndexIsNil.at = "index is nil"
      BY DEF Pushed, NotPushed, IndexIsNil, At
    <3>2. QED
      BY <3>1, <1>1
  <2>2. QED
    BY <2>1 DEF Asking, Answers
<1>2. CASE now'.at = "push"
  BY <1>2 DEF Asking, Answers
<1>3. CASE now' = Looping /\ Last(calls').of = "fill"
  BY <1>3 DEF Asking, Answers, Looping, At
<1>4. CASE PushOne
  BY <1>4, <1>1 DEF PushOne
<1>5. CASE PushWrapped
  <2>1. now'.at = "push" \/ now' = NotPushed
    <3>1. CASE now.type[1] \in Wrappers
      BY <3>1, <1>5 DEF PushWrapped, ToPush, At, Wrappers
    <3>2. CASE now.type[1] = "variant"
      BY <3>2, <1>5 DEF PushWrapped, ToPush, At, Wrappers
    <3>3. CASE now.type[1] = "any"
      BY <3>3, <1>5 DEF PushWrapped, ToPush, At, Wrappers
    <3>4. QED
      BY <3>1, <3>2, <3>3, <1>5 DEF PushWrapped, Wraps
  <2>2. QED
    BY <2>1, <1>1, <1>2
<1>6. CASE Build
  <2> DEFINE f == FillFrame(now.type, Len(stack), Entries(now.type, now.value), "next")
  <2>1. CASE now' = NotPushed
    BY <2>1, <1>1
  <2>2. CASE now' = Looping /\ calls' = Append(calls, f)
    <3>1. List(calls)
      <4>1. now.at = "push"
        BY <1>6 DEF Build
      <4>2. QED
        BY <4>1, PushingNow DEF Pushes, Framed
    <3>2. f.of = "fill"
      BY DEF FillFrame
    <3> HIDE DEF f
    <3>3. Last(calls') = f
      BY <2>2, <3>1, LastCalled
    <3>4. QED
      BY <3>2, <3>3, <2>2, <1>3
  <2>3. QED
    BY <2>1, <2>2, <1>6 DEF Build, Call
<1>7. CASE Fill \/ FillKeyed
  <2>1. now'.at = "push"
    BY <1>7 DEF Fill, FillKeyed, Filling, Goto, ToPush, At
  <2>2. QED
    BY <2>1, <1>2
<1>8. CASE Store
  <2> DEFINE f == FillFrame(Caller.type, Caller.base, Tail(Caller.items), "next")
  <2>1. CASE now' = IndexIsNil
    BY <2>1, <1>1
  <2>2. CASE now' = Looping /\ calls' = Append(Front(calls), f)
    <3>1. List(Front(calls))
      <4>1. now.at = "pushed" /\ calls # <<>>
        BY <1>8 DEF Store, Waiting
      <4>2. List(calls)
        BY <4>1, PushingNow DEF Pushes, Framed
      <4>3. QED
        BY <4>1, <4>2, ListFront
    <3>2. f.of = "fill"
      BY DEF FillFrame
    <3> HIDE DEF f
    <3>3. Last(calls') = f
      BY <2>2, <3>1, LastCalled
    <3>4. QED
      BY <3>2, <3>3, <2>2, <1>3
  <2>3. QED
    BY <2>1, <2>2, <1>8 DEF Store, Raise, Goto
<1>9. CASE Filled \/ FillFailed
  BY <1>9, <1>1 DEF Filled, FillFailed, Return
<1>10. QED
  BY <1>4, <1>5, <1>6, <1>7, <1>8, <1>9

(* What a step of a get does to what is asked: the call goes on with       *)
(* another type, it waits for one it makes, it returns.                    *)
LEMMA ChecksThen ==
  ASSUME Asked(stack', calls', now'),
         now'.at \in {"notgot", "threw", "raised"} => ~Holds(now'.type, stack'[now'.index]),
         now'.at \in {"threw", "raised"} => Spoken(now'.type, stack'[now'.index]),
         exceptions' = exceptions
  PROVE  ChecksInv'
<1>1. Asked(stack, calls, now)'
  BY DEF Asked, Waits, Pending, Heard, Holds, Loud
<1>2. now'.at \in {"notgot", "threw", "raised"} => ~Holds(now.type, stack[now.index])'
  BY DEF Holds
<1>3. now'.at \in {"threw", "raised"} => Spoken(now.type, stack[now.index])'
  BY DEF Spoken, Loud
<1>4. QED
  BY <1>1, <1>2, <1>3 DEF ChecksInv

LEMMA AskedNow ==
  ASSUME CallsInv, ChecksInv, now.at \in Answers
  PROVE  Asked(stack, calls, now) /\ List(calls)
BY AnsweringNow DEF ChecksInv, Asking, Framed

LEMMA AskedLooping ==
  ASSUME CallsInv, ChecksInv, now.at = "loop", calls # <<>>, Last(calls).of = "visit"
  PROVE  /\ Asked(stack, Front(calls), Last(calls)) /\ List(calls)
         /\ Last(calls).type[1] \in Containers
         /\ Kind(stack[Last(calls).index]) = "table"
<1>1. Asked(stack, calls, now) /\ List(calls)
  BY LoopingNow DEF ChecksInv, Asking, Framed
<1>2. QED
  BY <1>1, AskedBefore DEF Waits

(* A visit goes on or returns, and its place on the stack is its own.      *)
LEMMA VisitAsked ==
  ASSUME Framed(stack, calls, before), calls # <<>>, List(stack'),
         Same(stack', stack, Last(calls).base), Last(calls).of = "visit",
         Asked(stack, Front(calls), Last(calls)), Kind(stack[Last(calls).index]) = "table"
  PROVE  /\ Asked(stack', Front(calls), Last(calls)) /\ List(Front(calls))
         /\ Kind(stack'[Last(calls).index]) = "table"
<1>1. /\ Framed(stack, Front(calls), before)
      /\ Last(calls).base = Depth(Front(calls), before) /\ Frame(Last(calls))
  BY CallEnds
<1>2. Same(stack', stack, Depth(Front(calls), before))
  BY <1>1
<1>3. stack'[Last(calls).index] = stack[Last(calls).index]
  BY <1>1 DEF Frame, Same
<1>4. QED
  BY <1>1, <1>2, <1>3, AskedAbove DEF Framed

LEMMA VisitReturns ==
  ASSUME Asked(stack', Front(calls), Last(calls)), List(Front(calls)),
         Last(calls).type[1] \in Containers,
         NEW result, Return(result),
         result.type = Last(calls).type, result.index = Last(calls).index,
         Kind(stack'[Last(calls).index]) = "table", exceptions' = exceptions
  PROVE  ChecksInv'
<1>1. calls' = Front(calls) /\ now' = result
  BY DEF Return
<1>2. Asked(stack', Front(calls), result)
  BY AskedOf
<1>3. ~Holds(result.type, stack'[result.index]) /\ Spoken(result.type, stack'[result.index])
  BY NoTableHeld DEF Spoken
<1>4. QED
  BY <1>1, <1>2, <1>3, ChecksThen

LEMMA VisitGoesOn ==
  ASSUME Asked(stack', Front(calls), Last(calls)), List(Front(calls)),
         Last(calls).type[1] \in Containers,
         NEW f, f.of = "visit", f.type = Last(calls).type, f.index = Last(calls).index,
         NEW to, to.at \in {"get", "loop"}, Goto(f, to),
         Kind(stack'[Last(calls).index]) = "table", exceptions' = exceptions
  PROVE  ChecksInv'
<1>1. calls' = Append(Front(calls), f) /\ now' = to
  BY DEF Goto
<1>2. Asked(stack', Front(calls), f)
  BY AskedOf
<1>3. Waits(f, to, stack')
  BY DEF Waits
<1>4. Asked(stack', calls', to)
  BY <1>1, <1>2, <1>3, AskedNext
<1>5. QED
  BY <1>1, <1>4, ChecksThen

(* An answer of the type that was asked, about the value that was asked.   *)
LEMMA Answered ==
  ASSUME NEW result, NEW T, NEW i, NEW v, result = Got(T, v, i) \/ result = NotGot(T, i)
  PROVE  result.type = T /\ result.index = i /\ result.at \in {"got", "notgot"}
BY DEF Got, NotGot, At

(* A call that asked one type returns.                                     *)
LEMMA CallAnswers ==
  ASSUME CallsInv, ChecksInv, now.at \in Answers, calls # <<>>, stack' = stack,
         NEW result, Return(result),
         result.type = Last(calls).type, result.index = Last(calls).index,
         result.at \in {"notgot", "threw", "raised"}
           => ~Holds(Last(calls).type, stack[Last(calls).index]),
         result.at \in {"threw", "raised"}
           => Spoken(Last(calls).type, stack[Last(calls).index]),
         exceptions' = exceptions
  PROVE  ChecksInv'
<1>1. Asked(stack, Front(calls), Last(calls)) /\ List(Front(calls))
  BY AskedNow, AskedBefore, ListFront
<1>2. calls' = Front(calls) /\ now' = result
  BY DEF Return
<1>3. Asked(stack, Front(calls), result)
  BY <1>1, AskedOf
<1>4. QED
  BY <1>2, <1>3, ChecksThen

LEMMA GetOneChecks ==
  ASSUME CallsInv, ChecksInv, GetOne
  PROVE  ChecksInv'
<1> DEFINE T == now.type
           i == now.index
           x == stack[now.index]
<1>1. /\ now.at = "get" /\ T[1] \notin Containers \union Wrappers \union {"variant"}
      /\ stack' = stack /\ calls' = calls /\ exceptions' = exceptions
      /\ \/ \E v : now' = Got(T, v, i)
         \/ FromLua(T, x) = {} /\ now' = NotGot(T, i)
  BY DEF GetOne, ConvertedCopy, Aside
<1>2. Asked(stack, calls, now) /\ List(calls)
  BY <1>1, AskedNow DEF Answers
<1>3. now'.type = T /\ now'.index = i /\ now'.at \in {"got", "notgot"}
  BY <1>1, Answered
<1>4. now'.at = "notgot" => FromLua(T, x) = {}
  BY <1>1 DEF Got, At
<1>5. now'.at = "notgot" => ~Holds(T, x)
  BY <1>1, <1>4, OneHeld
<1>6. Asked(stack, calls, now')
  BY <1>2, <1>3, AskedOf
<1>7. QED
  BY <1>1, <1>3, <1>5, <1>6, ChecksThen

(* An argument that is refused loudly is not held, and its type may do so. *)
LEMMA BadArgumentChecks ==
  ASSUME CallsInv, ChecksInv, BadArgument
  PROVE  ChecksInv'
<1> DEFINE T == now.type
           i == now.index
           x == stack[now.index]
           told == Told(T, x)
<1>1. /\ now.at = "get" /\ T[1] = "class" /\ FromLua(T, x) = {}
      /\ stack' = stack /\ calls' = calls /\ exceptions' = exceptions
      /\ told \in {"bad argument", "no value"}
      /\ now'.type = T /\ now'.index = i
  BY DEF BadArgument, Aside, Left, At
<1>2. Asked(stack, calls, now) /\ List(calls)
  BY <1>1, AskedNow DEF Answers
<1>3. T[1] \notin Containers \union Wrappers \union {"variant"}
  BY <1>1 DEF Containers, Wrappers
<1>4. ~Holds(T, x)
  BY <1>1, <1>3, OneHeld
<1>5. Spoken(T, x)
  <2> SUFFICES ASSUME T \in Wanted PROVE Loud(T, x)
    BY DEF Spoken
  <2>1. ~Serves(T, x)
    BY <1>1 DEF FromLua, GetClass, When, Takes
  <2>2. T[3] # "converted" /\ (exceptions = "enabled" \/ x = Nil \/ Found(T, x))
    BY <1>1 DEF Told
  <2>3. Leaves(T, x, exceptions)
    BY <2>1, <2>2, <1>1 DEF Leaves
  <2>4. QED
    BY <2>3, LeaveIs DEF Loud
<1>6. Asked(stack, calls, now')
  BY <1>1, <1>2, AskedOf
<1>7. QED
  BY <1>1, <1>4, <1>5, <1>6, ChecksThen

LEMMA GetAddressChecks ==
  ASSUME CallsInv, ChecksInv, GetAddress
  PROVE  ChecksInv'
<1> DEFINE T == now.type
<1>1. /\ now.at = "get" /\ T[1] = "address" /\ stack' = stack /\ calls' = calls
      /\ now'.at = "get" /\ now'.type = T[2] /\ now'.index = now.index
      /\ exceptions' = exceptions
  BY DEF GetAddress, ToGet, At, Aside
<1>2. Asked(stack, calls, now) /\ List(calls)
  BY <1>1, AskedNow DEF Answers
<1>3. ASSUME T \in Wanted
      PROVE  T[2] \in Wanted /\ \A x : Loud(T[2], x) => Loud(T, x)
  <2>1. Parts(T) = {T[2]}
    BY <1>1 DEF Parts, Wrappers
  <2>2. QED
    BY <2>1, <1>3, PartsHeard
<1>4. \A x : Holds(T, x) => Holds(T[2], x)
  <2> TAKE x
  <2> HAVE Holds(T, x)
  <2>1. T[1] \in Wrappers /\ T[1] # "optional"
    BY <1>1 DEF Wrappers
  <2>2. QED
    BY <2>1, WrappedHeld
<1>5. Asked(stack, calls, now')
  BY <1>1, <1>2, <1>3, <1>4, AskedOf
<1>6. QED
  BY <1>1, <1>5, ChecksThen

LEMMA AsksInsideChecks ==
  ASSUME CallsInv, ChecksInv, now.at = "get", stack' = stack,
         NEW f, f.type = now.type, f.index = now.index,
         calls' = Append(calls, f), now'.at = "get", Waits(f, now', stack),
         exceptions' = exceptions
  PROVE  ChecksInv'
<1>1. Asked(stack, calls, now) /\ List(calls)
  BY AskedNow DEF Answers
<1>2. Asked(stack, calls, f)
  BY <1>1, AskedOf
<1>3. Asked(stack, calls', now')
  BY <1>1, <1>2, AskedNext
<1>4. QED
  BY <1>3, ChecksThen

LEMMA GetNullableChecks ==
  ASSUME CallsInv, ChecksInv, GetNullable
  PROVE  ChecksInv'
<1> DEFINE T == now.type
           i == now.index
           x == stack[now.index]
           f == WrapFrame(T, i, Len(stack))
<1>1. /\ now.at = "get" /\ T[1] \in {"optional", "expected"} /\ T[1] \in Wrappers
      /\ stack' = stack /\ exceptions' = exceptions
  BY DEF GetNullable, Wrappers, Aside
<1>2. CASE x = Nil
  <2>1. /\ calls' = calls
        /\ now' = Got(T, <<>>, i) \/ (now' = NotGot(T, i) /\ T[1] = "expected")
    BY <1>1, <1>2 DEF GetNullable
  <2>2. now'.type = T /\ now'.index = i /\ now'.at \in {"got", "notgot"}
    BY <2>1, Answered
  <2>3. now'.at = "notgot" => T[1] = "expected"
    BY <2>1 DEF Got, At
  <2>4. now'.at = "notgot" => ~Holds(T, x)
    BY <2>3, <1>1, <1>2, WrappedHeld
  <2>5. Asked(stack, calls, now) /\ List(calls)
    BY <1>1, AskedNow DEF Answers
  <2>6. Asked(stack, calls, now')
    BY <2>2, <2>5, AskedOf
  <2>7. QED
    BY <2>1, <2>2, <2>4, <2>6, <1>1, ChecksThen
<1>3. CASE x # Nil
  <2>1. /\ calls' = Append(calls, f) /\ now'.at = "get"
        /\ now'.type = T[2] /\ now'.index = i
    BY <1>3 DEF GetNullable, Call, ToGet, At
  <2>2. f.of = "wrap" /\ f.type = T /\ f.index = i
    BY DEF WrapFrame
  <2> HIDE DEF f
  <2>3. Holds(T, x) => Holds(T[2], x)
    BY <1>1, <1>3, WrappedHeld
  <2>4. Heard(f, T[2], x)
    <3>1. T[2] \in Parts(T)
      BY <1>1 DEF Parts, Wrappers
    <3>2. QED
      BY <3>1, <2>2, PartsHeard DEF Heard
  <2>5. Waits(f, now', stack)
    BY <2>1, <2>2, <2>3, <2>4 DEF Waits, Pending
  <2>6. QED
    BY <2>1, <2>2, <2>5, <1>1, AsksInsideChecks
<1>4. QED
  BY <1>2, <1>3

LEMMA GotNullableChecks ==
  ASSUME CallsInv, ChecksInv, GotNullable
  PROVE  ChecksInv'
<1> DEFINE f == Last(calls)
           result == IF now.at = "got" THEN Got(f.type, <<now.value>>, f.index)
                                       ELSE NotGot(f.type, f.index)
<1>1. /\ now.at \in Answers /\ now.at \in {"got", "notgot"} /\ calls # <<>> /\ f.of = "wrap"
      /\ stack' = stack /\ Return(result) /\ exceptions' = exceptions
  BY DEF GotNullable, Waiting, Caller, Answers, Aside
<1>2. result.type = f.type /\ result.index = f.index /\ result.at \in {"got", "notgot"}
  BY Answered
<1>3. result.at = "notgot" => now.at = "notgot"
  BY <1>1 DEF Got, At
<1> HIDE DEF result
<1>4. Waits(f, now, stack)
  BY <1>1, AskedNow, AskedBefore
<1>5. now.at = "notgot" => ~Holds(f.type, stack[f.index])
  BY <1>1, <1>4 DEF Waits, Pending, ChecksInv
<1>6. QED
  BY <1>1, <1>2, <1>3, <1>5, CallAnswers

LEMMA GetVariantChecks ==
  ASSUME CallsInv, ChecksInv, GetVariant
  PROVE  ChecksInv'
<1> DEFINE T == now.type
           i == now.index
           x == stack[now.index]
           f == TryFrame(T, i, Len(stack), 1)
<1>1. /\ now.at = "get" /\ stack' = stack /\ T[1] = "variant"
      /\ calls' = Append(calls, f) /\ now'.at = "get"
      /\ now'.type = T[2][1] /\ now'.index = i /\ exceptions' = exceptions
  BY DEF GetVariant, Call, ToGet, At, Aside
<1>2. f.of = "try" /\ f.type = T /\ f.index = i /\ f.n = 1
  BY DEF TryFrame
<1> HIDE DEF f
<1>3. ASSUME Holds(T, x)
      PROVE  Holds(T[2][1], x) \/ \E m \in 1..Len(T[2]) : m > 1 /\ Holds(T[2][m], x)
  <2>1. PICK m \in 1..Len(T[2]) : Holds(T[2][m], x)
    BY <1>1, <1>3, VariantHeld
  <2>2. m = 1 \/ m > 1
    BY <1>1, <1>3, VariantHeld
  <2>3. QED
    BY <2>1, <2>2
<1>4. Heard(f, T[2][1], x)
  <2> SUFFICES ASSUME T \in Wanted
               PROVE  T[2][1] \in Wanted /\ \A y : Loud(T[2][1], y) => Loud(T, y)
    BY <1>2 DEF Heard
  <2>1. T[2] \in Seq(Wanted) /\ T[2] # <<>>
    BY <1>1, WantedAssumption
  <2>2. 1 <= Len(T[2])
    BY <2>1
  <2>3. QED
    BY <2>2, <1>1, AlternativeHeard
<1>5. Waits(f, now', stack)
  BY <1>1, <1>2, <1>3, <1>4 DEF Waits, Pending
<1>6. QED
  BY <1>1, <1>2, <1>5, AsksInsideChecks

LEMMA TryGetChecks ==
  ASSUME CallsInv, ChecksInv, TryGet
  PROVE  ChecksInv'
<1> DEFINE c == Last(calls)
           x == stack[c.index]
           f == TryFrame(c.type, c.index, c.base, c.n + 1)
<1>1. /\ now.at \in Answers /\ calls # <<>> /\ c.of = "try" /\ stack' = stack
      /\ exceptions' = exceptions
  BY DEF TryGet, Waiting, Caller, Answers, Aside
<1>2. /\ Waits(c, now, stack) /\ Asked(stack, Front(calls), c) /\ List(Front(calls))
  BY <1>1, AskedNow, AskedBefore, ListFront
<1>3. /\ c.n \in Nat /\ now.index = c.index /\ Pending(c, now.type, x)
  BY <1>1, <1>2 DEF Waits
<1>4. ASSUME now.at = "notgot", Holds(c.type, x)
      PROVE  \E m \in 1..Len(c.type[2]) : m > c.n /\ Holds(c.type[2][m], x)
  BY <1>3, <1>4 DEF Pending, ChecksInv
<1>5. CASE now.at = "got" /\ Return(Got(c.type, <<c.n, now.value>>, c.index))
  <2> DEFINE result == Got(c.type, <<c.n, now.value>>, c.index)
  <2>1. result.type = c.type /\ result.index = c.index /\ result.at = "got"
    BY DEF Got, At
  <2> HIDE DEF result
  <2>2. Return(result)
    BY <1>5 DEF result
  <2>3. QED
    BY <2>1, <2>2, <1>1, CallAnswers
<1>6. CASE now.at = "notgot" /\ c.n >= Len(c.type[2]) /\ Return(NotGot(c.type, c.index))
  <2> DEFINE result == NotGot(c.type, c.index)
  <2>1. result.type = c.type /\ result.index = c.index /\ result.at = "notgot"
    BY DEF NotGot, At
  <2>2. ~Holds(c.type, x)
    <3> SUFFICES ASSUME Holds(c.type, x) PROVE FALSE
      OBVIOUS
    <3>1. PICK m \in 1..Len(c.type[2]) : m > c.n
      BY <1>4, <1>6
    <3>2. Len(c.type[2]) \in Nat
      <4>1. c.type[1] = "variant"
        BY <1>1, <1>2 DEF Waits
      <4>2. QED
        BY <4>1, VariantHeld
    <3>3. QED
      BY <3>1, <3>2, <1>3, <1>6
  <2> HIDE DEF result
  <2>3. Return(result)
    BY <1>6 DEF result
  <2>4. QED
    BY <2>1, <2>2, <2>3, <1>1, CallAnswers
<1>7. CASE /\ now.at = "notgot" /\ c.n < Len(c.type[2])
           /\ Goto(f, ToGet(c.type[2][c.n + 1], c.index))
  <2>1. /\ calls' = Append(Front(calls), f) /\ now'.at = "get"
        /\ now'.type = c.type[2][c.n + 1] /\ now'.index = c.index
    BY <1>7 DEF Goto, ToGet, At
  <2>2. /\ f.of = "try" /\ f.type = c.type /\ f.index = c.index /\ f.n = c.n + 1
    BY DEF TryFrame
  <2> HIDE DEF f
  <2>3. ASSUME Holds(c.type, x)
        PROVE  \/ Holds(c.type[2][c.n + 1], x)
               \/ \E m \in 1..Len(c.type[2]) : m > c.n + 1 /\ Holds(c.type[2][m], x)
    <3>1. PICK m \in 1..Len(c.type[2]) : m > c.n /\ Holds(c.type[2][m], x)
      BY <2>3, <1>4, <1>7
    <3>2. m = c.n + 1 \/ m > c.n + 1
      BY <3>1, <1>3
    <3>3. QED
      BY <3>1, <3>2
  <2>4. c.type[1] = "variant"
    BY <1>1, <1>2 DEF Waits
  <2>5. Heard(f, now'.type, x)
    <3> SUFFICES ASSUME c.type \in Wanted
                 PROVE  /\ now'.type \in Wanted
                        /\ \A y : Loud(now'.type, y) => Loud(c.type, y)
      BY <2>2 DEF Heard
    <3>1. Len(c.type[2]) \in Nat
      <4>1. c.type[2] \in Seq(Wanted)
        BY <2>4, WantedAssumption
      <4>2. QED
        BY <4>1
    <3>2. c.n + 1 \in Nat /\ c.n + 1 >= 1 /\ c.n + 1 <= Len(c.type[2])
      BY <3>1, <1>3, <1>7
    <3>3. QED
      BY <3>2, <2>1, <2>4, AlternativeHeard
  <2>6. Waits(f, now', stack)
    BY <2>1, <2>2, <2>3, <2>4, <2>5, <1>1, <1>3 DEF Waits, Pending
  <2>7. Asked(stack, Front(calls), f)
    BY <2>2, <1>2, AskedOf
  <2>8. Asked(stack, calls', now')
    BY <2>1, <2>6, <2>7, <1>2, AskedNext
  <2>9. QED
    BY <2>1, <2>8, <1>1, ChecksThen
<1>8. QED
  BY <1>5, <1>6, <1>7 DEF TryGet, Caller

LEMMA GetTableChecks ==
  ASSUME CallsInv, ChecksInv, GetTable
  PROVE  ChecksInv'
<1> DEFINE T == now.type
           i == now.index
           f == VisitFrame(T, i, Len(stack), <<>>, <<>>)
<1>1. now.at = "get" /\ T[1] \in Containers /\ exceptions' = exceptions
  BY DEF GetTable, Aside
<1>2. Asked(stack, calls, now) /\ List(calls)
  BY <1>1, AskedNow DEF Answers
<1>3. CASE now' = NotGot(T, i) /\ stack' = stack /\ calls' = calls
  <2>1. now'.type = T /\ now'.index = i /\ now'.at = "notgot"
    BY <1>3 DEF NotGot, At
  <2>2. Asked(stack, calls, now')
    BY <2>1, <1>2, AskedOf
  <2>3. ~Holds(T, stack[i])
    BY <1>1, NoTableHeld
  <2>4. QED
    BY <2>1, <2>2, <2>3, <1>1, <1>3, ChecksThen
<1>4. CASE stack' = Append(stack, Nil) /\ Call(f, Looping) /\ Kind(stack[i]) = "table"
  <2>1. calls' = Append(calls, f) /\ now' = Looping /\ now'.at = "loop"
    BY <1>4 DEF Call, Looping, At
  <2>2. f.of = "visit" /\ f.type = T /\ f.index = i
    BY DEF VisitFrame
  <2> HIDE DEF f
  <2>3. /\ Framed(stack, calls, before) /\ List(stack) /\ i \in 1..Len(stack)
        /\ Len(stack) = Depth(calls, before) /\ Len(stack) \in Nat
    BY <1>1, AnsweringNow DEF Answers
  <2>4. Same(stack', stack, Depth(calls, before))
    BY <2>3, <1>4, SameAppended
  <2>5. Asked(stack', calls, now)
    BY <2>3, <2>4, <1>2, AskedAbove
  <2>6. Asked(stack', calls, f)
    BY <2>2, <2>5, <1>2, AskedOf
  <2>7. Waits(f, now', stack')
    <3>1. stack'[i] = stack[i]
      BY <2>3, <2>4 DEF Same
    <3>2. QED
      BY <3>1, <2>2, <1>1, <1>4 DEF Waits
  <2>8. Asked(stack', calls', now')
    BY <2>1, <2>6, <2>7, <1>2, AskedNext
  <2>9. QED
    BY <2>1, <2>8, <1>1, ChecksThen
<1>5. QED
  BY <1>3, <1>4 DEF GetTable

LEMMA VisitChecks ==
  ASSUME CallsInv, ChecksInv, Visit
  PROVE  ChecksInv'
<1> DEFINE c == Last(calls)
           t == stack[c.index][2]
           next == After(t, Last(stack))
           top == Len(stack) + 1
           to == IF KeyFirst(c.type) THEN GetKey(c.type, top) ELSE GetElement(c.type, c.pairs, top)
           end == IF c.type[1] = "tuple" THEN NotGot(c.type, c.index) ELSE GotAll(c)
<1>1. now.at = "loop" /\ calls # <<>> /\ c.of = "visit"
  BY DEF Visit, Waiting, Caller
<1>2. /\ Framed(stack, calls, before) /\ List(stack) /\ c.base \in Nat
      /\ Len(stack) = c.base + 1 /\ Visits(c, stack)
  BY <1>1, LoopingNow
<1>3. Last(stack) = stack[c.base + 1] /\ Len(stack) \in Nat
  BY <1>2, ListLen DEF Last
<1>4. next # {}
  BY <1>2, <1>3, KeyFound DEF Visits
<1>5. PICK j \in next :
        IF j \notin DOMAIN t
          THEN Returned(end)
          ELSE stack' = Append(Append(Front(stack), t[j][1]), t[j][2]) /\ Goto(c, to)
  BY <1>4 DEF Visit, Caller
<1>6. to.at = "get" /\ end.type = c.type /\ end.index = c.index
  BY DEF GetKey, GetElement, ToGet, GotAll, Got, NotGot, At
<1>7. /\ Asked(stack, Front(calls), c) /\ c.type[1] \in Containers
      /\ Kind(stack[c.index]) = "table" /\ exceptions' = exceptions
  BY <1>1, AskedLooping DEF Visit, Aside
<1> HIDE DEF next, to, end
<1>8. CASE j \notin DOMAIN t
  <2>1. stack' = Restored(stack, c.base) /\ Return(end)
    BY <1>5, <1>8 DEF Returned, Caller
  <2>2. List(stack') /\ Same(stack', stack, c.base)
    BY <2>1, <1>2, SameRestored
  <2>3. /\ Asked(stack', Front(calls), c) /\ List(Front(calls))
        /\ Kind(stack'[c.index]) = "table"
    BY <2>2, <1>1, <1>2, <1>7, VisitAsked
  <2>4. QED
    BY <2>1, <2>3, <1>6, <1>7, VisitReturns
<1>9. CASE j \in DOMAIN t
  <2> DEFINE keyed == Append(Front(stack), t[j][1])
  <2>1. stack' = Append(keyed, t[j][2]) /\ Goto(c, to)
    BY <1>5, <1>9
  <2>2. /\ List(Front(stack)) /\ Len(Front(stack)) = c.base
        /\ \A k \in 1..c.base : Front(stack)[k] = stack[k]
    <3>1. Len(stack) >= 1
      BY <1>2
    <3>2. stack # <<>>
      BY <3>1, <1>2, ListLen
    <3>3. /\ List(Front(stack)) /\ Len(Front(stack)) = Len(stack) - 1
          /\ \A k \in 1..Len(stack) - 1 : Front(stack)[k] = stack[k]
      BY ONLY <3>2, <1>2, ListFront
    <3>4. Len(stack) - 1 = c.base
      BY <1>2
    <3>5. QED
      BY <3>3, <3>4
  <2>3. List(keyed) /\ Len(keyed) = c.base + 1 /\ \A k \in 1..c.base : keyed[k] = stack[k]
    BY ONLY <2>2, ListAppend
  <2> HIDE DEF keyed
  <2>4. /\ List(stack') /\ Len(stack') = c.base + 2
        /\ \A k \in 1..c.base + 1 : stack'[k] = keyed[k]
    BY <2>1, <2>3, <1>2, ListAppend
  <2>5. Same(stack', stack, c.base)
    <3>1. \A k \in 1..c.base : stack'[k] = stack[k]
      BY <2>3, <2>4, <1>2
    <3>2. QED
      BY <3>1, <2>4, <1>2 DEF Same
  <2>6. /\ Asked(stack', Front(calls), c) /\ List(Front(calls))
        /\ Kind(stack'[c.index]) = "table"
    BY <2>4, <2>5, <1>1, <1>2, <1>7, VisitAsked
  <2>7. QED
    BY <2>1, <2>6, <1>1, <1>6, <1>7, VisitGoesOn
<1>10. QED
  BY <1>8, <1>9

LEMMA VisitCompleteChecks ==
  ASSUME CallsInv, ChecksInv, VisitComplete
  PROVE  ChecksInv'
<1> DEFINE c == Last(calls)
           end == GotAll(c)
<1>1. /\ now.at = "loop" /\ calls # <<>> /\ c.of = "visit"
      /\ stack' = Restored(stack, c.base) /\ Return(end)
  BY DEF VisitComplete, Waiting, Caller, Returned
<1>2. /\ Framed(stack, calls, before) /\ List(stack) /\ c.base \in Nat
      /\ Len(stack) = c.base + 1
  BY <1>1, LoopingNow
<1>3. List(stack') /\ Same(stack', stack, c.base)
  BY <1>1, <1>2, SameRestored
<1>4. end.type = c.type /\ end.index = c.index
  BY DEF GotAll, Got, At
<1> HIDE DEF end
<1>5. /\ Asked(stack, Front(calls), c) /\ c.type[1] \in Containers
      /\ Kind(stack[c.index]) = "table" /\ exceptions' = exceptions
  BY <1>1, AskedLooping DEF VisitComplete, Aside
<1>6. /\ Asked(stack', Front(calls), c) /\ List(Front(calls))
      /\ Kind(stack'[c.index]) = "table"
  BY <1>1, <1>2, <1>3, <1>5, VisitAsked
<1>7. QED
  BY <1>1, <1>4, <1>5, <1>6, VisitReturns

(* A visit whose element has been got, or could not be.                    *)
LEMMA VisitAnswered ==
  ASSUME CallsInv, ChecksInv, now.at \in Answers, calls # <<>>, Last(calls).of = "visit",
         stack' = stack \/ stack' = Front(stack) \/ stack' = Restored(stack, Last(calls).base)
  PROVE  /\ Asked(stack', Front(calls), Last(calls)) /\ List(Front(calls))
         /\ Last(calls).type[1] \in Containers
         /\ Kind(stack'[Last(calls).index]) = "table"
<1> DEFINE c == Last(calls)
<1>1. calls # <<>> /\ c.of = "visit"
  OBVIOUS
<1>2. /\ Framed(stack, calls, before) /\ Gets(calls) /\ List(stack)
      /\ Len(stack) = Depth(calls, before) /\ Len(stack) \in Nat
  BY AnsweringNow
<1>3. Frame(c) /\ Depth(calls, before) = Top(c)
  BY ONLY <1>1, <1>2, CallEnds
<1>4. c.base \in Nat /\ Len(stack) = c.base + 2
  BY <1>1, <1>2, <1>3 DEF Frame, Top, Held
<1>5. Asked(stack, Front(calls), c) /\ Waits(c, now, stack)
  BY <1>1, AskedNow, AskedBefore
<1>6. c.type[1] \in Containers /\ Kind(stack[c.index]) = "table"
  BY <1>1, <1>5 DEF Waits
<1>7. List(stack') /\ Same(stack', stack, c.base)
  <2>1. CASE stack' = stack
    BY <2>1, <1>2, <1>4, SameItself
  <2>2. CASE stack' = Front(stack)
    <3>1. stack # <<>>
      <4>1. Len(stack) >= 1
        BY <1>4
      <4>2. QED
        BY <4>1, <1>2, ListLen
    <3>2. /\ List(stack') /\ Len(stack') = Len(stack) - 1
          /\ \A k \in 1..Len(stack) - 1 : stack'[k] = stack[k]
      BY ONLY <3>1, <2>2, <1>2, ListFront
    <3>3. QED
      BY <3>2, <1>4 DEF Same
  <2>3. CASE stack' = Restored(stack, c.base)
    BY <2>3, <1>2, <1>4, SameRestored
  <2>4. QED
    BY <2>1, <2>2, <2>3
<1>8. /\ Asked(stack', Front(calls), c) /\ List(Front(calls))
      /\ Kind(stack'[c.index]) = "table"
  BY <1>1, <1>2, <1>5, <1>6, <1>7, VisitAsked
<1>9. QED
  BY <1>6, <1>8

LEMMA VisitGotChecks ==
  ASSUME CallsInv, ChecksInv, VisitGot
  PROVE  ChecksInv'
<1> DEFINE c == Last(calls)
<1>1. now.at \in Answers /\ calls # <<>> /\ c.of = "visit" /\ exceptions' = exceptions
  BY DEF VisitGot, Waiting, Caller, Answers, Goto, Aside
<1>2. PICK pairs, first, to :
        /\ Goto(VisitFrame(c.type, c.index, c.base, pairs, first), to)
        /\ to.at \in {"get", "loop"}
        /\ stack' = stack \/ stack' = Front(stack)
  <2> DEFINE value == GetElement(c.type, c.pairs, Len(stack))
             key == GetKey(c.type, Len(stack))
             to == IF KeyFirst(c.type) THEN value ELSE key
             Goes(pairs, first, next) == Goto(VisitFrame(c.type, c.index, c.base, pairs, first), next)
  <2>1. to.at = "get" /\ Looping.at = "loop"
    BY DEF GetElement, GetKey, ToGet, Looping, At
  <2>2. \/ stack' = stack /\ Goes(c.pairs, <<now.value>>, to)
        \/ \E pairs : stack' = Front(stack) /\ Goes(pairs, <<>>, Looping)
    BY DEF VisitGot, Caller
  <2> HIDE DEF to
  <2>3. QED
    BY <2>1, <2>2
<1> DEFINE f == VisitFrame(c.type, c.index, c.base, pairs, first)
<1>3. f.of = "visit" /\ f.index = c.index /\ f.type = c.type
  BY DEF VisitFrame
<1>4. Goto(f, to)
  BY <1>2
<1> HIDE DEF f
<1>5. /\ Asked(stack', Front(calls), c) /\ List(Front(calls))
      /\ c.type[1] \in Containers /\ Kind(stack'[c.index]) = "table"
  BY <1>1, <1>2, VisitAnswered
<1>6. QED
  BY <1>1, <1>2, <1>3, <1>4, <1>5, VisitGoesOn

LEMMA VisitFailedChecks ==
  ASSUME CallsInv, ChecksInv, VisitFailed
  PROVE  ChecksInv'
<1> DEFINE end == NotGot(Last(calls).type, Last(calls).index)
<1>1. /\ now.at \in Answers /\ calls # <<>> /\ Last(calls).of = "visit"
      /\ stack' = Restored(stack, Last(calls).base) /\ Return(end)
      /\ exceptions' = exceptions
  BY DEF VisitFailed, Waiting, Caller, Returned, Answers, Aside
<1>2. end.type = Last(calls).type /\ end.index = Last(calls).index
  BY Answered
<1> HIDE DEF end
<1>3. /\ Asked(stack', Front(calls), Last(calls)) /\ List(Front(calls))
      /\ Last(calls).type[1] \in Containers
      /\ Kind(stack'[Last(calls).index]) = "table"
  BY <1>1, VisitAnswered
<1>4. QED
  BY <1>1, <1>2, <1>3, VisitReturns

(* An exception or an error goes through a call that waits.                *)
LEMMA LeaveChecks ==
  ASSUME CallsInv, ChecksInv, Leave
  PROVE  ChecksInv'
<1> DEFINE c == Last(calls)
           result == Left(now.at, c.type, c.index)
           x == stack[c.index]
<1>1. /\ now.at \in {"threw", "raised"} /\ calls # <<>> /\ exceptions' = exceptions
      /\ stack' = IF c.of = "visit" THEN Restored(stack, c.base) ELSE stack
      /\ Return(result)
  BY DEF Leave, Aside, Caller
<1>2. now.at \in Answers
  BY <1>1 DEF Answers
<1>3. /\ result.type = c.type /\ result.index = c.index
      /\ result.at \in {"threw", "raised"}
  BY <1>1 DEF Left, At
<1> HIDE DEF result
<1>4. c.of \in {"visit", "try", "wrap"}
  <2>1. Framed(stack, calls, before) /\ Gets(calls)
    BY <1>2, AnsweringNow
  <2>2. Frame(c) /\ c.of # "fill"
    BY <2>1, <1>1, CallEnds
  <2>3. QED
    BY <2>2 DEF Frame
<1>5. CASE c.of = "visit"
  <2>1. /\ Asked(stack', Front(calls), c) /\ List(Front(calls))
        /\ c.type[1] \in Containers /\ Kind(stack'[c.index]) = "table"
    BY <1>1, <1>2, <1>5, VisitAnswered
  <2>2. QED
    BY <2>1, <1>1, <1>3, VisitReturns
<1>6. CASE c.of \in {"try", "wrap"}
  <2>1. stack' = stack
    BY <1>1, <1>6
  <2>2. Waits(c, now, stack)
    BY <1>1, <1>2, AskedNow, AskedBefore
  <2>3. /\ Pending(c, now.type, x) /\ Heard(c, now.type, x)
        /\ ~Holds(now.type, x) /\ Spoken(now.type, x)
        /\ c.of = "try" => c.type[1] = "variant"
    BY <1>1, <1>6, <2>2 DEF Waits, ChecksInv
  <2>4. Spoken(c.type, x)
    BY <2>3 DEF Spoken, Heard
  <2>5. ~Holds(c.type, x)
    <3> SUFFICES ASSUME Holds(c.type, x) PROVE FALSE
      OBVIOUS
    <3>1. c.of = "try"
      BY <1>6, <2>3 DEF Pending
    <3>2. Loud(c.type, x)
      BY <2>4, HoldsOf DEF Spoken
    <3>3. QED
      BY <3>1, <3>2, <2>3, HoldsOf
  <2>6. QED
    BY <2>1, <2>4, <2>5, <1>1, <1>2, <1>3, CallAnswers
<1>7. QED
  BY <1>4, <1>5, <1>6

(* C++ asks for one of the types it wants.                                 *)
LEMMA FirstAsked ==
  ASSUME CallsInv, NEW T \in Wanted, NEW i, GetValue(T, i)
  PROVE  ChecksInv'
<1>1. /\ calls = <<>> /\ calls' = calls /\ now'.at = "get" /\ now'.type = T
      /\ exceptions' = exceptions
  BY DEF GetValue, ToGet, At, CallsInv, Still
<1>2. Asked(stack', <<>>, now')
  BY <1>1, ListEmpty DEF Asked, Callee
<1>3. QED
  BY <1>1, <1>2, ChecksThen

LEMMA InitChecks == Init => ChecksInv
BY DEF Init, Idle, At, ChecksInv, Asking, Answers

LEMMA NextChecks == CallsInv /\ ChecksInv /\ [Next]_vars => ChecksInv'
<1> SUFFICES ASSUME CallsInv, ChecksInv, [Next]_vars PROVE ChecksInv'
  OBVIOUS
<1>1. ASSUME now'.at \in {"idle", "push"}
      PROVE  ChecksInv'
  BY <1>1 DEF ChecksInv, Asking, Answers
<1>2. CASE TakeResult
  BY <1>1, <1>2 DEF TakeResult, Idle, At
<1>3. CASE \E input \in Inputs : PushValue(input[1], input[2])
  BY <1>1, <1>3 DEF PushValue, ToPush, At
<1>4. CASE \E T \in Wanted, i \in DOMAIN stack : GetValue(T, i)
  BY <1>4, FirstAsked
<1>5. CASE \/ \E x \in Scripts : PassValue(x)
           \/ Pop
           \/ \E T \in AnyTypes : RegisterAnyPush(T)
           \/ \E pair \in Conversions : AddConverter(pair[1], pair[2])
           \/ EnableExceptions
  BY <1>1, <1>5 DEF PassValue, Pop, RegisterAnyPush, AddConverter, EnableExceptions
<1>6. CASE \/ PushOne \/ PushWrapped
           \/ Build \/ Fill \/ FillKeyed \/ Store \/ Filled \/ FillFailed
  BY <1>6, PushAsksNothing DEF ChecksInv
<1>7. CASE \/ GetOne \/ BadArgument \/ Leave
           \/ GetAddress \/ GetNullable \/ GotNullable \/ GetVariant \/ TryGet
  BY <1>7, GetOneChecks, BadArgumentChecks, LeaveChecks, GetAddressChecks, GetNullableChecks, GotNullableChecks,
     GetVariantChecks, TryGetChecks
<1>8. CASE GetTable \/ Visit \/ VisitComplete \/ VisitGot \/ VisitFailed
  BY <1>8, GetTableChecks, VisitChecks, VisitCompleteChecks, VisitGotChecks,
     VisitFailedChecks
<1>9. CASE UNCHANGED vars
  <2>1. CASE Asking
    BY <2>1, <1>9, ChecksThen DEF vars, ChecksInv
  <2>2. CASE ~Asking
    BY <2>2, <1>9 DEF vars, ChecksInv, Asking, Answers
  <2>3. QED
    BY <2>1, <2>2
<1>10. QED
  BY <1>2, <1>3, <1>4, <1>5, <1>6, <1>7, <1>8, <1>9 DEF Next

(* What isInstance accepts converts, however deep the variants, the        *)
(* optionals, the Expected values and the pointers are nested, exceptions  *)
(* enabled or not: the overload it chooses gets its argument. Excepted are *)
(* the values that are Loose for the type: tables, enums, T* of a const    *)
(* object, an object that points to nothing, and variants one of whose     *)
(* alternatives ends in an exception or an error of Lua.                   *)
THEOREM ChecksConvert == Spec => []CheckedConverts
<1>1. CallsInv /\ ChecksInv => CheckedConverts
  <2> SUFFICES ASSUME CallsInv, ChecksInv, calls = <<>>,
                      now.at \in {"notgot", "threw", "raised"},
                      Exact(now.type, stack[now.index], exceptions)
               PROVE  ~IsInstance(now.type, stack[now.index])
    BY DEF CheckedConverts
  <2>1. ~Holds(now.type, stack[now.index]) /\ Asked(stack, calls, now)
    BY DEF ChecksInv, Asking, Answers
  <2>2. now.type \in Wanted
    BY <2>1, ListEmpty DEF Asked, Callee
  <2>3. QED
    BY <2>1, <2>2 DEF Holds
<1>2. QED
  BY <1>1, CallsNest, InitCalls, InitChecks, NextChecks, PTL DEF Spec
=============================================================================
