-------------------------- MODULE IntegerConversions --------------------------
(***************************************************************************)
(* Integers between C++ and Lua (Stack.h, LuaHelpers.h): integers of Lua   *)
(* have one width, those of C++ have several, signed and unsigned. A width *)
(* is given by half the number of its values, 2^(bits - 1); an integer is  *)
(* its value, and a cast wraps it.                                         *)
(***************************************************************************)
EXTENDS Integers

CONSTANTS LuaHalf, CharHalf, ShortHalf, IntHalf, LongHalf, LongLongHalf

Halves == {LuaHalf, CharHalf, ShortHalf, IntHalf, LongHalf, LongLongHalf}
ASSUME WidthAssumption ==
  /\ Halves \subseteq Nat \ {0}
  /\ \A a, b \in Halves : a < b => 2 * a <= b            \* powers of two
  /\ CharHalf < LuaHalf /\ ShortHalf < LuaHalf           \* static_assert, Stack.h:291

(* An integer type: its width, its sign, and whether Stack<T>::push checks *)
(* that the value fits into a lua_Integer.                                 *)
IntegerType(half, signed, checked) == [half |-> half, signed |-> signed, checked |-> checked]
Byte             == IntegerType(CharHalf, FALSE, FALSE)
Int8             == IntegerType(CharHalf, TRUE, FALSE)
UnsignedChar     == IntegerType(CharHalf, FALSE, FALSE)
Short            == IntegerType(ShortHalf, TRUE, FALSE)
UnsignedShort    == IntegerType(ShortHalf, FALSE, FALSE)
CInt             == IntegerType(IntHalf, TRUE, TRUE)
UnsignedInt      == IntegerType(IntHalf, FALSE, TRUE)
Long             == IntegerType(LongHalf, TRUE, TRUE)
UnsignedLong     == IntegerType(LongHalf, FALSE, TRUE)
LongLong         == IntegerType(LongLongHalf, TRUE, TRUE)
UnsignedLongLong == IntegerType(LongLongHalf, FALSE, TRUE)
IntegerTypes ==
  {Byte, Int8, UnsignedChar, Short, UnsignedShort, CInt, UnsignedInt, Long,
   UnsignedLong, LongLong, UnsignedLongLong}
LuaInteger == IntegerType(LuaHalf, TRUE, FALSE)

(* numeric_limits<T>, and static_cast to T.                                *)
MinOf(t) == IF t.signed THEN -t.half ELSE 0
MaxOf(t) == IF t.signed THEN t.half - 1 ELSE 2 * t.half - 1
ValuesOf(t) == MinOf(t)..MaxOf(t)
Cast(t, n) ==
  LET low == n % (2 * t.half)
  IN  IF t.signed /\ low >= t.half THEN low - 2 * t.half ELSE low

(* is_integral_representable_by<u>(n), n of type t: whether n fits in u.   *)
(* The comparisons are those of the code, on the types it casts to.        *)
RepresentableAbove(u, t, n) == n <= MaxOf(u)         \* the lower bound forgotten
Representable(u, t, n) ==
  IF t.half = u.half
    THEN IF t.signed = u.signed THEN TRUE
         ELSE IF u.signed THEN n <= Cast(t, MaxOf(u))
         ELSE n >= Cast(t, MinOf(u)) /\ Cast(u, n) <= MaxOf(u)
    ELSE IF t.half < u.half THEN Cast(u, n) >= MinOf(u) /\ Cast(u, n) <= MaxOf(u)
         ELSE IF t.signed THEN n >= Cast(t, MinOf(u)) /\ n <= Cast(t, MaxOf(u))
         ELSE n <= Cast(t, MaxOf(u))

(* Stack<T>::push and get for an integer, isInstance for a number that has *)
(* an integral value.                                                      *)
PushesInteger(t, n) == t.checked => Representable(LuaInteger, t, n)
PushedInteger(t, n) == Cast(LuaInteger, n)
GetsInteger(t, n) == Representable(t, LuaInteger, n)
GotInteger(t, n) == Cast(t, n)
=============================================================================
