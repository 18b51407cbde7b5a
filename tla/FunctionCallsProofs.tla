------------------------- MODULE FunctionCallsProofs -------------------------
(***************************************************************************)
(* Proof that calls across the boundary restore the stack, hand over       *)
(* results only, own the arguments they decoded and lose no error, for any *)
(* overloads and arguments and for any depth of nesting.                   *)
(***************************************************************************)
EXTENDS FunctionCalls, SequenceTheorems, WellFoundedInduction, TLAPS

Item == {"handler", "function", "argument", "functions", "errors", "first", "second", "message"}
Kinds == {"none", "error", "critical", "exception", "alien", "foreign", "undefined"}
ProgramFrames == [kind : {"program"}, base : {0}, kept : Nat]
CallFrames == [kind : {"call"}, base : Nat, handler : {"none", "null", "valid", "raw"},
               step : {"push", "run", "decode"}]
LuaFrames == [kind : {"lua", "pcall"}, base : Nat]
FunctionFrames == [kind : {"function"}, base : Nat, args : Arguments, entry : DOMAIN Functions,
                   decoded : Nat, step : {"self", "decode", "body"}, kept : Nat]
OverloadFrames == [kind : {"overloads"}, base : Nat, args : Arguments, set : Sets,
                   next : Nat \ {0}, messages : Seq(SUBSET Nat)]
AnyFrame == ProgramFrames \union CallFrames \union LuaFrames \union FunctionFrames
              \union OverloadFrames
Handed == {Results(n) : n \in 0..2}

ErrorsOK ==
  /\ flight \in [kind : Kinds, errors : SUBSET Nat]
  /\ flight.kind = "none" => flight.errors = {}
  /\ leaked \in Nat /\ (leaked > 0 => enabled)
  /\ raised \in Nat /\ seen \in SUBSET Nat /\ lost \in SUBSET Nat
TypeOK == frames \in Seq(AnyFrame) /\ stack \in Seq(Item) /\ handed \in Handed /\ ErrorsOK

(* Frame g runs directly above frame f, on what f holds on the stack.      *)
Waits(f, kind) ==
  CASE kind = "call" -> InBody(f)
    [] kind = "lua" -> f.kind = "pcall" \/ (f.kind = "call" /\ f.step = "run")
    [] kind = "function" -> f.kind \in {"lua", "overloads"}
    [] kind \in {"pcall", "overloads"} -> f.kind = "lua"
    [] OTHER -> FALSE
Sits(f, g) == Waits(f, g.kind) /\ g.base = f.base + Held(f)
Nested(fs) ==
  /\ Len(fs) > 0 /\ fs[1] \in ProgramFrames
  /\ \A k \in 1..Len(fs) - 1 : Sits(fs[k], fs[k + 1])

(* What is on the stack when frame f runs, and when an error or exception  *)
(* of that kind reaches it.                                                *)
Rests(f, s) ==
  LET top == f.base + Held(f)
  IN  \/ InBody(f) /\ Len(s) = top
      \/ f.kind \in {"lua", "overloads", "function"} /\ Len(s) = top
      \/ f.kind = "call" /\ f.step = "push" /\ Len(s) = top + 1
      \/ /\ f.kind = "call" /\ f.step = "decode" /\ Len(s) >= top
         /\ SubSeq(s, top + 1, Len(s)) \in Handed
Reached(f, s, kind) ==
  LET top == f.base + Held(f)
  IN  IF kind \in {"exception", "alien"} THEN f.kind \in {"program", "function"} /\ Len(s) = top
      ELSE /\ f.kind \in {"lua", "pcall", "overloads"} \/ (f.kind = "call" /\ f.step = "run")
           /\ Len(s) >= top

IInv ==
  /\ TypeOK /\ Nested(frames) /\ ArgumentsOwned
  /\ IF Calm THEN Rests(Running, stack) ELSE Reached(Running, stack, flight.kind)
-----------------------------------------------------------------------------
(* Sequences and sums.                                                     *)

LEMMA FrontFacts ==
  ASSUME NEW S, NEW s \in Seq(S), Len(s) > 0
  PROVE  /\ Front(s) \in Seq(S) /\ Len(Front(s)) = Len(s) - 1
         /\ \A i \in 1..Len(s) - 1 : Front(s)[i] = s[i]
<1> DEFINE n == Len(s) - 1
<1>1. n \in Nat /\ 1 \in Int /\ n \in Int /\ \A i \in 1..n : s[i] \in S
  OBVIOUS
<1> HIDE DEF n
<1>2. /\ SubSeq(s, 1, n) \in Seq(S)
      /\ Len(SubSeq(s, 1, n)) = IF 1 <= n THEN n - 1 + 1 ELSE 0
      /\ \A i \in 1..n - 1 + 1 : SubSeq(s, 1, n)[i] = s[1 + i - 1]
  BY <1>1, SubSeqProperties
<1>3. Len(SubSeq(s, 1, n)) = n
  BY <1>1, <1>2
<1>4. \A i \in 1..n : SubSeq(s, 1, n)[i] = s[i]
  <2>1. \A i \in 1..n : i \in 1..n - 1 + 1 /\ 1 + i - 1 = i
    BY <1>1
  <2> QED BY <1>2, <2>1
<1> QED BY <1>2, <1>3, <1>4 DEF Front, n

LEMMA AppendedFacts ==
  ASSUME NEW S, NEW s \in Seq(S), NEW v \in S
  PROVE  Last(Append(s, v)) = v /\ Front(Append(s, v)) = s
<1>1. /\ Append(s, v) \in Seq(S) /\ Len(Append(s, v)) = Len(s) + 1 /\ Len(s) \in Nat
      /\ Append(s, v)[Len(s) + 1] = v /\ \A i \in 1..Len(s) : Append(s, v)[i] = s[i]
  BY AppendProperties
<1>2. Last(Append(s, v)) = v
  BY <1>1 DEF Last
<1>3. /\ Front(Append(s, v)) \in Seq(S) /\ Len(Front(Append(s, v))) = Len(s)
      /\ \A i \in 1..Len(s) : Front(Append(s, v))[i] = s[i]
  <2> DEFINE a == Append(s, v)
  <2>1. a \in Seq(S) /\ Len(a) > 0 /\ Len(a) = Len(s) + 1
    BY <1>1
  <2> HIDE DEF a
  <2>2. /\ Front(a) \in Seq(S) /\ Len(Front(a)) = Len(a) - 1
        /\ \A i \in 1..Len(a) - 1 : Front(a)[i] = a[i]
    BY ONLY <2>1, FrontFacts
  <2>3. Len(a) - 1 = Len(s)
    BY ONLY <2>1, <1>1
  <2>4. /\ Front(a) \in Seq(S) /\ Len(Front(a)) = Len(s)
        /\ \A i \in 1..Len(s) : Front(a)[i] = a[i]
    BY ONLY <2>2, <2>3, <1>1
  <2>5. \A i \in 1..Len(s) : a[i] = s[i]
    BY ONLY <1>1 DEF a
  <2> QED BY ONLY <2>4, <2>5 DEF a
<1>4. Front(Append(s, v)) = s
  BY <1>3, SeqEqual
<1> QED BY <1>2, <1>4

LEMMA DownFacts ==
  ASSUME NEW S, NEW s \in Seq(S), NEW n \in 0..Len(s)
  PROVE  SubSeq(s, 1, n) \in Seq(S) /\ Len(SubSeq(s, 1, n)) = n
<1>1. n \in Nat /\ 1 \in Int /\ n \in Int /\ \A i \in 1..n : s[i] \in S
  OBVIOUS
<1>2. /\ SubSeq(s, 1, n) \in Seq(S)
      /\ Len(SubSeq(s, 1, n)) = IF 1 <= n THEN n - 1 + 1 ELSE 0
  BY <1>1, SubSeqProperties
<1> QED BY <1>1, <1>2

LEMMA LeastNat ==
  ASSUME NEW S, S \subseteq Nat, S # {}
  PROVE  \E n \in S : \A m \in S : n <= m
<1>1. PICK n \in S : \A m \in S : ~ (<<m, n>> \in OpToRel(<, Nat))
  BY NatLessThanWellFounded, WFMin
<1>2. \A m \in S : ~(m < n)
  BY <1>1 DEF OpToRel
<1> QED BY <1>2

(* The running sums of decoded arguments exist and are unique.             *)
IsSum(fs, n, g) ==
  g \in [0..n -> Int] /\ g[0] = 0 /\ \A k \in 1..n : g[k] = g[k - 1] + Decoded(fs[k])

LEMMA SumExists ==
  ASSUME NEW fs, NEW n \in Nat, \A k \in 1..n : Decoded(fs[k]) \in Int
  PROVE  \E g : IsSum(fs, n, g)
<1> DEFINE S == {m \in 0..n : ~ \E g : IsSum(fs, m, g)}
<1>1. SUFFICES ASSUME S # {} PROVE FALSE
  OBVIOUS
<1>2. PICK m \in S : \A k \in S : m <= k
  <2>1. S \subseteq Nat
    OBVIOUS
  <2> QED BY <1>1, <2>1, LeastNat
<1>3. m # 0
  <2>1. IsSum(fs, 0, [k \in 0..0 |-> 0])
    BY DEF IsSum
  <2> QED BY <2>1, <1>2
<1>4. PICK g : IsSum(fs, m - 1, g)
  BY <1>2, <1>3
<1> DEFINE h == [k \in 0..m |-> IF k = m THEN g[m - 1] + Decoded(fs[m]) ELSE g[k]]
<1>5. IsSum(fs, m, h)
  BY <1>2, <1>3, <1>4 DEF IsSum
<1> QED BY <1>2, <1>5

LEMMA SumUnique ==
  ASSUME NEW fs, NEW n \in Nat, NEW g, NEW h, IsSum(fs, n, g), IsSum(fs, n, h)
  PROVE  g[n] = h[n]
<1> DEFINE S == {m \in 0..n : g[m] # h[m]}
<1>1. SUFFICES ASSUME S # {} PROVE FALSE
  OBVIOUS
<1>2. PICK m \in S : \A k \in S : m <= k
  <2>1. S \subseteq Nat
    OBVIOUS
  <2> QED BY <1>1, <2>1, LeastNat
<1>3. m # 0 /\ m - 1 \in 0..n /\ m - 1 \notin S
  BY <1>2 DEF IsSum
<1> QED BY <1>2, <1>3 DEF IsSum

LEMMA OwnedIsSum ==
  ASSUME NEW fs \in Seq(AnyFrame)
  PROVE  \E g : IsSum(fs, Len(fs), g) /\ Owned(fs) = g[Len(fs)]
<1> DEFINE Rec(g) == g = [k \in 0..Len(fs) |->
                            IF k = 0 THEN 0 ELSE g[k - 1] + Decoded(fs[k])]
           sums == CHOOSE g : Rec(g)
<1>1. \A k \in 1..Len(fs) : Decoded(fs[k]) \in Int
  <2>1. \A f \in AnyFrame : Decoded(f) \in Int
    BY DEF AnyFrame, Decoded, ProgramFrames, CallFrames, LuaFrames, FunctionFrames, OverloadFrames
  <2> QED BY <2>1
<1>2. PICK g : IsSum(fs, Len(fs), g)
  BY <1>1, SumExists
<1>3. Rec(g)
  BY <1>2 DEF IsSum
<1>4. Owned(fs) = sums[Len(fs)]
  BY DEF Owned
<1>5. Rec(sums)
  BY <1>3
<1> HIDE DEF sums
<1>6. IsSum(fs, Len(fs), sums)
  <2>0. Len(fs) \in Nat
    OBVIOUS
  <2>1. DOMAIN sums = 0..Len(fs) /\ sums[0] = 0
        /\ \A k \in 1..Len(fs) : sums[k] = sums[k - 1] + Decoded(fs[k])
    BY <1>5, <2>0
  <2>2. \A k \in 0..Len(fs) : sums[k] = g[k]
    <3> DEFINE S == {m \in 0..Len(fs) : sums[m] # g[m]}
    <3>1. SUFFICES ASSUME S # {} PROVE FALSE
      OBVIOUS
    <3>2. PICK m \in S : \A k \in S : m <= k
      <4>1. S \subseteq Nat
        OBVIOUS
      <4> QED BY <3>1, <4>1, LeastNat
    <3>3. m # 0 /\ m - 1 \in 0..Len(fs) /\ m - 1 \notin S
      BY <3>2, <2>1, <1>2, <2>0 DEF IsSum
    <3> QED BY <3>2, <3>3, <2>1, <1>2 DEF IsSum
  <2> QED BY <1>2, <2>1, <2>2, <1>5 DEF IsSum
<1> QED BY <1>4, <1>6

LEMMA OwnedAppend ==
  ASSUME NEW fs \in Seq(AnyFrame), NEW f \in AnyFrame
  PROVE  Owned(Append(fs, f)) = Owned(fs) + Decoded(f) /\ Owned(fs) \in Int
<1>1. PICK g : IsSum(fs, Len(fs), g) /\ Owned(fs) = g[Len(fs)]
  BY OwnedIsSum
<1> DEFINE gs == Append(fs, f)
<1>2. /\ gs \in Seq(AnyFrame) /\ Len(gs) = Len(fs) + 1 /\ Len(fs) \in Nat
      /\ gs[Len(fs) + 1] = f /\ \A i \in 1..Len(fs) : gs[i] = fs[i]
  BY AppendProperties
<1> HIDE DEF gs
<1>3. PICK h : IsSum(gs, Len(gs), h) /\ Owned(gs) = h[Len(gs)]
  BY <1>2, OwnedIsSum
<1>4. IsSum(fs, Len(fs), [k \in 0..Len(fs) |-> h[k]])
  BY <1>2, <1>3 DEF IsSum
<1>5. h[Len(fs)] = g[Len(fs)]
  BY <1>1, <1>2, <1>4, SumUnique
<1> QED BY <1>1, <1>2, <1>3, <1>5 DEF IsSum, gs
-----------------------------------------------------------------------------
(* Frames.                                                                 *)

LEMMA FrameFacts ==
  ASSUME NEW f \in AnyFrame
  PROVE  /\ f.base \in Nat /\ Held(f) \in Nat /\ Decoded(f) \in Nat
         /\ f.kind \in {"program", "call", "lua", "pcall", "function", "overloads"}
         /\ f.kind = "program" => f \in ProgramFrames
         /\ f.kind = "call" => f \in CallFrames
         /\ f.kind \in {"lua", "pcall"} => f \in LuaFrames
         /\ f.kind = "function" => f \in FunctionFrames
         /\ f.kind = "overloads" => f \in OverloadFrames
<1>1. \A args \in Arguments : Len(args) \in Nat
  BY CallAssumption
<1>2. \A h \in {"none", "null", "valid", "raw"} : Len(Pushed(h)) \in Nat
  BY DEF Pushed
<1>3. CASE f \in ProgramFrames
  BY <1>3 DEF ProgramFrames, Held, Decoded
<1>4. CASE f \in CallFrames
  BY <1>2, <1>4 DEF CallFrames, Held, Decoded
<1>5. CASE f \in LuaFrames
  BY <1>5 DEF LuaFrames, Held, Decoded
<1>6. CASE f \in FunctionFrames
  BY <1>1, <1>6 DEF FunctionFrames, Held, Decoded
<1>7. CASE f \in OverloadFrames
  BY <1>1, <1>7 DEF OverloadFrames, Held, Decoded, Above
<1> QED BY <1>3, <1>4, <1>5, <1>6, <1>7 DEF AnyFrame

LEMMA TopFrame ==
  ASSUME NEW fs \in Seq(AnyFrame), Nested(fs)
  PROVE  Last(fs) \in AnyFrame /\ Len(fs) \in Nat \ {0} /\ Last(fs) = fs[Len(fs)]
BY DEF Nested, Last

(* A frame is entered.                                                     *)
LEMMA NestedPush ==
  ASSUME NEW fs \in Seq(AnyFrame), Nested(fs), NEW g \in AnyFrame, Sits(Last(fs), g)
  PROVE  LET gs == Append(fs, g)
         IN  /\ gs \in Seq(AnyFrame) /\ Nested(gs) /\ Last(gs) = g /\ Len(gs) = Len(fs) + 1
             /\ \A i \in 1..Len(fs) : gs[i] = fs[i]
             /\ gs[Len(fs) + 1] = g
             /\ Owned(gs) = Owned(fs) + Decoded(g)
<1> DEFINE gs == Append(fs, g)
<1>1. /\ gs \in Seq(AnyFrame) /\ Len(gs) = Len(fs) + 1 /\ Len(fs) \in Nat
      /\ gs[Len(fs) + 1] = g /\ \A i \in 1..Len(fs) : gs[i] = fs[i]
  BY AppendProperties
<1>2. Last(gs) = g /\ Owned(gs) = Owned(fs) + Decoded(g)
  BY AppendedFacts, OwnedAppend
<1>3. Last(fs) = fs[Len(fs)] /\ Len(fs) # 0
  BY TopFrame
<1> HIDE DEF gs
<1>4. Nested(gs)
  BY <1>1, <1>3 DEF Nested
<1> QED BY <1>1, <1>2, <1>4 DEF gs

(* A frame is left. The bottom frame is the program, which stays.          *)
LEMMA NestedPop ==
  ASSUME NEW fs \in Seq(AnyFrame), Nested(fs), Last(fs).kind # "program"
  PROVE  LET gs == Front(fs)
         IN  /\ gs \in Seq(AnyFrame) /\ Nested(gs) /\ Sits(Last(gs), Last(fs))
             /\ Len(gs) = Len(fs) - 1 /\ Len(gs) \in Nat \ {0} /\ Last(gs) \in AnyFrame
             /\ Last(gs) = fs[Len(fs) - 1]
             /\ \A i \in 1..Len(fs) - 1 : gs[i] = fs[i]
             /\ Owned(gs) = Owned(fs) - Decoded(Last(fs)) /\ Owned(fs) \in Int
<1> DEFINE gs == Front(fs)
<1>1. Last(fs) \in AnyFrame /\ Last(fs) = fs[Len(fs)] /\ Len(fs) \in Nat \ {0}
  BY TopFrame
<1>2. Len(fs) # 1
  BY <1>1 DEF Nested, ProgramFrames
<1>3. /\ gs \in Seq(AnyFrame) /\ Len(gs) = Len(fs) - 1
      /\ \A i \in 1..Len(fs) - 1 : gs[i] = fs[i]
  BY <1>1, FrontFacts
<1>4. fs = Append(gs, Last(fs))
  <2>1. /\ Append(gs, Last(fs)) \in Seq(AnyFrame) /\ Len(Append(gs, Last(fs))) = Len(gs) + 1
        /\ \A i \in 1..Len(gs) : Append(gs, Last(fs))[i] = gs[i]
        /\ Append(gs, Last(fs))[Len(gs) + 1] = Last(fs)
    BY <1>1, <1>3, AppendProperties
  <2> HIDE DEF gs
  <2>2. \A i \in 1..Len(fs) : fs[i] = Append(gs, Last(fs))[i]
    BY <1>1, <1>3, <2>1
  <2>3. Len(fs) = Len(Append(gs, Last(fs)))
    BY <1>1, <1>3, <2>1
  <2> QED BY <2>1, <2>2, <2>3, SeqEqual
<1>5. Owned(fs) = Owned(gs) + Decoded(Last(fs)) /\ Owned(gs) \in Int
  BY <1>1, <1>3, <1>4, OwnedAppend
<1>6. Decoded(Last(fs)) \in Int
  BY <1>1, FrameFacts
<1> HIDE DEF gs
<1>7. Last(gs) = fs[Len(fs) - 1] /\ Len(gs) \in Nat \ {0}
  BY <1>1, <1>2, <1>3 DEF Last
<1>8. Nested(gs) /\ Last(gs) \in AnyFrame /\ Sits(Last(gs), Last(fs))
  <2>1. Len(gs) > 0 /\ gs[1] \in ProgramFrames
    BY <1>1, <1>2, <1>3, <1>7 DEF Nested
  <2>2. \A k \in 1..Len(gs) - 1 : k \in 1..Len(fs) - 1 /\ k + 1 \in 1..Len(fs) - 1
    BY <1>3, <1>7
  <2>3. \A k \in 1..Len(gs) - 1 : Sits(gs[k], gs[k + 1])
    BY <1>3, <2>2 DEF Nested
  <2>4. Len(fs) - 1 \in 1..Len(fs) - 1 /\ Len(fs) - 1 + 1 = Len(fs)
    <3>1. \A n \in Nat \ {0} : n # 1 => n - 1 \in 1..n - 1 /\ n - 1 + 1 = n
      OBVIOUS
    <3> QED BY ONLY <1>1, <1>2, <3>1
  <2>5. Sits(fs[Len(fs) - 1], fs[Len(fs)])
    BY <2>4 DEF Nested
  <2> QED BY <1>1, <1>7, <2>1, <2>3, <2>4, <2>5 DEF Nested
<1> QED BY <1>3, <1>5, <1>6, <1>7, <1>8 DEF gs

(* The running frame goes on to its next step, or keeps more or less.      *)
LEMMA ProgramReplaced ==
  ASSUME NEW fs \in Seq(AnyFrame), Nested(fs), Last(fs).kind = "program",
         NEW g \in AnyFrame, g.kind = "program"
  PROVE  LET gs == Append(Front(fs), g)
         IN  /\ gs \in Seq(AnyFrame) /\ Nested(gs) /\ Last(gs) = g /\ Len(gs) = Len(fs)
             /\ \A i \in 1..Len(fs) - 1 : gs[i] = fs[i]
             /\ gs[Len(fs)] = g
             /\ Owned(gs) = Owned(fs) - Decoded(Last(fs)) + Decoded(g)
<1>1. Last(fs) \in AnyFrame /\ Last(fs) = fs[Len(fs)] /\ Len(fs) \in Nat \ {0}
  BY TopFrame
<1>2. Len(fs) = 1
  <2>1. SUFFICES ASSUME Len(fs) # 1 PROVE FALSE
    OBVIOUS
  <2>2. Len(fs) - 1 \in 1..Len(fs) - 1 /\ Len(fs) - 1 + 1 = Len(fs)
    BY <1>1, <2>1
  <2>3. Sits(fs[Len(fs) - 1], fs[Len(fs)])
    BY <2>2 DEF Nested
  <2> QED BY <1>1, <2>3 DEF Sits, Waits
<1> DEFINE es == Front(fs)
<1>3. es \in Seq(AnyFrame) /\ Len(es) = 0
  <2>1. es \in Seq(AnyFrame) /\ Len(es) = Len(fs) - 1
    BY <1>1, FrontFacts
  <2> HIDE DEF es
  <2> QED BY <1>2, <2>1
<1> HIDE DEF es
<1>4. /\ Append(es, g) \in Seq(AnyFrame) /\ Len(Append(es, g)) = 1 /\ Append(es, g)[1] = g
      /\ Append(es, Last(fs)) \in Seq(AnyFrame) /\ Len(Append(es, Last(fs))) = 1
      /\ Append(es, Last(fs))[1] = Last(fs)
  BY <1>1, <1>3, AppendProperties
<1>5. fs = Append(es, Last(fs))
  <2>1. \A i \in 1..1 : fs[i] = Append(es, Last(fs))[i]
    BY <1>1, <1>2, <1>4
  <2> QED BY <1>2, <1>4, <2>1, SeqEqual
<1>6. /\ Owned(fs) = Owned(es) + Decoded(Last(fs)) /\ Owned(es) \in Int
      /\ Owned(Append(es, g)) = Owned(es) + Decoded(g)
  BY <1>1, <1>3, <1>5, OwnedAppend
<1>7. Decoded(Last(fs)) \in Int /\ Decoded(g) \in Int /\ g \in ProgramFrames
  BY <1>1, FrameFacts
<1>8. Nested(Append(es, g)) /\ Last(Append(es, g)) = g
  BY <1>4, <1>7 DEF Nested, Last
<1>9. \A i \in 1..Len(fs) - 1 : FALSE
  BY <1>2
<1>10. Owned(Append(es, g)) = Owned(fs) - Decoded(Last(fs)) + Decoded(g)
  BY <1>6, <1>7
<1> QED BY <1>2, <1>4, <1>8, <1>9, <1>10 DEF es

LEMMA NestedReplace ==
  ASSUME NEW fs \in Seq(AnyFrame), Nested(fs),
         NEW g \in AnyFrame, g.kind = Last(fs).kind, g.base = Last(fs).base
  PROVE  LET gs == Append(Front(fs), g)
         IN  /\ gs \in Seq(AnyFrame) /\ Nested(gs) /\ Last(gs) = g /\ Len(gs) = Len(fs)
             /\ \A i \in 1..Len(fs) - 1 : gs[i] = fs[i]
             /\ gs[Len(fs)] = g
             /\ Owned(gs) = Owned(fs) - Decoded(Last(fs)) + Decoded(g)
<1>1. CASE Last(fs).kind = "program"
  BY <1>1, ProgramReplaced
<1>2. CASE Last(fs).kind # "program"
  <2>1. /\ Front(fs) \in Seq(AnyFrame) /\ Nested(Front(fs)) /\ Len(Front(fs)) = Len(fs) - 1
        /\ Sits(Last(Front(fs)), Last(fs)) /\ Len(Front(fs)) \in Nat
        /\ \A i \in 1..Len(fs) - 1 : Front(fs)[i] = fs[i]
        /\ Owned(Front(fs)) = Owned(fs) - Decoded(Last(fs))
    BY <1>2, NestedPop
  <2>2. Sits(Last(Front(fs)), g)
    BY <2>1 DEF Sits
  <2> DEFINE es == Front(fs)
  <2>3. Len(es) + 1 = Len(fs)
    BY <2>1
  <2> HIDE DEF es
  <2>4. /\ Append(es, g) \in Seq(AnyFrame) /\ Nested(Append(es, g)) /\ Last(Append(es, g)) = g
        /\ Len(Append(es, g)) = Len(es) + 1 /\ \A i \in 1..Len(es) : Append(es, g)[i] = es[i]
        /\ Append(es, g)[Len(es) + 1] = g
        /\ Owned(Append(es, g)) = Owned(es) + Decoded(g)
    BY <2>1, <2>2, NestedPush DEF es
  <2> QED BY <2>1, <2>3, <2>4 DEF es
<1> QED BY <1>1, <1>2

(* Two frames are left at once.                                            *)
LEMMA NestedPopTwo ==
  ASSUME NEW fs \in Seq(AnyFrame), Nested(fs), Last(fs).kind # "program"
  PROVE  /\ SubSeq(fs, 1, Len(fs) - 2) = Front(Front(fs))
         /\ fs[Len(fs) - 1] = Last(Front(fs)) /\ Len(fs) \in Nat
<1> DEFINE gs == Front(fs)
<1>1. /\ gs \in Seq(AnyFrame) /\ Nested(gs) /\ Len(gs) = Len(fs) - 1
      /\ Last(gs) = fs[Len(fs) - 1] /\ Len(fs) \in Nat
      /\ \A i \in 1..Len(fs) - 1 : gs[i] = fs[i]
  BY NestedPop, TopFrame
<1> HIDE DEF gs
<1>2. /\ Front(gs) \in Seq(AnyFrame) /\ Len(Front(gs)) = Len(gs) - 1
      /\ Len(gs) \in Nat \ {0} /\ \A i \in 1..Len(gs) - 1 : Front(gs)[i] = gs[i]
  <2>1. Len(gs) \in Nat \ {0} /\ Len(gs) > 0
    BY <1>1, TopFrame
  <2>2. /\ Front(gs) \in Seq(AnyFrame) /\ Len(Front(gs)) = Len(gs) - 1
        /\ \A i \in 1..Len(gs) - 1 : Front(gs)[i] = gs[i]
    BY <1>1, <2>1, FrontFacts
  <2> QED BY <2>1, <2>2
<1> DEFINE n == Len(fs) - 2
<1>3. n \in Nat /\ n \in 0..Len(fs) /\ Len(Front(gs)) = n
  BY <1>1, <1>2
<1>4. \A i \in 1..n : Front(gs)[i] = fs[i]
  BY <1>1, <1>2
<1>5. SubSeq(fs, 1, n) \in Seq(AnyFrame) /\ Len(SubSeq(fs, 1, n)) = n
  BY <1>3, DownFacts
<1>6. \A i \in 1..n : SubSeq(fs, 1, n)[i] = fs[i]
  BY <1>3
<1> HIDE DEF n
<1>7. SubSeq(fs, 1, n) = Front(gs)
  BY <1>2, <1>3, <1>4, <1>5, <1>6, SeqEqual
<1> QED BY <1>1, <1>3, <1>7 DEF gs, n

-----------------------------------------------------------------------------
(* What is pushed and what is returned.                                    *)

LEMMA PushedFacts ==
  ASSUME NEW h \in {"none", "null", "valid", "raw"}
  PROVE  Pushed(h) \in Seq(Item) /\ Len(Pushed(h)) \in 0..1
         /\ (h = "valid" <=> Len(Pushed(h)) = 1)
<1>1. <<"handler">> \in Seq(Item) /\ Len(<<"handler">>) = 1
  BY DEF Item
<1>2. <<>> \in Seq(Item) /\ Len(<<>>) = 0
  OBVIOUS
<1>3. CASE h = "valid"
  BY <1>1, <1>3 DEF Pushed
<1>4. CASE h # "valid"
  BY <1>2, <1>4 DEF Pushed
<1> QED BY <1>3, <1>4

LEMMA GivenFacts ==
  ASSUME NEW args \in Arguments
  PROVE  Given(args) \in Seq(Item) /\ Len(Given(args)) = Len(args) /\ Len(args) \in Nat
<1>1. Len(args) \in Nat /\ DOMAIN args = 1..Len(args)
  BY CallAssumption
<1> QED BY <1>1 DEF Given, Item

LEMMA ResultsFacts ==
  ASSUME NEW n \in 0..2
  PROVE  /\ Results(n) \in Seq(Item) /\ Len(Results(n)) = n /\ Results(n) \in Handed
         /\ <<>> \in Handed /\ (n # 0 => <<Head(Results(n))>> \in Handed)
<1> DEFINE both == <<"first", "second">>
<1>1. both \in Seq(Item) /\ Len(both) = 2
  BY DEF Item
<1>2. /\ SubSeq(both, 1, 0) \in Seq(Item) /\ Len(SubSeq(both, 1, 0)) = 0
      /\ SubSeq(both, 1, 1) \in Seq(Item) /\ Len(SubSeq(both, 1, 1)) = 1
      /\ SubSeq(both, 1, 2) \in Seq(Item) /\ Len(SubSeq(both, 1, 2)) = 2
  BY <1>1, DownFacts
<1>3. /\ SubSeq(both, 1, 1)[1] = "first"
      /\ SubSeq(both, 1, 2)[1] = "first" /\ SubSeq(both, 1, 2)[2] = "second"
  BY <1>1
<1>4. Results(0) = <<>>
  BY <1>2 DEF Results
<1>5. Results(1) = <<"first">>
  <2>1. <<"first">> \in Seq(Item)
    BY DEF Item
  <2>2. \A i \in 1..1 : SubSeq(both, 1, 1)[i] = <<"first">>[i]
    BY <1>3
  <2> QED BY <1>2, <2>1, <2>2, SeqEqual DEF Results
<1>6. Results(2) = both
  <2>2. \A i \in 1..2 : SubSeq(both, 1, 2)[i] = both[i]
    BY <1>3
  <2> QED BY <1>1, <1>2, <2>2, SeqEqual DEF Results
<1> QED BY <1>2, <1>4, <1>5, <1>6 DEF Results, Handed

(* The state, and the state after a step, in terms of its parts.           *)
LEMMA RunFacts ==
  ASSUME IInv
  PROVE  /\ frames \in Seq(AnyFrame) /\ Nested(frames) /\ stack \in Seq(Item)
         /\ Len(stack) \in Nat /\ liveArgs = Owned(frames) + leaked /\ Running = Last(frames)
         /\ Running \in AnyFrame /\ ErrorsOK /\ handed \in Handed /\ leaked \in Nat
<1>1. frames \in Seq(AnyFrame) /\ Nested(frames) /\ stack \in Seq(Item) /\ ErrorsOK
      /\ handed \in Handed /\ liveArgs = Owned(frames) + leaked /\ leaked \in Nat
  BY DEF IInv, TypeOK, ErrorsOK, ArgumentsOwned
<1>2. Running \in AnyFrame
  BY <1>1, TopFrame DEF Running
<1> QED BY <1>1, <1>2 DEF Running

LEMMA CalmFacts ==
  ASSUME IInv, Calm
  PROVE  Rests(Running, stack) /\ flight.kind = "none"
<1>1. Rests(Running, stack)
  BY DEF IInv
<1>2. flight.kind = "none"
  BY DEF Calm, None
<1> QED BY <1>1, <1>2

LEMMA FlightFacts ==
  ASSUME IInv, flight.kind # "none"
  PROVE  Reached(Running, stack, flight.kind)
<1>1. ~Calm
  BY DEF Calm, None
<1> QED BY <1>1 DEF IInv

LEMMA Rested ==
  ASSUME NEW fs \in Seq(AnyFrame), NEW s \in Seq(Item), Nested(fs), Rests(Last(fs), s),
         frames' = fs, stack' = s, flight' = None, liveArgs' = Owned(fs) + leaked',
         handed' \in Handed, ErrorsOK'
  PROVE  IInv'
BY DEF IInv, TypeOK, ErrorsOK, ArgumentsOwned, Calm, Running

LEMMA Arrived ==
  ASSUME NEW fs \in Seq(AnyFrame), NEW s \in Seq(Item), Nested(fs),
         Reached(Last(fs), s, flight'.kind), flight'.kind # "none",
         frames' = fs, stack' = s, liveArgs' = Owned(fs) + leaked', handed' \in Handed, ErrorsOK'
  PROVE  IInv'
<1>1. ~Calm'
  BY DEF Calm, None
<1> QED BY <1>1 DEF IInv, TypeOK, ErrorsOK, ArgumentsOwned, Running

LEMMA ErrorsKept ==
  ASSUME ErrorsOK, UNCHANGED <<flight, raised, seen, lost, leaked, build>>
  PROVE  ErrorsOK'
BY DEF ErrorsOK, build

(* A frame that returned or that runs Lua or C++ code has nothing but what *)
(* it holds on the stack.                                                  *)
LEMMA HeldOnly ==
  ASSUME IInv, Calm, Running.kind # "call"
  PROVE  /\ Running \in AnyFrame /\ Len(stack) = Running.base + Held(Running)
         /\ Len(stack) \in Nat /\ stack \in Seq(Item)
<1>1. Running \in AnyFrame /\ Len(stack) \in Nat /\ stack \in Seq(Item)
  BY RunFacts
<1>2. Rests(Running, stack)
  BY CalmFacts
<1> QED BY <1>1, <1>2 DEF Rests, InBody

LEMMA Entered ==
  ASSUME IInv, Calm, NEW g \in AnyFrame, Sits(Running, g), Decoded(g) = 0,
         NEW s \in Seq(Item), Rests(g, s), frames' = Append(frames, g), stack' = s,
         UNCHANGED <<flight, raised, seen, lost, handed, liveArgs, leaked, build>>
  PROVE  IInv'
<1>1. /\ frames \in Seq(AnyFrame) /\ Nested(frames) /\ liveArgs = Owned(frames) + leaked
      /\ Running = Last(frames) /\ ErrorsOK /\ handed \in Handed
  BY RunFacts
<1>2. /\ Append(frames, g) \in Seq(AnyFrame) /\ Nested(Append(frames, g))
      /\ Last(Append(frames, g)) = g
      /\ Owned(Append(frames, g)) = Owned(frames) + Decoded(g)
  BY <1>1, NestedPush
<1>3. Owned(frames) \in Int
  BY <1>1, OwnedAppend
<1>4. liveArgs' = Owned(Append(frames, g)) + leaked'
  BY <1>1, <1>2, <1>3, RunFacts
<1>5. flight' = None /\ handed' \in Handed /\ ErrorsOK'
  BY <1>1, ErrorsKept DEF Calm
<1> QED BY <1>2, <1>4, <1>5, Rested
-----------------------------------------------------------------------------
(* One lemma for each step: calls begin.                                   *)

LEMMA BeginCallStep ==
  ASSUME IInv, NEW h \in {"none", "null", "valid", "raw"}, BeginCall(h)
  PROVE  IInv'
<1>1. Calm /\ InBody(Running) /\ Running.kind # "call"
  BY DEF BeginCall, InCpp, InBody
<1>2. /\ Running \in AnyFrame /\ Len(stack) = Running.base + Held(Running)
      /\ Len(stack) \in Nat /\ stack \in Seq(Item)
  BY <1>1, HeldOnly
<1>3. PICK n \in Nat : n = Len(stack)
  BY <1>2
<1>4. PICK g : g = Call(n, h)
  OBVIOUS
<1>5. /\ g \in AnyFrame /\ g.kind = "call" /\ g.base = n /\ g.step = "push"
      /\ Held(g) = Len(Pushed(h)) /\ Decoded(g) = 0
  BY <1>4 DEF AnyFrame, CallFrames, Call, Held, Decoded
<1> DEFINE s == stack \o Pushed(h) \o <<"function">>
<1>6. s \in Seq(Item) /\ Len(s) = n + Len(Pushed(h)) + 1
  <2>1. <<"function">> \in Seq(Item) /\ Len(<<"function">>) = 1
    BY DEF Item
  <2>2. stack \o Pushed(h) \in Seq(Item) /\ Len(stack \o Pushed(h)) = n + Len(Pushed(h))
    BY <1>2, <1>3, PushedFacts, ConcatProperties
  <2>3. Len(Pushed(h)) \in Nat
    BY PushedFacts
  <2> QED BY ONLY <1>3, <2>1, <2>2, <2>3, ConcatProperties
<1> HIDE DEF s
<1>7. Sits(Running, g)
  BY <1>1, <1>2, <1>3, <1>5 DEF Sits, Waits
<1>8. Rests(g, s)
  BY <1>5, <1>6, PushedFacts DEF Rests
<1>9. /\ frames' = Append(frames, g) /\ stack' = s
      /\ UNCHANGED <<flight, raised, seen, lost, handed, liveArgs, leaked, build>>
  BY <1>3, <1>4 DEF BeginCall, Push, s
<1> QED BY <1>1, <1>5, <1>6, <1>7, <1>8, <1>9, Entered

(* A C++ function is entered with its arguments, from Lua or by            *)
(* try_overload_functions.                                                 *)
LEMMA FunctionEntered ==
  ASSUME IInv, Calm, Running.kind \in {"lua", "overloads"}, NEW args \in Arguments,
         NEW i \in DOMAIN Functions,
         frames' = Push(Function(Len(stack), args, i)), stack' = stack \o Given(args),
         UNCHANGED <<flight, raised, seen, lost, handed, liveArgs, leaked, build>>
  PROVE  IInv'
<1>2. /\ Running \in AnyFrame /\ Len(stack) = Running.base + Held(Running)
      /\ Len(stack) \in Nat /\ stack \in Seq(Item)
  BY HeldOnly
<1>3. PICK n \in Nat : n = Len(stack)
  BY <1>2
<1>4. PICK g : g = Function(n, args, i)
  OBVIOUS
<1>5. /\ g \in AnyFrame /\ g.kind = "function" /\ g.base = n
      /\ Held(g) = Len(args) /\ Decoded(g) = 0
  <2>1. Len(args) \in Nat
    BY GivenFacts
  <2> QED BY <1>4, <2>1 DEF AnyFrame, FunctionFrames, Function, Held, Decoded
<1> DEFINE s == stack \o Given(args)
<1>6. s \in Seq(Item) /\ Len(s) = n + Len(args) /\ Len(args) \in Nat
  BY <1>2, <1>3, GivenFacts, ConcatProperties
<1> HIDE DEF s
<1>7. Sits(Running, g)
  BY <1>2, <1>3, <1>5 DEF Sits, Waits
<1>8. Rests(g, s)
  BY <1>5, <1>6 DEF Rests
<1>9. frames' = Append(frames, g) /\ stack' = s
  BY <1>3, <1>4 DEF Push, s
<1> QED BY <1>5, <1>6, <1>7, <1>8, <1>9, Entered

LEMMA CallOverloadedStep ==
  ASSUME IInv, NEW args \in Arguments, NEW set \in Sets, CallOverloaded(args, set)
  PROVE  IInv'
<1>1. Calm /\ Running.kind = "lua"
  BY DEF CallOverloaded, Is
<1>2. /\ Running \in AnyFrame /\ Len(stack) = Running.base + Held(Running)
      /\ Len(stack) \in Nat /\ stack \in Seq(Item)
  BY <1>1, HeldOnly
<1>3. PICK n \in Nat : n = Len(stack)
  BY <1>2
<1>4. PICK g : g = Overloaded(n, args, set)
  OBVIOUS
<1>5. /\ g \in AnyFrame /\ g.kind = "overloads" /\ g.base = n
      /\ Held(g) = Len(args) + 2 /\ Decoded(g) = 0
  <2>1. <<>> \in Seq(SUBSET Nat) /\ 1 \in Nat \ {0}
    OBVIOUS
  <2> QED BY <1>4, <2>1 DEF AnyFrame, OverloadFrames, Overloaded, Held, Decoded, Above
<1> DEFINE s == stack \o Given(args) \o <<"functions", "errors">>
<1>6. s \in Seq(Item) /\ Len(s) = n + Len(args) + 2
  <2>1. <<"functions", "errors">> \in Seq(Item) /\ Len(<<"functions", "errors">>) = 2
    BY DEF Item
  <2>2. stack \o Given(args) \in Seq(Item) /\ Len(stack \o Given(args)) = n + Len(args)
    BY <1>2, <1>3, GivenFacts, ConcatProperties
  <2>3. Len(args) \in Nat
    BY GivenFacts
  <2> QED BY ONLY <1>3, <2>1, <2>2, <2>3, ConcatProperties
<1> HIDE DEF s
<1>7. Sits(Running, g)
  BY <1>1, <1>2, <1>3, <1>5 DEF Sits, Waits
<1>8. Rests(g, s)
  <2>1. Len(args) \in Nat
    BY GivenFacts
  <2> QED BY <1>5, <1>6, <2>1 DEF Rests
<1>9. /\ frames' = Append(frames, g) /\ stack' = s
      /\ UNCHANGED <<flight, raised, seen, lost, handed, liveArgs, leaked, build>>
  BY <1>3, <1>4 DEF CallOverloaded, Push, s
<1> QED BY <1>1, <1>5, <1>6, <1>7, <1>8, <1>9, Entered

LEMMA LuaPcallStep ==
  ASSUME IInv, LuaPcall
  PROVE  IInv'
<1>1. Calm /\ Running.kind = "lua"
  BY DEF LuaPcall, Is
<1>2. /\ Running \in AnyFrame /\ Len(stack) = Running.base + Held(Running)
      /\ Len(stack) \in Nat /\ stack \in Seq(Item)
      /\ frames \in Seq(AnyFrame) /\ Nested(frames) /\ liveArgs = Owned(frames) + leaked
      /\ Running = Last(frames) /\ ErrorsOK /\ handed \in Handed
  BY <1>1, HeldOnly, RunFacts
<1>3. PICK n \in Nat : n = Len(stack)
  BY <1>2
<1>4. PICK p, g : p = Protected(n) /\ g = Lua(n)
  OBVIOUS
<1>5. /\ p \in AnyFrame /\ p.kind = "pcall" /\ p.base = n /\ Held(p) = 0 /\ Decoded(p) = 0
      /\ g \in AnyFrame /\ g.kind = "lua" /\ g.base = n /\ Held(g) = 0 /\ Decoded(g) = 0
  BY <1>4 DEF AnyFrame, LuaFrames, Protected, Lua, Held, Decoded
<1>6. Sits(Running, p) /\ Sits(p, g)
  BY <1>1, <1>2, <1>3, <1>5 DEF Sits, Waits
<1> DEFINE fs == Append(frames, p)
           gs == Append(fs, g)
<1>7. /\ fs \in Seq(AnyFrame) /\ Nested(fs)
      /\ Last(fs) = p /\ Owned(fs) = Owned(frames) + Decoded(p)
  BY <1>2, <1>5, <1>6, NestedPush
<1> HIDE DEF fs
<1>8. /\ gs \in Seq(AnyFrame) /\ Nested(gs)
      /\ Last(gs) = g /\ Owned(gs) = Owned(fs) + Decoded(g)
  BY <1>5, <1>6, <1>7, NestedPush
<1> HIDE DEF gs
<1>9. frames' = gs /\ stack' = stack
  <2>1. frames' = frames \o <<p, g>> /\ stack' = stack
    BY <1>3, <1>4 DEF LuaPcall
  <2>2. frames \o <<p, g>> = gs
    BY <1>2, <1>5 DEF fs, gs
  <2> QED BY <2>1, <2>2
<1>10. Rests(g, stack)
  BY <1>3, <1>5 DEF Rests
<1>11. liveArgs' = Owned(gs) + leaked'
  <2>1. Owned(frames) \in Int
    BY <1>2, <1>5, OwnedAppend
  <2> QED BY <2>1, <1>2, <1>5, <1>7, <1>8, RunFacts DEF LuaPcall
<1>12. flight' = None /\ handed' \in Handed /\ ErrorsOK'
  BY <1>1, <1>2, ErrorsKept DEF LuaPcall, Calm
<1> QED BY <1>2, <1>8, <1>9, <1>10, <1>11, <1>12, Rested
-----------------------------------------------------------------------------
(* The running call goes on.                                               *)

LEMMA Replaced ==
  ASSUME IInv, Calm,
         NEW g \in AnyFrame, g.kind = Running.kind, g.base = Running.base, Rests(g, stack),
         frames' = Replace(g), liveArgs' = liveArgs - Decoded(Running) + Decoded(g),
         UNCHANGED <<stack, flight, raised, seen, lost, handed, leaked, build>>
  PROVE  IInv'
<1>1. /\ frames \in Seq(AnyFrame) /\ Nested(frames) /\ liveArgs = Owned(frames) + leaked
      /\ Running = Last(frames) /\ ErrorsOK /\ handed \in Handed /\ stack \in Seq(Item)
  BY RunFacts
<1>2. /\ Replace(g) \in Seq(AnyFrame) /\ Nested(Replace(g)) /\ Last(Replace(g)) = g
      /\ Owned(Replace(g)) = Owned(frames) - Decoded(Running) + Decoded(g)
  BY <1>1, NestedReplace DEF Replace
<1>3. flight' = None /\ handed' \in Handed /\ ErrorsOK'
  BY <1>1, ErrorsKept DEF Calm
<1>4. liveArgs' = Owned(Replace(g)) + leaked'
  <2>1. Owned(frames) \in Int /\ leaked \in Nat /\ leaked' = leaked
    BY <1>1, RunFacts, OwnedAppend
  <2>2. Decoded(Running) \in Int /\ Decoded(g) \in Int
    BY RunFacts, FrameFacts
  <2> QED BY <1>1, <1>2, <2>1, <2>2
<1> QED BY <1>1, <1>2, <1>3, <1>4, Rested

LEMMA DecodeSelfStep ==
  ASSUME IInv, DecodeSelf
  PROVE  IInv'
<1>1. Calm /\ Running.kind = "function" /\ Running.step = "self"
  BY DEF DecodeSelf, Decoding, Is
<1>2. Running \in AnyFrame /\ Running \in FunctionFrames
  BY <1>1, RunFacts, FrameFacts
<1>3. PICK f \in FunctionFrames : f = Running
  BY <1>2
<1>4. PICK g : g = [f EXCEPT !.step = "decode"]
  OBVIOUS
<1>5. /\ g \in FunctionFrames /\ g.kind = f.kind /\ g.base = f.base /\ g.args = f.args
      /\ f.kind = "function" /\ g.decoded = f.decoded /\ g.kept = f.kept
  BY <1>4 DEF FunctionFrames
<1>6. Rests(g, stack)
  <2>1. Rests(f, stack)
    BY <1>1, <1>3, CalmFacts
  <2> QED BY <1>5, <2>1 DEF Rests, InBody, Held
<1>7. /\ frames' = Replace(g)
      /\ UNCHANGED <<stack, flight, raised, seen, lost, handed, liveArgs, leaked, build>>
  BY <1>3, <1>4 DEF DecodeSelf
<1>8. liveArgs' = liveArgs - Decoded(f) + Decoded(g)
  <2>1. f.decoded \in Nat
    BY DEF FunctionFrames
  <2>2. liveArgs \in Int
    BY RunFacts, <1>2, OwnedAppend
  <2> QED BY <1>5, <1>7, <2>1, <2>2 DEF Decoded
<1> QED BY <1>1, <1>3, <1>5, <1>6, <1>7, <1>8, Replaced DEF AnyFrame

LEMMA DecodeArgStep ==
  ASSUME IInv, DecodeArg
  PROVE  IInv'
<1>1. Calm /\ Running.kind = "function" /\ Running.step = "decode"
  BY DEF DecodeArg, Decoding, Is
<1>2. Running \in AnyFrame /\ Running \in FunctionFrames
  BY <1>1, RunFacts, FrameFacts
<1>3. PICK f \in FunctionFrames : f = Running
  BY <1>2
<1>4. PICK g : g = [f EXCEPT !.decoded = f.decoded + 1]
  OBVIOUS
<1>5. /\ g \in FunctionFrames /\ g.kind = f.kind /\ g.base = f.base /\ g.args = f.args
      /\ f.kind = "function" /\ g.decoded = f.decoded + 1 /\ g.kept = f.kept
  BY <1>4 DEF FunctionFrames
<1>6. Rests(g, stack)
  <2>1. Rests(f, stack)
    BY <1>1, <1>3, CalmFacts
  <2> QED BY <1>5, <2>1 DEF Rests, InBody, Held
<1>7. /\ frames' = Replace(g)
      /\ UNCHANGED <<stack, flight, raised, seen, lost, handed, leaked, build>>
  BY <1>3, <1>4 DEF DecodeArg
<1>8. liveArgs' = liveArgs - Decoded(f) + Decoded(g)
  <2>1. liveArgs' = liveArgs + 1 /\ f.decoded \in Nat
    BY DEF DecodeArg, FunctionFrames
  <2>2. liveArgs \in Int
    BY RunFacts, <1>2, OwnedAppend
  <2> QED BY <1>5, <2>1, <2>2 DEF Decoded
<1> QED BY <1>1, <1>3, <1>5, <1>6, <1>7, <1>8, Replaced DEF AnyFrame

LEMMA BeginBodyStep ==
  ASSUME IInv, BeginBody
  PROVE  IInv'
<1>1. Calm /\ Running.kind = "function" /\ Running.step = "decode"
  BY DEF BeginBody, Decoding, Is
<1>2. Running \in AnyFrame /\ Running \in FunctionFrames
  BY <1>1, RunFacts, FrameFacts
<1>3. PICK f \in FunctionFrames : f = Running
  BY <1>2
<1>4. PICK g : g = [f EXCEPT !.step = "body"]
  OBVIOUS
<1>5. /\ g \in FunctionFrames /\ g.kind = f.kind /\ g.base = f.base /\ g.args = f.args
      /\ f.kind = "function" /\ g.decoded = f.decoded /\ g.kept = f.kept
  BY <1>4 DEF FunctionFrames
<1>6. Rests(g, stack)
  <2>1. Rests(f, stack)
    BY <1>1, <1>3, CalmFacts
  <2> QED BY <1>5, <2>1 DEF Rests, InBody, Held
<1>7. /\ frames' = Replace(g)
      /\ UNCHANGED <<stack, flight, raised, seen, lost, handed, liveArgs, leaked, build>>
  BY <1>3, <1>4 DEF BeginBody
<1>8. liveArgs' = liveArgs - Decoded(f) + Decoded(g)
  <2>1. f.decoded \in Nat
    BY DEF FunctionFrames
  <2>2. liveArgs \in Int
    BY RunFacts, <1>2, OwnedAppend
  <2> QED BY <1>5, <1>7, <2>1, <2>2 DEF Decoded
<1> QED BY <1>1, <1>3, <1>5, <1>6, <1>7, <1>8, Replaced DEF AnyFrame

(* An overload was tried or skipped.                                       *)
LEMMA MessageFacts ==
  ASSUME NEW f \in OverloadFrames, NEW errors \in SUBSET Nat
  PROVE  LET g == WithMessage(f, errors)
         IN  /\ g \in OverloadFrames /\ g.kind = "overloads" /\ g.base = f.base
             /\ Held(g) = Held(f) /\ Decoded(g) = 0 /\ Decoded(f) = 0
             /\ g.messages = Append(f.messages, errors)
<1> DEFINE m == Append(f.messages, errors)
<1>1. f.messages \in Seq(SUBSET Nat) /\ f.next \in Nat \ {0}
  BY DEF OverloadFrames
<1>2. m \in Seq(SUBSET Nat) /\ f.next + 1 \in Nat \ {0}
  BY <1>1
<1>3. WithMessage(f, errors) = [f EXCEPT !.next = f.next + 1, !.messages = m]
  BY DEF WithMessage
<1> HIDE DEF m
<1>4. PICK g : g = WithMessage(f, errors)
  OBVIOUS
<1>5. /\ g \in OverloadFrames /\ g.kind = "overloads" /\ g.base = f.base /\ g.args = f.args
      /\ f.kind = "overloads" /\ g.messages = m
  BY <1>2, <1>3, <1>4 DEF OverloadFrames
<1> QED BY <1>4, <1>5 DEF Held, Decoded, Above, m

LEMMA OverloadSkipStep ==
  ASSUME IInv, OverloadSkip
  PROVE  IInv'
<1>1. Calm /\ Running.kind = "overloads"
  BY DEF OverloadSkip, Trying, Is
<1>2. Running \in AnyFrame /\ Running \in OverloadFrames
  BY <1>1, RunFacts, FrameFacts
<1>3. PICK f \in OverloadFrames : f = Running
  BY <1>2
<1>4. PICK g : g = WithMessage(f, {})
  OBVIOUS
<1>5. /\ g \in OverloadFrames /\ g.kind = "overloads" /\ g.base = f.base
      /\ Held(g) = Held(f) /\ Decoded(g) = 0 /\ Decoded(f) = 0
  BY <1>4, MessageFacts
<1>6. Rests(g, stack)
  BY <1>1, <1>2, <1>3, <1>5, HeldOnly DEF Rests
<1>7. /\ frames' = Replace(g)
      /\ UNCHANGED <<stack, flight, raised, seen, lost, handed, liveArgs, leaked, build>>
  BY <1>3, <1>4 DEF OverloadSkip
<1>8. liveArgs' = liveArgs - Decoded(f) + Decoded(g)
  <2>1. liveArgs \in Int
    BY RunFacts, <1>2, OwnedAppend
  <2> QED BY <1>5, <1>7, <2>1
<1> QED BY <1>1, <1>3, <1>5, <1>6, <1>7, <1>8, Replaced DEF AnyFrame

(* lua_pcall starts the function.                                          *)
LEMMA EnterStep ==
  ASSUME IInv, Enter
  PROVE  IInv'
<1>1. Calm /\ Running.kind = "call" /\ Running.step = "push"
  BY DEF Enter, Is
<1>2. /\ Running \in AnyFrame /\ Running \in CallFrames /\ Rests(Running, stack)
      /\ frames \in Seq(AnyFrame) /\ Nested(frames) /\ liveArgs = Owned(frames) + leaked
      /\ Running = Last(frames) /\ ErrorsOK /\ handed \in Handed
      /\ stack \in Seq(Item) /\ Len(stack) \in Nat
  BY <1>1, RunFacts, FrameFacts, CalmFacts
<1>3. PICK f \in CallFrames : f = Running
  BY <1>2
<1>4. PICK n \in Nat : n = Len(stack) - 1 /\ n = f.base + Held(f)
  <2>1. Len(stack) = f.base + Held(f) + 1 /\ f.base + Held(f) \in Nat
    BY <1>1, <1>2, <1>3, FrameFacts DEF Rests, InBody
  <2> QED BY <1>2, <2>1
<1>5. PICK c, g : c = [f EXCEPT !.step = "run"] /\ g = Lua(n)
  OBVIOUS
<1>6. /\ c \in CallFrames /\ c.kind = "call" /\ f.kind = "call" /\ c.base = f.base
      /\ c.handler = f.handler /\ c.step = "run"
  BY <1>5 DEF CallFrames
<1>7. /\ g \in AnyFrame /\ g.kind = "lua" /\ g.base = n /\ Held(g) = 0 /\ Decoded(g) = 0
      /\ c \in AnyFrame /\ Held(c) = Held(f) /\ Decoded(c) = 0 /\ Decoded(f) = 0
  BY <1>5, <1>6 DEF AnyFrame, LuaFrames, Lua, Held, Decoded
<1> DEFINE fs == Append(Front(frames), c)
           gs == Append(fs, g)
<1>8. /\ fs \in Seq(AnyFrame) /\ Nested(fs) /\ Last(fs) = c
      /\ Owned(fs) = Owned(frames) - Decoded(f) + Decoded(c)
  BY <1>1, <1>2, <1>3, <1>6, <1>7, NestedReplace
<1> HIDE DEF fs
<1>9. Sits(c, g)
  BY <1>4, <1>6, <1>7 DEF Sits, Waits
<1>10. gs \in Seq(AnyFrame) /\ Nested(gs) /\ Last(gs) = g /\ Owned(gs) = Owned(fs) + Decoded(g)
  BY <1>7, <1>8, <1>9, NestedPush
<1> HIDE DEF gs
<1>11. frames' = gs
  <2>1. frames' = fs \o <<g>>
    BY <1>3, <1>4, <1>5 DEF Enter, Replace, fs
  <2> QED BY <1>7, <1>8, <2>1 DEF gs
<1>12. stack' = Front(stack) /\ Front(stack) \in Seq(Item) /\ Len(Front(stack)) = n
  <2>1. Len(stack) > 0
    BY <1>2, <1>4
  <2> QED BY <1>2, <1>4, <2>1, FrontFacts DEF Enter
<1>13. Rests(g, Front(stack))
  BY <1>7, <1>12 DEF Rests
<1>14. liveArgs' = Owned(gs) + leaked'
  <2>1. Owned(frames) \in Int
    BY <1>2, <1>7, OwnedAppend
  <2>2. liveArgs' = liveArgs
    BY DEF Enter
  <2>3. leaked' = leaked /\ leaked \in Nat
    BY RunFacts DEF Enter
  <2> QED BY <1>2, <1>7, <1>8, <1>10, <2>1, <2>2, <2>3
<1>15. flight' = None /\ handed' \in Handed /\ ErrorsOK'
  BY <1>1, <1>2, ErrorsKept DEF Enter, Calm
<1> QED BY <1>7, <1>10, <1>11, <1>12, <1>13, <1>14, <1>15, Rested
-----------------------------------------------------------------------------
(* Calls return.                                                           *)

LEMMA TailFacts ==
  ASSUME NEW S, NEW s \in Seq(S), NEW m \in Nat, NEW n \in Nat, m + n = Len(s)
  PROVE  /\ SubSeq(s, m + 1, Len(s)) \in Seq(S) /\ Len(SubSeq(s, m + 1, Len(s))) = n
         /\ \A i \in 1..n : SubSeq(s, m + 1, Len(s))[i] = s[m + i]
<1>1. m + 1 \in Int /\ Len(s) \in Int /\ \A i \in m + 1..Len(s) : s[i] \in S
  OBVIOUS
<1>2. /\ SubSeq(s, m + 1, Len(s)) \in Seq(S)
      /\ Len(SubSeq(s, m + 1, Len(s))) =
           IF m + 1 <= Len(s) THEN Len(s) - (m + 1) + 1 ELSE 0
      /\ \A i \in 1..Len(s) - (m + 1) + 1 : SubSeq(s, m + 1, Len(s))[i] = s[m + 1 + i - 1]
  BY <1>1, SubSeqProperties
<1>3. Len(s) - (m + 1) + 1 = n /\ (m + 1 <= Len(s) <=> n # 0)
  OBVIOUS
<1>4. \A i \in 1..n : m + 1 + i - 1 = m + i
  OBVIOUS
<1> QED BY <1>2, <1>3, <1>4

LEMMA ConcatFacts ==
  ASSUME NEW S, NEW s \in Seq(S), NEW t \in Seq(S)
  PROVE  /\ s \o t \in Seq(S) /\ Len(s \o t) = Len(s) + Len(t)
         /\ \A i \in 1..Len(t) : (s \o t)[Len(s) + i] = t[i]
<1>1. s \o t \in Seq(S) /\ Len(s \o t) = Len(s) + Len(t)
  BY ConcatProperties
<1>2. ASSUME NEW i \in 1..Len(t)
      PROVE  (s \o t)[Len(s) + i] = t[i]
  <2>1. /\ Len(s) + i \in 1..Len(s) + Len(t) /\ ~(Len(s) + i <= Len(s))
        /\ Len(s) + i - Len(s) = i
    OBVIOUS
  <2> QED BY <2>1
<1> QED BY <1>1, <1>2

(* Without the entry at b + 1, what was above it is above b.               *)
LEMMA RemovedFacts ==
  ASSUME NEW S, NEW s \in Seq(S), NEW b \in Nat, Len(s) >= b + 1
  PROVE  LET r == RemoveAt(s, b + 1)
         IN  SubSeq(r, b + 1, Len(r)) = SubSeq(s, b + 2, Len(s))
<1>1. PICK n \in Nat : b + 1 + n = Len(s)
  <2>1. Len(s) - (b + 1) \in Nat /\ b + 1 + (Len(s) - (b + 1)) = Len(s)
    OBVIOUS
  <2> QED BY <2>1
<1>2. PICK t : t = SubSeq(s, b + 2, Len(s))
  OBVIOUS
<1>3. t \in Seq(S) /\ Len(t) = n
  <2>1. b + 1 + 1 = b + 2 /\ b + 1 \in Nat
    OBVIOUS
  <2> QED BY <1>1, <1>2, <2>1, TailFacts
<1>4. PICK d : d = SubSeq(s, 1, b) /\ d \in Seq(S) /\ Len(d) = b
  <2>1. b \in 0..Len(s)
    BY <1>1
  <2> QED BY <2>1, DownFacts
<1>5. PICK r : r = RemoveAt(s, b + 1) /\ r = d \o t
  <2>1. (b + 1) - 1 = b /\ b + 1 + 1 = b + 2
    OBVIOUS
  <2>2. RemoveAt(s, b + 1) = SubSeq(s, 1, (b + 1) - 1) \o SubSeq(s, b + 1 + 1, Len(s))
    BY DEF RemoveAt
  <2>3. RemoveAt(s, b + 1) = d \o t
    BY ONLY <1>2, <1>4, <2>1, <2>2
  <2> QED BY ONLY <2>3
<1>6. r \in Seq(S) /\ Len(r) = b + n /\ \A i \in 1..n : r[b + i] = t[i]
  <2>1. /\ d \o t \in Seq(S) /\ Len(d \o t) = Len(d) + Len(t)
        /\ \A i \in 1..Len(t) : (d \o t)[Len(d) + i] = t[i]
    BY <1>3, <1>4, ConcatFacts
  <2> QED BY ONLY <1>3, <1>4, <1>5, <2>1
<1>7. /\ SubSeq(r, b + 1, Len(r)) \in Seq(S) /\ Len(SubSeq(r, b + 1, Len(r))) = n
      /\ \A i \in 1..n : SubSeq(r, b + 1, Len(r))[i] = r[b + i]
  BY <1>6, TailFacts
<1>8. SubSeq(r, b + 1, Len(r)) = t
  BY <1>3, <1>6, <1>7, SeqEqual
<1> QED BY <1>2, <1>5, <1>8

(* What is pushed last is found again above what was there before.         *)
LEMMA TopFacts ==
  ASSUME NEW S, NEW s \in Seq(S), NEW t \in Seq(S)
  PROVE  /\ s \o t \in Seq(S) /\ Len(s \o t) = Len(s) + Len(t)
         /\ SubSeq(s \o t, Len(s) + 1, Len(s \o t)) = t
<1>1. /\ s \o t \in Seq(S) /\ Len(s \o t) = Len(s) + Len(t)
      /\ \A i \in 1..Len(t) : (s \o t)[Len(s) + i] = t[i]
  BY ConcatFacts
<1>2. PICK r : r = s \o t
  OBVIOUS
<1>3. /\ SubSeq(r, Len(s) + 1, Len(r)) \in Seq(S)
      /\ Len(SubSeq(r, Len(s) + 1, Len(r))) = Len(t)
      /\ \A i \in 1..Len(t) : SubSeq(r, Len(s) + 1, Len(r))[i] = r[Len(s) + i]
  <2>1. Len(s) \in Nat /\ Len(t) \in Nat
    OBVIOUS
  <2> QED BY ONLY <1>1, <1>2, <2>1, TailFacts
<1>4. \A i \in 1..Len(t) : SubSeq(r, Len(s) + 1, Len(r))[i] = t[i]
  BY ONLY <1>1, <1>2, <1>3
<1>5. SubSeq(r, Len(s) + 1, Len(r)) = t
  BY <1>3, <1>4, SeqEqual
<1> QED BY <1>1, <1>2, <1>5

(* What a frame that is left leaves behind.                                *)
LEMMA LeftFacts ==
  ASSUME IInv, Running.kind # "program"
  PROVE  /\ Front(frames) \in Seq(AnyFrame) /\ Nested(Front(frames))
         /\ Last(Front(frames)) \in AnyFrame /\ Sits(Last(Front(frames)), Running)
         /\ Last(Front(frames)) = frames[Len(frames) - 1]
         /\ Owned(Front(frames)) + leaked = liveArgs - Decoded(Running)
         /\ Running.base = Last(Front(frames)).base + Held(Last(Front(frames)))
         /\ Waits(Last(Front(frames)), Running.kind)
         /\ Running.base \in 0..Len(stack)
<1>1. /\ frames \in Seq(AnyFrame) /\ Nested(frames) /\ liveArgs = Owned(frames) + leaked
      /\ Running = Last(frames) /\ Running \in AnyFrame /\ Len(stack) \in Nat
  BY RunFacts
<1>2. /\ Front(frames) \in Seq(AnyFrame) /\ Nested(Front(frames))
      /\ Last(Front(frames)) \in AnyFrame /\ Sits(Last(Front(frames)), Running)
      /\ Last(Front(frames)) = frames[Len(frames) - 1]
      /\ Owned(Front(frames)) + leaked = liveArgs - Decoded(Running)
  <2>1. /\ Front(frames) \in Seq(AnyFrame) /\ Nested(Front(frames))
        /\ Last(Front(frames)) \in AnyFrame /\ Sits(Last(Front(frames)), Running)
        /\ Last(Front(frames)) = frames[Len(frames) - 1]
        /\ Owned(Front(frames)) = Owned(frames) - Decoded(Running) /\ Owned(frames) \in Int
    BY <1>1, NestedPop
  <2>2. leaked \in Nat /\ Decoded(Running) \in Nat
    BY <1>1, RunFacts, FrameFacts
  <2> QED BY <1>1, <2>1, <2>2
<1>3. Len(stack) >= Running.base + Held(Running)
  <2>1. Running.base \in Nat /\ Held(Running) \in Nat
    BY <1>1, FrameFacts
  <2>2. CASE flight.kind = "none"
    <3>1. Calm
      BY <2>2 DEF IInv, TypeOK, ErrorsOK, Calm, None
    <3> QED BY <1>1, <2>1, <3>1, CalmFacts DEF Rests, InBody
  <2>3. CASE flight.kind # "none"
    <3>1. Reached(Running, stack, flight.kind)
      BY <2>3, FlightFacts
    <3> QED BY <1>1, <2>1, <3>1 DEF Reached
  <2> QED BY <2>2, <2>3
<1>4. Running.base \in 0..Len(stack)
  BY <1>1, <1>3, FrameFacts
<1> QED BY <1>2, <1>4 DEF Sits

(* A call is over, successful or given up, and C++ code goes on.           *)
LEMMA CallOver ==
  ASSUME IInv, Running.kind = "call", frames' = Front(frames), stack' = Restored(Running.base),
         flight' = None, UNCHANGED <<liveArgs, leaked>>, handed' \in Handed, ErrorsOK'
  PROVE  IInv'
<1>1. /\ Front(frames) \in Seq(AnyFrame) /\ Nested(Front(frames))
      /\ Last(Front(frames)) \in AnyFrame
      /\ Owned(Front(frames)) + leaked = liveArgs - Decoded(Running)
      /\ Running.base = Last(Front(frames)).base + Held(Last(Front(frames)))
      /\ Waits(Last(Front(frames)), Running.kind)
      /\ Running.base \in 0..Len(stack)
  BY LeftFacts
<1>2. stack \in Seq(Item) /\ Running \in AnyFrame /\ Running \in CallFrames
      /\ liveArgs \in Int
  BY RunFacts, OwnedAppend, FrameFacts
<1>3. Restored(Running.base) \in Seq(Item) /\ Len(Restored(Running.base)) = Running.base
  BY <1>1, <1>2, DownFacts DEF Restored, Down
<1>4. Decoded(Running) = 0
  BY DEF Decoded
<1>5. Rests(Last(Front(frames)), Restored(Running.base))
  BY <1>1, <1>3 DEF Rests, Waits
<1>6. liveArgs' = Owned(Front(frames)) + leaked'
  BY <1>1, <1>2, <1>4, RunFacts
<1> QED BY <1>1, <1>3, <1>5, <1>6, Rested

LEMMA PushFailsStep ==
  ASSUME IInv, PushFails
  PROVE  IInv'
<1>1. /\ Calm /\ Running.kind = "call" /\ frames' = Front(frames)
      /\ stack' = Restored(Running.base)
      /\ UNCHANGED <<flight, raised, seen, lost, handed, liveArgs, leaked, build>>
  BY DEF PushFails, Is
<1>2. flight' = None /\ handed' \in Handed /\ ErrorsOK'
  BY <1>1, RunFacts, ErrorsKept DEF Calm
<1> QED BY <1>1, <1>2, CallOver

(* The values that decode_call_result finds are the results of the call.   *)
LEMMA DecodedValues ==
  ASSUME IInv, Is("call"), Running.step = "decode"
  PROVE  Values(Running) \in Handed
<1>1. Calm /\ Running.kind = "call"
  BY DEF Is
<1>2. /\ Running \in AnyFrame /\ Running \in CallFrames /\ Rests(Running, stack)
      /\ stack \in Seq(Item) /\ Len(stack) \in Nat
  BY <1>1, RunFacts, FrameFacts, CalmFacts
<1>3. PICK f \in CallFrames : f = Running
  BY <1>2
<1>4. f.base \in Nat /\ f.handler \in {"none", "null", "valid", "raw"} /\ f.kind = "call"
  BY DEF CallFrames
<1>5. /\ Len(stack) >= f.base + Held(f)
      /\ SubSeq(stack, f.base + Held(f) + 1, Len(stack)) \in Handed
  BY <1>1, <1>2, <1>3 DEF Rests, InBody
<1>6. Held(f) = Len(Pushed(f.handler))
  BY <1>4 DEF Held
<1>7. CASE f.handler = "valid"
  <2>1. Held(f) = 1
    BY <1>4, <1>6, <1>7, PushedFacts
  <2>2. HandlerRemoved(f) = RemoveAt(stack, f.base + 1)
    BY <1>7 DEF HandlerRemoved
  <2>3. Len(stack) >= f.base + 1 /\ f.base + Held(f) + 1 = f.base + 2
    BY <1>4, <1>5, <2>1
  <2>4. Values(f) = SubSeq(stack, f.base + 2, Len(stack))
    BY <1>2, <1>4, <2>2, <2>3, RemovedFacts DEF Values
  <2> QED BY <1>3, <1>5, <2>3, <2>4
<1>8. CASE f.handler # "valid"
  <2>1. Held(f) = 0
    BY <1>4, <1>6, <1>8 DEF Pushed
  <2>2. HandlerRemoved(f) = stack
    BY <1>8 DEF HandlerRemoved
  <2>3. f.base + Held(f) + 1 = f.base + 1
    BY <1>4, <2>1
  <2> QED BY <1>3, <1>5, <2>2, <2>3 DEF Values
<1> QED BY <1>7, <1>8

LEMMA DecodeStep ==
  ASSUME IInv, NEW wants \in 0..2, Decode(wants)
  PROVE  IInv'
<1> DEFINE values == Values(Running)
<1>1. /\ Is("call") /\ Calm /\ Running.kind = "call" /\ Running.step = "decode"
      /\ frames' = Front(frames) /\ stack' = Restored(Running.base)
      /\ UNCHANGED <<flight, raised, seen, lost, liveArgs, leaked, build>>
      /\ handed' = CASE wants = Len(values) -> values
                     [] wants = 1 /\ Len(values) = 2 -> <<Head(values)>>
                     [] OTHER -> <<>>
  BY DEF Decode, Is
<1>2. values \in Handed
  BY <1>1, DecodedValues
<1> HIDE DEF values
<1>3. PICK n \in 0..2 : values = Results(n)
  BY <1>2 DEF Handed
<1>4. /\ Len(Results(n)) = n /\ <<>> \in Handed
      /\ n # 0 => <<Head(Results(n))>> \in Handed
  BY ResultsFacts
<1>5. CASE wants = Len(values)
  <2>1. handed' = values
    BY <1>1, <1>5, <1>3, <1>4
  <2>2. flight' = None /\ ErrorsOK'
    BY <1>1, RunFacts, ErrorsKept DEF Calm
  <2> QED BY <1>1, <1>2, <2>1, <2>2, CallOver
<1>6. CASE wants # Len(values)
  <2>1. (handed' = <<Head(values)>> /\ n # 0) \/ handed' = <<>>
    BY <1>1, <1>6, <1>3, <1>4
  <2>2. handed' \in Handed
    BY <1>3, <1>4, <2>1
  <2>3. flight' = None /\ ErrorsOK'
    BY <1>1, RunFacts, ErrorsKept DEF Calm
  <2> QED BY <1>1, <2>2, <2>3, CallOver
<1> QED BY <1>5, <1>6

(* What luabridge::pcall leaves is kept by the C++ code that called it.    *)
LEMMA KeepingFacts ==
  ASSUME IInv, Running.kind = "call", NEW n \in Nat
  PROVE  LET fs == Keeping(n)
         IN  /\ fs \in Seq(AnyFrame) /\ Nested(fs) /\ InBody(Last(fs))
             /\ Last(fs).base + Held(Last(fs)) = Running.base + n
             /\ Owned(fs) + leaked = liveArgs
<1>1. /\ frames \in Seq(AnyFrame) /\ Nested(frames) /\ Running = Last(frames)
      /\ liveArgs = Owned(frames) + leaked /\ leaked \in Nat
  BY RunFacts
<1>2. PICK es : /\ es = Front(frames) /\ es \in Seq(AnyFrame) /\ Nested(es)
                /\ Owned(es) + leaked = liveArgs - Decoded(Running)
                /\ Last(es) = frames[Len(frames) - 1]
                /\ Running.base = Last(es).base + Held(Last(es))
                /\ Waits(Last(es), Running.kind)
  BY LeftFacts
<1>3. PICK f \in AnyFrame : f = Last(es)
  BY <1>2, TopFrame
<1>4. InBody(f) /\ f.kind \in {"program", "function"}
  BY <1>2, <1>3 DEF Waits, InBody
<1>5. PICK g : g = [f EXCEPT !.kept = f.kept + n]
  OBVIOUS
<1>6. /\ g \in AnyFrame /\ g.kind = f.kind /\ g.base = f.base /\ InBody(g)
      /\ g.base + Held(g) = f.base + Held(f) + n /\ Decoded(g) = Decoded(f)
  <2>1. CASE f.kind = "program"
    <3>1. f \in ProgramFrames
      BY <2>1, FrameFacts
    <3>2. /\ g \in ProgramFrames /\ g.kind = "program" /\ g.base = f.base
          /\ g.kept = f.kept + n /\ f.kept \in Nat /\ f.base = 0
      BY <3>1, <1>5 DEF ProgramFrames
    <3> QED BY <2>1, <3>2 DEF AnyFrame, InBody, Held, Decoded
  <2>2. CASE f.kind = "function"
    <3>1. f \in FunctionFrames
      BY <2>2, FrameFacts
    <3>2. /\ g \in FunctionFrames /\ g.kind = "function" /\ g.base = f.base /\ g.args = f.args
          /\ g.step = f.step /\ g.decoded = f.decoded
          /\ g.kept = f.kept + n /\ f.kept \in Nat /\ f.base \in Nat /\ f.args \in Arguments
      BY <3>1, <1>5 DEF FunctionFrames
    <3>3. Len(f.args) \in Nat
      BY <3>2, GivenFacts
    <3> QED BY <1>4, <2>2, <3>2, <3>3 DEF AnyFrame, InBody, Held, Decoded
  <2> QED BY <1>4, <2>1, <2>2
<1>7. /\ Append(Front(es), g) \in Seq(AnyFrame) /\ Nested(Append(Front(es), g))
      /\ Last(Append(Front(es), g)) = g
      /\ Owned(Append(Front(es), g)) = Owned(es) - Decoded(f) + Decoded(g)
  BY <1>2, <1>3, <1>6, NestedReplace
<1>8. Keeping(n) = Append(Front(es), g)
  <2>1. SubSeq(frames, 1, Len(frames) - 2) = Front(es)
    BY <1>1, <1>2, NestedPopTwo
  <2> QED BY <1>2, <1>3, <1>5, <2>1 DEF Keeping
<1>9. Owned(Append(Front(es), g)) + leaked = liveArgs
  <2>1. Decoded(Running) = 0 /\ Decoded(f) \in Int /\ Owned(es) \in Int /\ Owned(frames) \in Int
    BY <1>1, <1>2, <1>3, FrameFacts, OwnedAppend DEF Decoded
  <2> QED BY <1>1, <1>2, <1>6, <1>7, <2>1
<1> QED BY <1>2, <1>3, <1>6, <1>7, <1>8, <1>9

LEMMA PcallReturnsStep ==
  ASSUME IInv, PcallReturns
  PROVE  IInv'
<1>1. /\ Is("call") /\ Calm /\ Running.kind = "call" /\ Running.step = "decode"
      /\ handed' = Values(Running) /\ frames' = Keeping(Len(stack) - Running.base)
      /\ UNCHANGED <<stack, flight, raised, seen, lost, liveArgs, leaked, build>>
  BY DEF PcallReturns, Is
<1>2. handed' \in Handed
  BY <1>1, DecodedValues
<1>3. stack \in Seq(Item) /\ Len(stack) \in Nat /\ Running.base \in 0..Len(stack)
  BY <1>1, RunFacts, LeftFacts
<1>4. PICK n \in Nat : n = Len(stack) - Running.base /\ Running.base + n = Len(stack)
  BY <1>3
<1> DEFINE fs == Keeping(n)
<1>5. /\ fs \in Seq(AnyFrame) /\ Nested(fs) /\ InBody(Last(fs))
      /\ Last(fs).base + Held(Last(fs)) = Running.base + n
      /\ Owned(fs) + leaked = liveArgs
  BY <1>1, KeepingFacts
<1>6. frames' = fs /\ liveArgs' = Owned(fs) + leaked'
  BY <1>1, <1>4, <1>5
<1> HIDE DEF fs
<1>7. Rests(Last(fs), stack)
  BY <1>4, <1>5 DEF Rests
<1>8. flight' = None /\ ErrorsOK'
  BY <1>1, RunFacts, ErrorsKept DEF Calm
<1> QED BY <1>1, <1>2, <1>3, <1>5, <1>6, <1>7, <1>8, Rested

LEMMA PopStep ==
  ASSUME IInv, Pop
  PROVE  IInv'
<1>1. /\ Calm /\ InBody(Running) /\ stack' = Down(Len(stack) - Running.kept)
      /\ frames' = Replace([Running EXCEPT !.kept = 0])
      /\ UNCHANGED <<flight, raised, seen, lost, handed, liveArgs, leaked, build>>
  BY DEF Pop, InCpp
<1>2. /\ Running \in AnyFrame /\ Len(stack) = Running.base + Held(Running)
      /\ Len(stack) \in Nat /\ stack \in Seq(Item)
      /\ frames \in Seq(AnyFrame) /\ Nested(frames) /\ Running = Last(frames)
      /\ liveArgs = Owned(frames) + leaked /\ leaked \in Nat /\ handed \in Handed
  BY <1>1, HeldOnly, RunFacts DEF InBody
<1>3. PICK f \in AnyFrame : f = Running
  BY <1>2
<1>4. PICK g : g = [f EXCEPT !.kept = 0]
  OBVIOUS
<1>5. /\ g \in AnyFrame /\ g.kind = f.kind /\ g.base = f.base /\ InBody(g)
      /\ f.kept \in Nat /\ Held(g) \in Nat /\ Held(f) = Held(g) + f.kept /\ f.base \in Nat
      /\ Decoded(g) = Decoded(f) /\ Decoded(f) \in Nat
  <2>1. CASE f.kind = "program"
    <3>1. f \in ProgramFrames
      BY <2>1, FrameFacts
    <3>2. /\ g \in ProgramFrames /\ g.kind = "program" /\ g.base = f.base
          /\ g.kept = 0 /\ f.kept \in Nat /\ f.base = 0
      BY <3>1, <1>4 DEF ProgramFrames
    <3> QED BY <2>1, <3>2 DEF AnyFrame, InBody, Held, Decoded
  <2>2. CASE f.kind = "function"
    <3>1. f \in FunctionFrames
      BY <2>2, FrameFacts
    <3>2. /\ g \in FunctionFrames /\ g.kind = "function" /\ g.base = f.base /\ g.args = f.args
          /\ g.step = f.step /\ g.decoded = f.decoded /\ f.decoded \in Nat
          /\ g.kept = 0 /\ f.kept \in Nat /\ f.base \in Nat /\ f.args \in Arguments
      BY <3>1, <1>4 DEF FunctionFrames
    <3>3. Len(f.args) \in Nat
      BY <3>2, GivenFacts
    <3> QED BY <1>1, <1>3, <2>2, <3>2, <3>3 DEF AnyFrame, InBody, Held, Decoded
  <2> QED BY <1>1, <1>3, <2>1, <2>2 DEF InBody
<1>6. PICK n \in 0..Len(stack) : n = Len(stack) - f.kept /\ n = g.base + Held(g)
  <2>1. Len(stack) - f.kept = g.base + Held(g)
    BY <1>2, <1>3, <1>5
  <2> QED BY <1>2, <1>5, <2>1
<1>7. stack' = Down(n) /\ Down(n) \in Seq(Item) /\ Len(Down(n)) = n
  BY <1>1, <1>2, <1>3, <1>6, DownFacts DEF Down
<1>8. /\ frames' = Replace(g) /\ Replace(g) \in Seq(AnyFrame) /\ Nested(Replace(g))
      /\ Last(Replace(g)) = g
      /\ Owned(Replace(g)) = Owned(frames) - Decoded(f) + Decoded(g)
  <2>1. g \in AnyFrame /\ g.kind = Last(frames).kind /\ g.base = Last(frames).base
    BY <1>2, <1>3, <1>5 DEF AnyFrame
  <2>2. frames' = Replace(g)
    BY <1>1, <1>3, <1>4
  <2>3. /\ Replace(g) \in Seq(AnyFrame) /\ Nested(Replace(g)) /\ Last(Replace(g)) = g
        /\ Owned(Replace(g)) = Owned(frames) - Decoded(Last(frames)) + Decoded(g)
    BY <1>2, <2>1, NestedReplace DEF Replace
  <2> QED BY <1>2, <1>3, <2>2, <2>3
<1>9. Rests(g, Down(n))
  BY <1>5, <1>6, <1>7 DEF Rests
<1>10. liveArgs' = Owned(Replace(g)) + leaked'
  <2>1. Owned(frames) \in Int
    BY <1>2, OwnedAppend
  <2> QED BY <1>1, <1>2, <1>5, <1>8, <2>1
<1>11. flight' = None /\ ErrorsOK' /\ handed' \in Handed
  BY <1>1, <1>2, RunFacts, ErrorsKept DEF Calm
<1> QED BY <1>7, <1>8, <1>9, <1>10, <1>11, Rested

(* Lua code returns: to C++, or to a pcall of Lua.                         *)
LEMMA LuaReturnStep ==
  ASSUME IInv, NEW n \in 0..2, LuaReturn(n)
  PROVE  IInv'
<1>1. /\ Calm /\ Running.kind = "lua"
      /\ UNCHANGED <<flight, raised, seen, lost, handed, liveArgs, leaked, build>>
  BY DEF LuaReturn, Is
<1>2. /\ Running \in AnyFrame /\ Len(stack) = Running.base + Held(Running)
      /\ Len(stack) \in Nat /\ stack \in Seq(Item)
      /\ frames \in Seq(AnyFrame) /\ Nested(frames) /\ liveArgs = Owned(frames) + leaked
      /\ Running = Last(frames) /\ ErrorsOK /\ handed \in Handed /\ liveArgs \in Int
      /\ leaked \in Nat /\ Owned(frames) \in Int
  BY <1>1, HeldOnly, RunFacts, OwnedAppend
<1>3. PICK es : /\ es = Front(frames) /\ es \in Seq(AnyFrame) /\ Nested(es)
                /\ Owned(es) + leaked = liveArgs - Decoded(Running)
                /\ Last(es) = frames[Len(frames) - 1]
                /\ Running.base = Last(es).base + Held(Last(es))
                /\ Waits(Last(es), Running.kind)
  BY <1>1, LeftFacts
<1>4. PICK f \in AnyFrame : f = Last(es)
  BY <1>3, TopFrame
<1>5. /\ Held(Running) = 0 /\ Decoded(Running) = 0 /\ f.base \in Nat /\ Held(f) \in Nat
      /\ Len(stack) = f.base + Held(f)
  <2>1. Held(Running) = 0 /\ Decoded(Running) = 0
    BY <1>1 DEF Held, Decoded
  <2>2. f.base \in Nat /\ Held(f) \in Nat
    BY <1>4, FrameFacts
  <2>3. Running.base = f.base + Held(f) /\ Len(stack) = Running.base + 0
    BY <1>2, <1>3, <1>4, <2>1
  <2> QED BY <2>1, <2>2, <2>3
<1>6. flight' = None /\ handed' \in Handed /\ ErrorsOK' /\ Owned(es) + leaked = liveArgs
      /\ Owned(es) \in Int
  BY <1>1, <1>2, <1>3, <1>5, OwnedAppend, ErrorsKept DEF Calm
<1>7. /\ SubSeq(frames, 1, Len(frames) - 2) = Front(es) /\ f = frames[Len(frames) - 1]
      /\ Front(es) \in Seq(AnyFrame) /\ Nested(Front(es)) /\ Last(Front(es)) \in AnyFrame
      /\ Owned(Front(es)) = Owned(es) - Decoded(f) /\ Sits(Last(Front(es)), f)
  <2>1. f.kind # "program"
    BY <1>1, <1>3, <1>4 DEF Waits
  <2>2. SubSeq(frames, 1, Len(frames) - 2) = Front(es)
    BY <1>1, <1>2, <1>3, <1>4, <2>1, NestedPopTwo
  <2> QED BY <1>3, <1>4, <2>1, <2>2, NestedPop
<1>8. CASE f.kind = "call"
  <2>1. PICK c : c = [f EXCEPT !.step = "decode"]
    OBVIOUS
  <2>2. /\ c \in AnyFrame /\ c.kind = "call" /\ c.base = f.base /\ c.step = "decode"
        /\ Held(c) = Held(f) /\ Decoded(c) = 0 /\ Decoded(f) = 0
    <3>1. f \in CallFrames
      BY <1>8, FrameFacts
    <3>2. /\ c \in CallFrames /\ c.kind = "call" /\ c.base = f.base /\ c.step = "decode"
          /\ c.handler = f.handler
      BY <3>1, <2>1 DEF CallFrames
    <3> QED BY <1>8, <3>2 DEF AnyFrame, Held, Decoded
  <2>3. /\ Append(Front(es), c) \in Seq(AnyFrame) /\ Nested(Append(Front(es), c))
        /\ Last(Append(Front(es), c)) = c
        /\ Owned(Append(Front(es), c)) = Owned(es) - Decoded(f) + Decoded(c)
    BY <1>3, <1>4, <1>8, <2>2, NestedReplace
  <2>4. frames' = Append(Front(es), c) /\ stack' = stack \o Results(n)
    BY <1>7, <1>8, <2>1 DEF LuaReturn
  <2>5. /\ stack \o Results(n) \in Seq(Item)
        /\ Len(stack \o Results(n)) = Len(stack) + n
        /\ SubSeq(stack \o Results(n), Len(stack) + 1, Len(stack \o Results(n))) \in Handed
    <3>1. Results(n) \in Seq(Item) /\ Len(Results(n)) = n /\ Results(n) \in Handed
      BY ResultsFacts
    <3> QED BY <1>2, <3>1, TopFacts
  <2>6. Rests(c, stack \o Results(n))
    <3>1. PICK s : s = stack \o Results(n)
      OBVIOUS
    <3>2. PICK top \in Nat : top = Len(stack)
      BY <1>2
    <3>3. Len(s) = top + n /\ SubSeq(s, top + 1, Len(s)) \in Handed /\ n \in 0..2
      BY <2>5, <3>1, <3>2
    <3>4. c.base + Held(c) = top
      BY <1>5, <2>2, <3>2
    <3>5. Len(s) >= top
      BY ONLY <3>2, <3>3
    <3>6. Rests(c, s)
      BY ONLY <2>2, <3>3, <3>4, <3>5 DEF Rests
    <3> QED BY <3>1, <3>6
  <2>7. liveArgs' = Owned(Append(Front(es), c)) + leaked'
    BY <1>1, <1>2, <1>6, <2>2, <2>3
  <2> QED BY <1>6, <2>3, <2>4, <2>5, <2>6, <2>7, Rested
<1>9. CASE f.kind # "call"
  <2>1. f.kind = "pcall"
    BY <1>1, <1>3, <1>4, <1>9 DEF Waits
  <2>2. Held(f) = 0 /\ Decoded(f) = 0
    BY <2>1 DEF Held, Decoded
  <2>3. frames' = Front(es) /\ stack' = stack
    BY <1>7, <1>9 DEF LuaReturn
  <2>4. Rests(Last(Front(es)), stack)
    <3>1. Last(Front(es)).kind = "lua" /\ f.base = Last(Front(es)).base + Held(Last(Front(es)))
      BY <1>7, <2>1 DEF Sits, Waits
    <3> QED BY <1>5, <2>2, <3>1 DEF Rests
  <2>5. liveArgs' = Owned(Front(es)) + leaked'
    BY <1>1, <1>2, <1>6, <1>7, <2>2
  <2> QED BY <1>2, <1>6, <1>7, <2>3, <2>4, <2>5, Rested
<1> QED BY <1>8, <1>9

(* A C++ function returns: to Lua, or to try_overload_functions, which     *)
(* returns in turn.                                                        *)
LEMMA BodyReturnStep ==
  ASSUME IInv, NEW n \in 0..2, BodyReturn(n)
  PROVE  IInv'
<1>1. /\ Calm /\ Running.kind = "function" /\ liveArgs' = liveArgs - Running.decoded
      /\ Answer(n) /\ UNCHANGED <<flight, raised, seen, lost, leaked, build>>
  BY DEF BodyReturn, Body, Is, StorageDestroyed
<1>2. /\ Running \in AnyFrame /\ Len(stack) \in Nat /\ stack \in Seq(Item)
      /\ frames \in Seq(AnyFrame) /\ Nested(frames) /\ liveArgs = Owned(frames) + leaked
      /\ Running = Last(frames) /\ ErrorsOK /\ liveArgs \in Int /\ leaked \in Nat
  BY <1>1, RunFacts, OwnedAppend
<1>3. PICK es : /\ es = Front(frames) /\ es \in Seq(AnyFrame) /\ Nested(es)
                /\ Owned(es) + leaked = liveArgs - Decoded(Running)
                /\ Last(es) = frames[Len(frames) - 1]
                /\ Running.base = Last(es).base + Held(Last(es))
                /\ Waits(Last(es), Running.kind) /\ Running.base \in 0..Len(stack)
  BY <1>1, LeftFacts
<1>4. PICK f \in AnyFrame : f = Last(es) /\ f = frames[Len(frames) - 1]
  BY <1>3, TopFrame
<1>5. /\ f.base \in Nat /\ Held(f) \in Nat /\ Running.base = f.base + Held(f)
      /\ f.kind \in {"lua", "overloads"}
  BY <1>1, <1>3, <1>4, FrameFacts DEF Waits
<1>6. flight' = None /\ ErrorsOK' /\ liveArgs' = Owned(es) + leaked'
      /\ Owned(es) \in Int
  BY <1>1, <1>2, <1>3, OwnedAppend, ErrorsKept DEF Calm, Decoded
<1>7. PICK b \in Nat : b = Running.base /\ b \in 0..Len(stack)
  BY <1>3, <1>5
<1>8. Down(b) \in Seq(Item) /\ Len(Down(b)) = b
  BY <1>2, <1>7, DownFacts DEF Down
<1>9. CASE f.kind = "overloads"
  <2>1. /\ SubSeq(frames, 1, Len(frames) - 2) = Front(es)
        /\ Front(es) \in Seq(AnyFrame) /\ Nested(Front(es)) /\ Last(Front(es)) \in AnyFrame
        /\ Owned(Front(es)) = Owned(es) - Decoded(f) /\ Sits(Last(Front(es)), f)
        /\ Owned(es) \in Int
    <3>1. SubSeq(frames, 1, Len(frames) - 2) = Front(es)
      BY <1>1, <1>2, <1>3, <1>4, <1>9, NestedPopTwo
    <3> QED BY <1>3, <1>4, <1>9, <3>1, NestedPop
  <2> DEFINE s == Down(b) \o Results(n)
  <2>2. /\ frames' = Front(es) /\ stack' = Down(f.base)
        /\ handed' = SubSeq(s, f.base + Above(f) + 1, Len(s))
    BY <1>1, <1>4, <1>7, <1>9, <2>1 DEF Answer
  <2>3. s \in Seq(Item) /\ SubSeq(s, b + 1, Len(s)) = Results(n)
    BY <1>8, ResultsFacts, TopFacts
  <2> HIDE DEF s
  <2>4. b = f.base + Above(f)
    BY <1>5, <1>7, <1>9 DEF Held
  <2>5. handed' \in Handed
    BY <2>2, <2>3, <2>4, ResultsFacts
  <2>6. Down(f.base) \in Seq(Item) /\ Len(Down(f.base)) = f.base
    <3>1. f.base \in 0..Len(stack)
      BY <1>2, <1>5, <1>7
    <3> QED BY <1>2, <3>1, DownFacts DEF Down
  <2>7. Rests(Last(Front(es)), Down(f.base))
    <3>1. Last(Front(es)).kind = "lua" /\ f.base = Last(Front(es)).base + Held(Last(Front(es)))
      BY <1>9, <2>1 DEF Sits, Waits
    <3> QED BY <2>6, <3>1 DEF Rests
  <2>8. liveArgs' = Owned(Front(es)) + leaked'
    BY <1>6, <1>9, <2>1 DEF Decoded
  <2> QED BY <1>6, <2>1, <2>2, <2>5, <2>6, <2>7, <2>8, Rested
<1>10. CASE f.kind # "overloads"
  <2>1. frames' = es /\ stack' = Down(b) /\ handed' = Results(n)
    BY <1>1, <1>3, <1>4, <1>7, <1>10 DEF Answer
  <2>2. Rests(f, Down(b))
    BY <1>5, <1>7, <1>8, <1>10 DEF Rests
  <2> QED BY <1>3, <1>4, <1>6, <1>8, <2>1, <2>2, ResultsFacts, Rested
<1> QED BY <1>9, <1>10
-----------------------------------------------------------------------------
(* Errors and exceptions.                                                  *)

LEMMA Raised ==
  ASSUME IInv, NEW kind \in {"error", "critical", "exception", "alien"}, Raise(kind),
         UNCHANGED <<seen, lost>>, leaked' \in Nat, leaked' > 0 => enabled'
  PROVE  ErrorsOK' /\ flight'.kind = kind
<1>1. ErrorsOK
  BY RunFacts
<1>2. raised + 1 \in Nat /\ {raised + 1} \in SUBSET Nat
  BY <1>1 DEF ErrorsOK
<1>3. flight' \in [kind : Kinds, errors : SUBSET Nat] /\ flight'.kind = kind
  BY <1>2 DEF Raise, Kinds
<1> QED BY <1>1, <1>2, <1>3 DEF ErrorsOK, Raise

LEMMA RaiseFacts ==
  ASSUME IInv, NEW kind \in {"error", "critical", "exception", "alien"}, Raise(kind),
         UNCHANGED <<seen, lost, leaked, build>>
  PROVE  ErrorsOK' /\ flight'.kind = kind
<1>1. leaked' \in Nat /\ (leaked' > 0 => enabled')
  BY RunFacts DEF ErrorsOK, build
<1> QED BY <1>1, Raised

(* The error or exception under way becomes one of another kind.           *)
LEMMA Turned ==
  ASSUME IInv, NEW kind \in Kinds \ {"none"}, flight' = [flight EXCEPT !.kind = kind],
         UNCHANGED <<raised, seen, lost, leaked, build>>
  PROVE  ErrorsOK' /\ flight'.kind = kind /\ flight'.errors = flight.errors
<1>1. ErrorsOK
  BY RunFacts
<1>2. /\ flight' \in [kind : Kinds, errors : SUBSET Nat] /\ flight'.kind = kind
      /\ flight'.errors = flight.errors
  BY <1>1 DEF ErrorsOK
<1> QED BY <1>1, <1>2 DEF ErrorsOK, build

(* It comes to rest.                                                       *)
LEMMA Landed ==
  ASSUME IInv, flight' = None, seen' \in {seen, seen \union flight.errors},
         lost' \in {lost, lost \union flight.errors}, UNCHANGED <<raised, leaked, build>>
  PROVE  ErrorsOK'
<1>1. ErrorsOK
  BY RunFacts
<1>2. flight.errors \in SUBSET Nat
  BY <1>1 DEF ErrorsOK
<1>3. seen' \in SUBSET Nat /\ lost' \in SUBSET Nat
  BY <1>1, <1>2 DEF ErrorsOK
<1>4. flight' \in [kind : Kinds, errors : SUBSET Nat] /\ flight'.errors = {}
  BY DEF None, Kinds
<1> QED BY <1>1, <1>3, <1>4 DEF ErrorsOK, build

(* An error leaves a frame that cannot stop it.                            *)
LEMMA Unwound ==
  ASSUME IInv, Running.kind \in {"lua", "function", "overloads"},
         frames' = Front(frames), UNCHANGED <<stack, handed, leaked, build>>,
         liveArgs' = liveArgs - Decoded(Running),
         flight'.kind \in {"error", "critical", "foreign", "undefined"}, ErrorsOK'
  PROVE  IInv'
<1>1. /\ Front(frames) \in Seq(AnyFrame) /\ Nested(Front(frames))
      /\ Last(Front(frames)) \in AnyFrame
      /\ Owned(Front(frames)) + leaked = liveArgs - Decoded(Running)
      /\ Running.base = Last(Front(frames)).base + Held(Last(Front(frames)))
      /\ Waits(Last(Front(frames)), Running.kind)
      /\ Running.base \in 0..Len(stack)
  BY LeftFacts
<1>2. stack \in Seq(Item) /\ handed \in Handed /\ Len(stack) \in Nat
  BY RunFacts
<1>3. Reached(Last(Front(frames)), stack, flight'.kind)
  BY <1>1, <1>2 DEF Reached, Waits
<1> QED BY <1>1, <1>2, <1>3, Arrived

LEMMA NothingDecoded ==
  ASSUME IInv, Running.kind # "function"
  PROVE  liveArgs = liveArgs - Decoded(Running)
<1>1. liveArgs \in Int
  BY RunFacts, OwnedAppend
<1> QED BY <1>1 DEF Decoded

LEMMA LuaRaiseStep ==
  ASSUME IInv, NEW kind \in {"error", "critical"}, LuaRaise(kind)
  PROVE  IInv'
<1>1. /\ Running.kind = "lua" /\ Raise(kind) /\ frames' = Front(frames)
      /\ UNCHANGED <<stack, seen, lost, handed, liveArgs, leaked, build>>
  BY DEF LuaRaise, Is
<1>2. ErrorsOK' /\ flight'.kind = kind
  BY <1>1, RaiseFacts
<1> QED BY <1>1, <1>2, NothingDecoded, Unwound

LEMMA DecodeFailsStep ==
  ASSUME IInv, DecodeFails
  PROVE  IInv'
<1>1. /\ Running.kind = "function" /\ Raise("error") /\ frames' = Front(frames)
      /\ UNCHANGED <<stack, seen, lost, handed, leaked, build>> /\ liveArgs' = liveArgs - Running.decoded
  BY DEF DecodeFails, Decoding, Is, StorageDestroyed
<1>2. ErrorsOK' /\ flight'.kind = "error"
  BY <1>1, RaiseFacts
<1>3. liveArgs' = liveArgs - Decoded(Running)
  BY <1>1 DEF Decoded
<1> QED BY <1>1, <1>2, <1>3, Unwound

LEMMA ResultFailsStep ==
  ASSUME IInv, NEW kind \in {"error", "critical"}, ResultFails(kind)
  PROVE  IInv'
<1>1. /\ Running.kind = "function" /\ Raise(kind) /\ frames' = Front(frames)
      /\ UNCHANGED <<stack, seen, lost, handed, leaked, build>> /\ liveArgs' = liveArgs - Running.decoded
  BY DEF ResultFails, Body, Is, StorageDestroyed
<1>2. ErrorsOK' /\ flight'.kind = kind
  BY <1>1, RaiseFacts
<1>3. liveArgs' = liveArgs - Decoded(Running)
  BY <1>1 DEF Decoded
<1> QED BY <1>1, <1>2, <1>3, Unwound

(* What was read before stays alive when reading an argument throws.       *)
LEMMA DecodeThrowsStep ==
  ASSUME IInv, DecodeThrows
  PROVE  IInv'
<1>1. /\ Calm /\ Running.kind = "function" /\ Raise("exception") /\ enabled
      /\ leaked' = leaked + Running.decoded
      /\ frames' = Replace([Running EXCEPT !.decoded = 0])
      /\ UNCHANGED <<stack, seen, lost, handed, liveArgs, build>>
  BY DEF DecodeThrows, Decoding, Is, GetThrows
<1>2. /\ Running \in AnyFrame /\ Running \in FunctionFrames
      /\ frames \in Seq(AnyFrame) /\ Nested(frames) /\ Running = Last(frames)
      /\ liveArgs = Owned(frames) + leaked /\ leaked \in Nat /\ Owned(frames) \in Int
      /\ handed \in Handed /\ stack \in Seq(Item)
  BY <1>1, RunFacts, FrameFacts, OwnedAppend
<1>3. PICK f \in FunctionFrames : f = Running
  BY <1>2
<1>4. PICK g : g = [f EXCEPT !.decoded = 0]
  OBVIOUS
<1>5. /\ g \in FunctionFrames /\ g.kind = f.kind /\ g.base = f.base /\ g.args = f.args
      /\ f.kind = "function" /\ g.decoded = 0 /\ g.kept = f.kept /\ f.decoded \in Nat
  BY <1>4 DEF FunctionFrames
<1>6. leaked' \in Nat /\ (leaked' > 0 => enabled')
  BY <1>1, <1>2, <1>3, <1>5 DEF build
<1>7. ErrorsOK' /\ flight'.kind = "exception"
  BY <1>1, <1>6, Raised
<1>8. /\ frames' = Replace(g) /\ Replace(g) \in Seq(AnyFrame) /\ Nested(Replace(g))
      /\ Last(Replace(g)) = g
      /\ Owned(Replace(g)) = Owned(frames) - Decoded(f) + Decoded(g)
  <2>1. g \in AnyFrame /\ g.kind = Last(frames).kind /\ g.base = Last(frames).base
    BY <1>2, <1>3, <1>5 DEF AnyFrame
  <2>2. frames' = Replace(g)
    BY <1>1, <1>3, <1>4
  <2>3. /\ Replace(g) \in Seq(AnyFrame) /\ Nested(Replace(g)) /\ Last(Replace(g)) = g
        /\ Owned(Replace(g)) = Owned(frames) - Decoded(Last(frames)) + Decoded(g)
    BY <1>2, <2>1, NestedReplace DEF Replace
  <2> QED BY <1>2, <1>3, <2>2, <2>3
<1>9. liveArgs' = Owned(Replace(g)) + leaked'
  <2>1. Decoded(f) = f.decoded /\ Decoded(g) = 0
    BY <1>5 DEF Decoded
  <2> QED BY <1>1, <1>2, <1>3, <1>5, <1>8, <2>1
<1>10. Reached(g, stack, "exception")
  <2>1. Len(stack) = f.base + Held(f)
    BY <1>1, <1>3, HeldOnly
  <2>2. Held(f) = Held(g)
    BY <1>5 DEF Held
  <2> QED BY <1>5, <2>1, <2>2 DEF Reached
<1> QED BY <1>1, <1>2, <1>7, <1>8, <1>9, <1>10, Arrived

LEMMA BodyThrowsStep ==
  ASSUME IInv, NEW kind \in {"exception", "alien"}, BodyThrows(kind)
  PROVE  IInv'
<1>1. /\ Calm /\ Running.kind = "function" /\ Running.step = "body" /\ Raise(kind)
      /\ UNCHANGED <<frames, stack, seen, lost, handed, liveArgs, leaked, build>>
  BY DEF BodyThrows, Body, Is
<1>2. ErrorsOK' /\ flight'.kind = kind
  BY <1>1, RaiseFacts
<1>3. /\ frames \in Seq(AnyFrame) /\ Nested(frames) /\ liveArgs = Owned(frames) + leaked
      /\ Running = Last(frames) /\ handed \in Handed /\ stack \in Seq(Item)
  BY RunFacts
<1>4. Reached(Running, stack, kind)
  BY <1>1, HeldOnly DEF Reached, InBody
<1> QED BY <1>1, <1>2, <1>3, <1>4, Arrived

LEMMA OverloadsExhaustedStep ==
  ASSUME IInv, OverloadsExhausted
  PROVE  IInv'
<1>1. /\ Running.kind = "overloads" /\ frames' = Front(frames) /\ raised' = raised + 1
      /\ flight' = [kind |-> "error",
                     errors |-> {raised + 1} \union UNION Range(Running.messages)]
      /\ UNCHANGED <<stack, seen, lost, handed, liveArgs, leaked, build>>
  BY DEF OverloadsExhausted, Is
<1>2. Running \in OverloadFrames /\ ErrorsOK
  BY <1>1, RunFacts, FrameFacts
<1>3. UNION Range(Running.messages) \subseteq Nat
  <2>1. PICK m \in Seq(SUBSET Nat) : m = Running.messages
    BY <1>2 DEF OverloadFrames
  <2>2. Range(m) \subseteq SUBSET Nat
    BY DEF Range
  <2> QED BY <2>1, <2>2
<1>4. ErrorsOK' /\ flight'.kind = "error"
  <2>1. PICK e : e = {raised + 1} \union UNION Range(Running.messages)
    OBVIOUS
  <2>2. e \in SUBSET Nat /\ raised + 1 \in Nat
    <3>1. raised + 1 \in Nat
      BY <1>2 DEF ErrorsOK, build
    <3> QED BY <1>3, <2>1, <3>1
  <2>3. flight' = [kind |-> "error", errors |-> e] /\ raised' = raised + 1
    BY <1>1, <2>1
  <2>4. flight' \in [kind : Kinds, errors : SUBSET Nat] /\ flight'.kind = "error"
    BY <2>2, <2>3 DEF Kinds
  <2>5. seen' \in SUBSET Nat /\ lost' \in SUBSET Nat /\ raised' \in Nat
    BY <1>1, <1>2, <2>2 DEF ErrorsOK, build
  <2> QED BY <1>1, <1>2, <2>4, <2>5 DEF ErrorsOK, build
<1> QED BY <1>1, <1>4, NothingDecoded, Unwound

LEMMA UnwindStep ==
  ASSUME IInv, Unwind
  PROVE  IInv'
<1>1. /\ Running.kind = "lua" /\ frames' = Front(frames)
      /\ flight.kind \in {"error", "critical", "foreign"}
      /\ UNCHANGED <<stack, flight, raised, seen, lost, handed, liveArgs, leaked, build>>
  BY DEF Unwind, Failed
<1>2. ErrorsOK'
  BY <1>1, RunFacts, ErrorsKept
<1> QED BY <1>1, <1>2, NothingDecoded, Unwound

LEMMA OverloadCriticalStep ==
  ASSUME IInv, OverloadCritical
  PROVE  IInv'
<1>1. /\ Running.kind = "overloads" /\ frames' = Front(frames) /\ flight.kind = "critical"
      /\ UNCHANGED <<stack, flight, raised, seen, lost, handed, liveArgs, leaked, build>>
  BY DEF OverloadCritical
<1>2. ErrorsOK'
  BY <1>1, RunFacts, ErrorsKept
<1> QED BY <1>1, <1>2, NothingDecoded, Unwound

LEMMA OverloadForeignStep ==
  ASSUME IInv, OverloadForeign
  PROVE  IInv'
<1>1. /\ Running.kind = "overloads" /\ frames' = Front(frames)
      /\ flight' = [kind |-> "error", errors |-> {}] /\ lost' = lost \union flight.errors
      /\ UNCHANGED <<stack, raised, seen, handed, liveArgs, leaked, build>>
  BY DEF OverloadForeign
<1>2. ErrorsOK' /\ flight'.kind = "error"
  <2>1. ErrorsOK /\ flight.errors \in SUBSET Nat
    BY RunFacts DEF ErrorsOK
  <2>2. lost' \in SUBSET Nat
    BY <1>1, <2>1 DEF ErrorsOK
  <2>3. flight' \in [kind : Kinds, errors : SUBSET Nat] /\ flight'.kind = "error"
    BY <1>1 DEF Kinds
  <2> QED BY <1>1, <2>1, <2>2, <2>3 DEF ErrorsOK, build
<1> QED BY <1>1, <1>2, NothingDecoded, Unwound

LEMMA OverloadErrorStep ==
  ASSUME IInv, OverloadError
  PROVE  IInv'
<1>1. /\ Running.kind = "overloads" /\ flight.kind = "error"
      /\ frames' = Replace(WithMessage(Running, flight.errors))
      /\ stack' = Down(Running.base + Above(Running)) /\ flight' = None
      /\ UNCHANGED <<raised, seen, lost, handed, liveArgs, leaked, build>>
  BY DEF OverloadError
<1>2. /\ Running \in AnyFrame /\ Running \in OverloadFrames /\ ErrorsOK
      /\ frames \in Seq(AnyFrame) /\ Nested(frames) /\ liveArgs = Owned(frames) + leaked
      /\ Running = Last(frames) /\ handed \in Handed
      /\ stack \in Seq(Item) /\ Len(stack) \in Nat
  BY <1>1, RunFacts, FrameFacts
<1>3. Reached(Running, stack, "error")
  BY <1>1, FlightFacts
<1>4. PICK f \in OverloadFrames : f = Running
  BY <1>2
<1>5. PICK g : g = WithMessage(f, flight.errors)
  OBVIOUS
<1>6. /\ g \in OverloadFrames /\ g.kind = "overloads" /\ g.base = f.base
      /\ Held(g) = Held(f) /\ Decoded(g) = 0 /\ Decoded(f) = 0
  <2>1. flight.errors \in SUBSET Nat
    BY <1>2 DEF ErrorsOK, build
  <2> QED BY <1>5, <2>1, MessageFacts
<1>7. PICK n \in 0..Len(stack) : n = f.base + Held(f) /\ n = f.base + Above(f)
  <2>1. Held(f) = Above(f)
    BY <1>1, <1>4 DEF Held
  <2>2. f.base \in Nat /\ Held(f) \in Nat
    BY <1>2, <1>4, FrameFacts
  <2>3. Len(stack) >= f.base + Held(f)
    BY <1>3, <1>4 DEF Reached
  <2> QED BY <1>2, <2>1, <2>2, <2>3
<1>8. stack' = Down(n) /\ Down(n) \in Seq(Item) /\ Len(Down(n)) = n
  BY <1>1, <1>2, <1>4, <1>7, DownFacts DEF Down
<1>9. /\ frames' = Replace(g) /\ Replace(g) \in Seq(AnyFrame) /\ Nested(Replace(g))
      /\ Last(Replace(g)) = g
      /\ Owned(Replace(g)) = Owned(frames) - Decoded(f) + Decoded(g)
  <2>1. g \in AnyFrame /\ g.kind = Last(frames).kind /\ g.base = Last(frames).base
    BY <1>1, <1>2, <1>4, <1>6 DEF AnyFrame
  <2> QED BY <1>1, <1>2, <1>4, <1>5, <2>1, NestedReplace DEF Replace
<1>10. Rests(g, Down(n))
  BY <1>6, <1>7, <1>8 DEF Rests
<1>11. liveArgs' = Owned(Replace(g)) + leaked'
  <2>1. Owned(frames) \in Int
    BY <1>2, OwnedAppend
  <2> QED BY <1>1, <1>2, <1>6, <1>9, <2>1
<1>12. ErrorsOK' /\ handed' \in Handed
  BY <1>1, <1>2, Landed
<1> QED BY <1>1, <1>8, <1>9, <1>10, <1>11, <1>12, Rested

(* A frame is left, and the error or exception with it.                    *)
LEMMA CatchPcallStep ==
  ASSUME IInv, CatchPcall
  PROVE  IInv'
<1>1. /\ Running.kind = "pcall"
      /\ frames' = Front(frames) /\ stack' = Down(Running.base) /\ flight' = None
      /\ seen' \in {seen, seen \union flight.errors}
      /\ lost' \in {lost, lost \union flight.errors}
      /\ UNCHANGED <<raised, handed, liveArgs, leaked, build>>
  BY DEF CatchPcall
<1>2. /\ Front(frames) \in Seq(AnyFrame) /\ Nested(Front(frames))
      /\ Last(Front(frames)) \in AnyFrame
      /\ Owned(Front(frames)) + leaked = liveArgs - Decoded(Running)
      /\ Running.base = Last(Front(frames)).base + Held(Last(Front(frames)))
      /\ Waits(Last(Front(frames)), Running.kind)
      /\ Running.base \in 0..Len(stack)
  BY <1>1, LeftFacts
<1>3. stack \in Seq(Item) /\ handed' \in Handed
  BY <1>1, RunFacts
<1>4. Down(Running.base) \in Seq(Item) /\ Len(Down(Running.base)) = Running.base
  BY <1>2, <1>3, DownFacts DEF Down
<1>5. Rests(Last(Front(frames)), Down(Running.base))
  BY <1>1, <1>2, <1>4 DEF Rests, Waits
<1>6. ErrorsOK'
  BY <1>1, Landed
<1>7. liveArgs' = Owned(Front(frames)) + leaked'
  BY <1>1, <1>2, NothingDecoded
<1> QED BY <1>1, <1>2, <1>3, <1>4, <1>5, <1>6, <1>7, Rested

(* callWithHandler throws into the C++ code that called it.                *)
LEMMA CallThrown ==
  ASSUME IInv, Running.kind = "call", frames' = Front(frames), stack' = Restored(Running.base),
         flight'.kind = "exception", UNCHANGED <<handed, liveArgs, leaked>>, ErrorsOK'
  PROVE  IInv'
<1>1. /\ Front(frames) \in Seq(AnyFrame) /\ Nested(Front(frames))
      /\ Last(Front(frames)) \in AnyFrame
      /\ Owned(Front(frames)) + leaked = liveArgs - Decoded(Running)
      /\ Running.base = Last(Front(frames)).base + Held(Last(Front(frames)))
      /\ Waits(Last(Front(frames)), Running.kind)
      /\ Running.base \in 0..Len(stack)
  BY LeftFacts
<1>2. stack \in Seq(Item) /\ handed' \in Handed
  BY RunFacts
<1>3. Restored(Running.base) \in Seq(Item) /\ Len(Restored(Running.base)) = Running.base
  BY <1>1, <1>2, DownFacts DEF Down, Restored
<1>4. Reached(Last(Front(frames)), Restored(Running.base), "exception")
  BY <1>1, <1>3 DEF Reached, Waits, InBody
<1>5. liveArgs' = Owned(Front(frames)) + leaked'
  BY <1>1, NothingDecoded
<1> QED BY <1>1, <1>2, <1>3, <1>4, <1>5, Arrived

LEMMA CallThrowsStep ==
  ASSUME IInv, CallThrows
  PROVE  IInv'
<1>1. /\ Running.kind = "call" /\ Raise("exception") /\ frames' = Front(frames)
      /\ stack' = Restored(Running.base)
      /\ UNCHANGED <<seen, lost, handed, liveArgs, leaked, build>>
  BY DEF CallThrows, Is
<1>2. ErrorsOK' /\ flight'.kind = "exception"
  BY <1>1, RaiseFacts
<1> QED BY <1>1, <1>2, CallThrown

LEMMA CatchCallStep ==
  ASSUME IInv, CatchCall
  PROVE  IInv'
<1>1. /\ Running.kind = "call"
      /\ seen' \in {seen, seen \union flight.errors}
      /\ lost' \in {lost, lost \union flight.errors}
      /\ UNCHANGED <<raised, handed, liveArgs, leaked, build>>
  BY DEF CatchCall
<1>2. ErrorsOK /\ handed' \in Handed
  BY <1>1, RunFacts
<1>3. CASE Throws
  <2>1. /\ frames' = Front(frames) /\ stack' = Restored(Running.base)
        /\ flight' = [kind |-> "exception", errors |-> IF Told THEN flight.errors ELSE {}]
    BY <1>3 DEF CatchCall, Left
  <2>2. PICK e \in SUBSET Nat : e = IF Told THEN flight.errors ELSE {}
    BY <1>2 DEF ErrorsOK
  <2>3. /\ flight' \in [kind : Kinds, errors : SUBSET Nat]
        /\ flight'.kind = "exception" /\ flight'.errors = e
    BY <2>1, <2>2 DEF Kinds
  <2>4. seen' \in SUBSET Nat /\ lost' \in SUBSET Nat
    BY <1>1, <1>2 DEF ErrorsOK
  <2>5. ErrorsOK'
    BY <1>1, <1>2, <2>3, <2>4 DEF ErrorsOK, build
  <2> QED BY <1>1, <2>1, <2>3, <2>5, CallThrown
<1>4. CASE ~Throws /\ ~Left
  <2>1. flight' = None /\ frames' = Front(frames) /\ stack' = Restored(Running.base)
    BY <1>4 DEF CatchCall
  <2>2. ErrorsOK'
    BY <1>1, <2>1, Landed
  <2> QED BY <1>1, <1>2, <2>1, <2>2, CallOver
<1>5. CASE ~Throws /\ Left
  <2>1. /\ flight' = None /\ frames' = Keeping(1)
        /\ stack' = Append(Down(Running.base), "message")
    BY <1>5 DEF CatchCall
  <2>2. ErrorsOK'
    BY <1>1, <2>1, Landed
  <2>3. stack \in Seq(Item) /\ Running.base \in 0..Len(stack)
    BY <1>1, RunFacts, LeftFacts
  <2>4. PICK d : d = Down(Running.base) /\ d \in Seq(Item) /\ Len(d) = Running.base
    BY <2>3, DownFacts DEF Down
  <2>5. Append(d, "message") \in Seq(Item) /\ Len(Append(d, "message")) = Running.base + 1
    <3>1. "message" \in Item
      BY DEF Item
    <3> QED BY <2>4, <3>1, AppendProperties
  <2>6. PICK fs : /\ fs = Keeping(1) /\ fs \in Seq(AnyFrame) /\ Nested(fs) /\ InBody(Last(fs))
                  /\ Last(fs).base + Held(Last(fs)) = Running.base + 1
                  /\ Owned(fs) + leaked = liveArgs
    BY <1>1, KeepingFacts
  <2>7. Rests(Last(fs), Append(d, "message"))
    BY <2>5, <2>6 DEF Rests
  <2>8. liveArgs' = Owned(fs) + leaked'
    BY <1>1, <2>6
  <2> QED BY <1>2, <2>1, <2>2, <2>4, <2>5, <2>6, <2>7, <2>8, Rested
<1> QED BY <1>3, <1>4, <1>5

(* An exception leaves a C++ function, as an error or as what Lua makes of *)
(* it; or the program has it.                                              *)
LEMMA CatchExceptionStep ==
  ASSUME IInv, CatchException \/ ExceptionEscapes
  PROVE  IInv'
<1>1. /\ Running.kind = "function" /\ frames' = Front(frames)
      /\ liveArgs' = liveArgs - Running.decoded
      /\ UNCHANGED <<stack, raised, seen, lost, handed, leaked, build>>
  BY DEF CatchException, ExceptionEscapes, StorageDestroyed
<1>2. PICK kind \in {"error", "foreign", "undefined"} : flight' = [flight EXCEPT !.kind = kind]
  <2>1. CASE CatchException
    BY <2>1 DEF CatchException
  <2>2. CASE ExceptionEscapes /\ cxx
    BY <2>2 DEF ExceptionEscapes
  <2>3. CASE ExceptionEscapes /\ ~cxx
    BY <2>3 DEF ExceptionEscapes
  <2> QED BY <2>1, <2>2, <2>3
<1>3. ErrorsOK' /\ flight'.kind = kind
  <2>1. kind \in Kinds \ {"none"}
    BY DEF Kinds
  <2> QED BY <1>1, <1>2, <2>1, Turned
<1>4. liveArgs' = liveArgs - Decoded(Running)
  BY <1>1 DEF Decoded
<1> QED BY <1>1, <1>3, <1>4, Unwound

LEMMA CatchInProgramStep ==
  ASSUME IInv, CatchInProgram
  PROVE  IInv'
<1>1. /\ flight.kind \in {"exception", "alien"} /\ Running.kind = "program"
      /\ flight' = None /\ seen' = seen \union flight.errors
      /\ UNCHANGED <<frames, stack, raised, lost, handed, liveArgs, leaked, build>>
  BY DEF CatchInProgram, Thrown
<1>2. /\ frames \in Seq(AnyFrame) /\ Nested(frames) /\ liveArgs = Owned(frames) + leaked
      /\ Running = Last(frames) /\ handed' \in Handed /\ stack \in Seq(Item)
  BY <1>1, RunFacts
<1>3. Reached(Running, stack, flight.kind)
  BY <1>1, FlightFacts
<1>4. Rests(Running, stack)
  BY <1>1, <1>3 DEF Rests, Reached, InBody
<1>5. ErrorsOK'
  BY <1>1, Landed
<1>6. liveArgs' = Owned(frames) + leaked'
  BY <1>1, <1>2
<1> QED BY <1>1, <1>2, <1>4, <1>5, <1>6, Rested
-----------------------------------------------------------------------------
(* The theorems.                                                           *)

LEMMA CallsInitial == Init => IInv
<1> SUFFICES ASSUME Init PROVE IInv
  OBVIOUS
<1>1. /\ frames = <<Program>> /\ stack = <<>> /\ flight = None /\ raised = 0
      /\ seen = {} /\ lost = {} /\ handed = <<>> /\ liveArgs = 0 /\ leaked = 0
  BY DEF Init
<1>2. /\ frames \in Seq(AnyFrame) /\ Len(frames) = 1 /\ frames[1] = Program
      /\ Program \in ProgramFrames
  <2>1. Program \in ProgramFrames
    BY DEF Program, ProgramFrames
  <2> QED BY <1>1, <2>1 DEF AnyFrame
<1>3. Nested(frames)
  BY <1>2 DEF Nested
<1>4. Last(frames) = Program
  BY <1>2 DEF Last
<1>5. <<>> \in Seq(Item) /\ Len(<<>>) = 0 /\ handed \in Handed
  BY <1>1, ResultsFacts
<1>6. ErrorsOK
  BY <1>1 DEF ErrorsOK, None, Kinds
<1>7. liveArgs = Owned(frames) + leaked
  <2>1. PICK g : IsSum(frames, Len(frames), g) /\ Owned(frames) = g[Len(frames)]
    BY <1>2, OwnedIsSum
  <2>2. g[0] = 0 /\ g[1] = g[0] + Decoded(Program)
    <3>1. 1 \in 1..1 /\ 1 - 1 = 0
      OBVIOUS
    <3> QED BY <1>2, <2>1, <3>1 DEF IsSum
  <2>3. Decoded(Program) = 0
    BY DEF Decoded, Program
  <2> QED BY <1>1, <1>2, <2>1, <2>2, <2>3
<1>8. Rests(Running, stack)
  BY <1>1, <1>4, <1>5 DEF Running, Rests, Program, InBody, Held
<1> QED BY <1>1, <1>2, <1>3, <1>5, <1>6, <1>7, <1>8 DEF IInv, TypeOK, ArgumentsOwned, Calm

LEMMA UnwindingStep ==
  ASSUME IInv, Unwinding
  PROVE  IInv'
BY CatchCallStep, CatchPcallStep, CatchExceptionStep, CatchInProgramStep, UnwindStep,
   OverloadErrorStep, OverloadCriticalStep, OverloadForeignStep DEF Unwinding

LEMMA CallsStep ==
  ASSUME IInv, [Next]_vars
  PROVE  IInv'
<1>1. CASE \E h \in {"none", "null", "valid", "raw"} : BeginCall(h)
  BY <1>1, BeginCallStep
<1>2. CASE PushFails \/ CallThrows \/ Enter \/ PcallReturns \/ Pop
  BY <1>2, PushFailsStep, CallThrowsStep, EnterStep, PcallReturnsStep, PopStep
<1>3. CASE \E n \in 0..2 : LuaReturn(n) \/ BodyReturn(n) \/ Decode(n)
  BY <1>3, LuaReturnStep, BodyReturnStep, DecodeStep
<1>4. CASE \E kind \in {"error", "critical"} : LuaRaise(kind) \/ ResultFails(kind)
  BY <1>4, LuaRaiseStep, ResultFailsStep
<1>5. CASE LuaPcall
  BY <1>5, LuaPcallStep
<1>6. CASE \E args \in Arguments, set \in Sets : CallOverloaded(args, set)
  BY <1>6, CallOverloadedStep
<1>7. ASSUME NEW args \in Arguments, NEW i \in DOMAIN Functions, CallFunction(args, i)
      PROVE  IInv'
  BY <1>7, FunctionEntered DEF CallFunction, Is
<1>8. CASE \/ DecodeSelf \/ DecodeArg \/ DecodeFails \/ DecodeThrows \/ BeginBody
           \/ \E kind \in {"exception", "alien"} : BodyThrows(kind)
  BY <1>8, DecodeSelfStep, DecodeArgStep, DecodeFailsStep, DecodeThrowsStep, BeginBodyStep,
     BodyThrowsStep
<1>9. CASE OverloadSkip \/ OverloadsExhausted
  BY <1>9, OverloadSkipStep, OverloadsExhaustedStep
<1>10. CASE OverloadTry
  <2>1. Calm /\ Running.kind = "overloads"
    BY <1>10 DEF OverloadTry, Trying, Is
  <2>2. Running \in OverloadFrames
    BY <2>1, RunFacts, FrameFacts
  <2>3. Running.args \in Arguments /\ Running.next \in Nat \ {0} /\ Running.set \in Sets
    BY <2>2 DEF OverloadFrames
  <2>4. Candidate \in DOMAIN Functions
    <3>1. PICK set \in Seq(DOMAIN Functions) : set = Running.set
      BY <2>3, CallAssumption
    <3>2. Running.next \in 1..Len(set)
      BY <1>10, <2>3, <3>1 DEF OverloadTry, Trying
    <3> QED BY <3>1, <3>2 DEF Candidate
  <2> QED BY <1>10, <2>1, <2>3, <2>4, FunctionEntered DEF OverloadTry
<1>11. CASE Unwinding
  BY <1>11, UnwindingStep
<1>12. CASE UNCHANGED vars
  BY <1>12 DEF vars, build, IInv, TypeOK, ErrorsOK, ArgumentsOwned, Calm, Running
<1> QED BY <1>1, <1>2, <1>3, <1>4, <1>5, <1>6, <1>7, <1>8, <1>9, <1>10, <1>11, <1>12 DEF Next

(* The frames of calls nest on the stack, decoded arguments are those of   *)
(* the frames, and what is on top of the stack is what the running frame   *)
(* put there.                                                              *)
THEOREM CallsInvariant == Spec => []IInv
<1>1. IInv /\ [Next]_vars => IInv'
  BY CallsStep
<1> QED BY CallsInitial, <1>1, PTL DEF Spec

(* Whatever returned, failed or threw inside, C++ code finds on the stack  *)
(* what it left there and what luabridge::pcall kept for it, and so does   *)
(* every call that still waits.                                            *)
THEOREM StackIsRestored == Spec => []StackRestored
<1>1. ASSUME IInv PROVE StackRestored
  <2>1. \A k \in 1..Len(frames) - 1 : frames[k + 1].base = frames[k].base + Held(frames[k])
    BY <1>1 DEF IInv, Nested, Sits
  <2>2. InCpp \/ Is("overloads") => Calm /\ Running.kind # "call"
    BY DEF InCpp, InBody, Is
  <2>3. InCpp \/ Is("overloads") => Len(stack) = Running.base + Held(Running)
    BY <1>1, <2>2, HeldOnly
  <2> QED BY <2>1, <2>3 DEF StackRestored
<1> QED BY CallsInvariant, <1>1, PTL

(* The values handed over are results and nothing else.                    *)
THEOREM OnlyResultsHandedOver == Spec => []ResultsOnly
<1>1. IInv => ResultsOnly
  BY DEF IInv, TypeOK, ResultsOnly, Handed
<1> QED BY CallsInvariant, <1>1, PTL

(* Decoded arguments live as long as the frames that decoded them. Those   *)
(* in storage when reading a class throws stay alive, which takes          *)
(* enableExceptions.                                                       *)
THEOREM ArgumentsAreOwned == Spec => []ArgumentsOwned
<1>1. IInv => ArgumentsOwned
  BY DEF IInv
<1> QED BY CallsInvariant, <1>1, PTL
-----------------------------------------------------------------------------
(* No error vanishes.                                                      *)

Known == Pending \union seen \union lost
ErrorsStay ==
  \A e \in 1..raised : e \in Known =>
    \/ e \in Known'
    \/ \E k \in DOMAIN frames : /\ e \in Aside(k) /\ Len(frames') < k
                                 /\ \/ flight'.kind \in {"none", "critical"}
                                    \/ flight.kind = "foreign"

(* It is enough that the error under way goes on or becomes known, and     *)
(* that what the frames put aside stays, comes along or may be dropped.    *)
LEMMA Accounted ==
  ASSUME flight.errors \subseteq Known', seen \subseteq seen', lost \subseteq lost',
         \A k \in DOMAIN frames :
           \/ Aside(k) \subseteq flight'.errors
           \/ k \in DOMAIN frames' /\ Aside(k) \subseteq Aside(k)'
           \/ /\ Len(frames') < k
              /\ flight'.kind \in {"none", "critical"} \/ flight.kind = "foreign"
  PROVE  ErrorsStay
<1> SUFFICES ASSUME NEW e \in 1..raised, e \in Known, e \notin Known'
             PROVE  \E k \in DOMAIN frames : /\ e \in Aside(k) /\ Len(frames') < k
                                             /\ \/ flight'.kind \in {"none", "critical"}
                                                \/ flight.kind = "foreign"
  BY DEF ErrorsStay
<1>1. e \notin flight.errors /\ e \notin seen /\ e \notin lost /\ e \notin flight'.errors
  BY DEF Known, Pending
<1>2. PICK k \in DOMAIN frames : e \in Aside(k)
  BY <1>1 DEF Known, Pending
<1>3. ASSUME k \in DOMAIN frames', Aside(k) \subseteq Aside(k)'
      PROVE  FALSE
  BY <1>2, <1>3 DEF Known, Pending
<1> QED BY <1>1, <1>2, <1>3

LEMMA CalmCarriesNothing ==
  ASSUME Calm
  PROVE  flight.errors = {}
BY DEF Calm, None

(* Only the running frame is left or changed, and it puts nothing aside.   *)
LEMMA TopChanged ==
  ASSUME IInv, Running.kind # "overloads", Len(frames') \in Nat,
         DOMAIN frames' = 1..Len(frames'), Len(frames') >= Len(frames) - 1,
         \A k \in 1..Len(frames) - 1 : frames'[k] = frames[k],
         flight.errors \subseteq flight'.errors \union seen' \union lost',
         seen \subseteq seen', lost \subseteq lost'
  PROVE  ErrorsStay
<1>1. /\ frames \in Seq(AnyFrame) /\ Nested(frames) /\ Running = Last(frames)
      /\ Running = frames[Len(frames)] /\ Len(frames) \in Nat \ {0}
      /\ DOMAIN frames = 1..Len(frames)
  BY RunFacts, TopFrame
<1>2. ASSUME NEW k \in DOMAIN frames, k # Len(frames)
      PROVE  k \in DOMAIN frames' /\ Aside(k) \subseteq Aside(k)'
  <2>1. k \in 1..Len(frames) - 1 /\ k \in DOMAIN frames'
    BY <1>1, <1>2
  <2>2. frames'[k] = frames[k]
    BY <2>1
  <2> QED BY <2>1, <2>2 DEF Aside
<1>3. Aside(Len(frames)) = {}
  BY <1>1 DEF Aside
<1>4. flight.errors \subseteq Known'
  BY DEF Known, Pending
<1> QED BY <1>2, <1>3, <1>4, Accounted

(* The frames after the steps that push, replace or pop the running one.   *)
LEMMA GrownFrames ==
  ASSUME IInv, NEW g
  PROVE  /\ LET fs == Append(frames, g)
            IN  /\ Len(fs) \in Nat /\ DOMAIN fs = 1..Len(fs) /\ Len(fs) >= Len(frames) - 1
                /\ fs \in Seq(AnyFrame \union {g})
                /\ \A k \in 1..Len(frames) - 1 : fs[k] = frames[k]
         /\ LET fs == Replace(g)
            IN  /\ Len(fs) \in Nat /\ DOMAIN fs = 1..Len(fs) /\ Len(fs) >= Len(frames) - 1
                /\ fs \in Seq(AnyFrame \union {g})
                /\ \A k \in 1..Len(frames) - 1 : fs[k] = frames[k]
         /\ LET fs == Front(frames)
            IN  /\ Len(fs) \in Nat /\ DOMAIN fs = 1..Len(fs) /\ Len(fs) >= Len(frames) - 1
                /\ fs \in Seq(AnyFrame \union {g})
                /\ \A k \in 1..Len(frames) - 1 : fs[k] = frames[k]
<1> DEFINE S == AnyFrame \union {g}
<1>1. frames \in Seq(S) /\ Len(frames) \in Nat \ {0} /\ g \in S
  BY RunFacts, TopFrame
<1> HIDE DEF S
<1>2. PICK n \in Nat : n = Len(frames) - 1 /\ Len(frames) = n + 1
  <2>1. Len(frames) - 1 \in Nat /\ Len(frames) = Len(frames) - 1 + 1
    BY <1>1
  <2> QED BY <2>1
<1>3. PICK es : /\ es = Front(frames) /\ es \in Seq(S) /\ Len(es) = n
                /\ DOMAIN es = 1..n /\ \A k \in 1..n : es[k] = frames[k]
  <2>1. /\ Front(frames) \in Seq(S) /\ Len(Front(frames)) = n
        /\ \A k \in 1..n : Front(frames)[k] = frames[k]
    BY <1>1, <1>2, FrontFacts
  <2> QED BY <2>1
<1>4. /\ Append(es, g) \in Seq(S) /\ Len(Append(es, g)) = n + 1
      /\ DOMAIN Append(es, g) = 1..n + 1 /\ \A k \in 1..n : Append(es, g)[k] = frames[k]
  BY <1>1, <1>3
<1>5. /\ Append(frames, g) \in Seq(S) /\ Len(Append(frames, g)) = n + 2
      /\ DOMAIN Append(frames, g) = 1..n + 2
      /\ \A k \in 1..n : Append(frames, g)[k] = frames[k]
  BY <1>1, <1>2
<1>6. n >= n /\ n + 1 >= n /\ n + 2 >= n /\ n + 1 \in Nat /\ n + 2 \in Nat
  OBVIOUS
<1> QED BY <1>2, <1>3, <1>4, <1>5, <1>6 DEF Replace, S

LEMMA CalmStays ==
  ASSUME IInv, Calm, Running.kind # "overloads", NEW g,
         frames' \in {Append(frames, g), Replace(g), Front(frames), frames},
         UNCHANGED <<seen, lost>>
  PROVE  ErrorsStay
<1>1. flight.errors = {}
  BY CalmCarriesNothing
<1>2. frames \in Seq(AnyFrame) /\ Len(frames) \in Nat
  BY RunFacts
<1>3. /\ Len(frames') \in Nat /\ DOMAIN frames' = 1..Len(frames')
      /\ Len(frames') >= Len(frames) - 1
      /\ \A k \in 1..Len(frames) - 1 : frames'[k] = frames[k]
  <2>1. CASE frames' \in {Append(frames, g), Replace(g), Front(frames)}
    BY <2>1, GrownFrames
  <2>2. CASE frames' = frames
    BY <1>2, <2>2
  <2> QED BY <2>1, <2>2
<1> QED BY <1>1, <1>3, TopChanged

LEMMA BeginsStay ==
  ASSUME IInv,
         \/ \E h \in {"none", "null", "valid", "raw"} : BeginCall(h)
         \/ \E args \in Arguments, set \in Sets : CallOverloaded(args, set)
         \/ \E args \in Arguments, i \in DOMAIN Functions : CallFunction(args, i)
         \/ DecodeSelf \/ DecodeArg \/ DecodeThrows \/ BeginBody \/ Pop
  PROVE  ErrorsStay
<1>1. Calm /\ Running.kind # "overloads" /\ UNCHANGED <<seen, lost>>
  BY DEF BeginCall, CallOverloaded, CallFunction, DecodeSelf, DecodeArg, DecodeThrows, BeginBody,
         Pop, InCpp, InBody, Is, Decoding
<1>2. \E g : frames' \in {Append(frames, g), Replace(g)}
  BY DEF BeginCall, CallOverloaded, CallFunction, DecodeSelf, DecodeArg, DecodeThrows, BeginBody,
         Pop, Push
<1> QED BY <1>1, <1>2, CalmStays

LEMMA EndsStay ==
  ASSUME IInv,
         \/ PushFails \/ CallThrows \/ DecodeFails
         \/ \E w \in 0..2 : Decode(w)
         \/ \E kind \in {"exception", "alien"} : BodyThrows(kind)
         \/ \E kind \in {"error", "critical"} : LuaRaise(kind) \/ ResultFails(kind)
  PROVE  ErrorsStay
<1>1. Calm /\ Running.kind # "overloads" /\ UNCHANGED <<seen, lost>>
  BY DEF PushFails, CallThrows, Decode, DecodeFails, BodyThrows, LuaRaise, ResultFails, Is,
         Decoding, Body
<1>2. frames' \in {Front(frames), frames}
  BY DEF PushFails, CallThrows, Decode, DecodeFails, BodyThrows, LuaRaise, ResultFails
<1> QED BY <1>1, <1>2, CalmStays

(* luabridge::pcall ends, and its caller keeps what it left.               *)
LEMMA KeepingStays ==
  ASSUME IInv, Running.kind = "call", NEW n, frames' = Keeping(n),
         flight.errors \subseteq seen' \union lost', seen \subseteq seen', lost \subseteq lost'
  PROVE  ErrorsStay
<1>1. /\ frames \in Seq(AnyFrame) /\ Nested(frames) /\ Running = Last(frames)
  BY RunFacts
<1>2. PICK m : m = Len(frames)
  OBVIOUS
<1>3. m \in Nat \ {0, 1} /\ Running = frames[m] /\ InBody(frames[m - 1])
  <2>1. m \in Nat \ {0} /\ Running = frames[m]
    BY <1>1, <1>2, TopFrame
  <2>2. m # 1
    BY <1>1, <1>2, <2>1 DEF Nested, ProgramFrames
  <2>3. Waits(frames[m - 1], Running.kind)
    BY <1>2, LeftFacts
  <2> QED BY <2>1, <2>2, <2>3 DEF Waits
<1>4. Aside(m) = {} /\ Aside(m - 1) = {}
  BY <1>3 DEF Aside, InBody
<1> DEFINE es == SubSeq(frames, 1, m - 2)
<1>5. /\ es \in Seq(AnyFrame) /\ Len(es) = m - 2 /\ m - 2 \in Nat
      /\ \A k \in 1..m - 2 : es[k] = frames[k]
  <2>1. m - 2 \in 0..Len(frames) /\ m - 2 \in Nat
    BY <1>2, <1>3
  <2>2. es \in Seq(AnyFrame) /\ Len(es) = m - 2
    BY <1>1, <2>1, DownFacts
  <2>3. \A k \in 1..m - 2 : es[k] = frames[k]
    BY <1>1, <1>2, <2>1
  <2> QED BY <2>1, <2>2, <2>3
<1> HIDE DEF es
<1>6. PICK g : frames' = Append(es, g)
  BY <1>2 DEF Keeping, es
<1>7. \A k \in 1..m - 2 : k \in DOMAIN frames' /\ frames'[k] = frames[k]
  <2> DEFINE S == AnyFrame \union {g}
  <2>1. es \in Seq(S) /\ g \in S
    BY <1>5
  <2> HIDE DEF S
  <2>2. /\ Append(es, g) \in Seq(S) /\ Len(Append(es, g)) = Len(es) + 1
        /\ \A k \in 1..Len(es) : Append(es, g)[k] = es[k]
    BY <2>1, AppendProperties
  <2>3. \A k \in 1..m - 2 : k \in DOMAIN Append(es, g)
    BY <1>5, <2>2
  <2> QED BY <1>5, <1>6, <2>2, <2>3
<1>8. \A k \in 1..m - 2 : Aside(k) \subseteq Aside(k)'
  BY <1>7 DEF Aside
<1>9. \A k \in DOMAIN frames : k \in 1..m - 2 \/ k = m - 1 \/ k = m
  BY <1>1, <1>2, <1>3
<1>10. flight.errors \subseteq Known'
  BY DEF Known
<1> QED BY <1>4, <1>7, <1>8, <1>9, <1>10, Accounted

LEMMA PcallStays ==
  ASSUME IInv, PcallReturns
  PROVE  ErrorsStay
<1>1. /\ Calm /\ Running.kind = "call" /\ UNCHANGED <<seen, lost>>
      /\ frames' = Keeping(Len(stack) - Running.base)
  BY DEF PcallReturns, Is
<1>2. flight.errors = {}
  BY <1>1, CalmCarriesNothing
<1> QED BY <1>1, <1>2, KeepingStays

(* Two frames begin at once: a pcall of Lua, and the run of a call.        *)
LEMMA PairsStay ==
  ASSUME IInv, LuaPcall \/ Enter
  PROVE  ErrorsStay
<1>1. Calm /\ Running.kind # "overloads" /\ UNCHANGED <<seen, lost>>
  BY DEF LuaPcall, Enter, Is
<1>2. flight.errors = {} /\ frames \in Seq(AnyFrame)
  BY <1>1, CalmCarriesNothing, RunFacts
<1>3. CASE LuaPcall
  <2>1. PICK p, g : frames' = frames \o <<p, g>>
    BY <1>3 DEF LuaPcall
  <2> DEFINE S == AnyFrame \union {p, g}
  <2>2. frames \in Seq(S) /\ <<p, g>> \in Seq(S)
    BY <1>2
  <2> HIDE DEF S
  <2>3. /\ Len(frames') \in Nat /\ DOMAIN frames' = 1..Len(frames')
        /\ Len(frames') >= Len(frames) - 1
        /\ \A k \in 1..Len(frames) - 1 : frames'[k] = frames[k]
    BY <2>1, <2>2
  <2> QED BY <1>1, <1>2, <2>3, TopChanged
<1>4. CASE Enter
  <2>1. PICK c, g : frames' = Replace(c) \o <<g>>
    BY <1>4 DEF Enter
  <2> DEFINE S == AnyFrame \union {c, g}
  <2>2. PICK fs : fs = Replace(c)
    OBVIOUS
  <2>3. /\ fs \in Seq(AnyFrame \union {c}) /\ Len(fs) >= Len(frames) - 1
        /\ \A k \in 1..Len(frames) - 1 : fs[k] = frames[k]
    BY <2>2, GrownFrames
  <2>4. fs \in Seq(S) /\ <<g>> \in Seq(S)
    BY <2>3
  <2> HIDE DEF S
  <2>5. /\ Len(frames') \in Nat /\ DOMAIN frames' = 1..Len(frames')
        /\ Len(frames') >= Len(frames) - 1
        /\ \A k \in 1..Len(frames) - 1 : frames'[k] = frames[k]
    BY <1>2, <2>1, <2>2, <2>3, <2>4
  <2> QED BY <1>1, <1>2, <2>5, TopChanged
<1> QED BY <1>3, <1>4

(* Two frames end at once. What an overloaded call put aside is dropped    *)
(* when one of its functions returned.                                     *)
LEMMA ReturnsStay ==
  ASSUME IInv, NEW n \in 0..2, LuaReturn(n) \/ BodyReturn(n)
  PROVE  ErrorsStay
<1>1. /\ Calm /\ Running.kind \in {"lua", "function"} /\ UNCHANGED <<seen, lost>>
      /\ flight' = None
  BY DEF LuaReturn, BodyReturn, Body, Is, Calm
<1>2. flight.errors = {} /\ frames \in Seq(AnyFrame) /\ Running = Last(frames) /\ Nested(frames)
  BY <1>1, CalmCarriesNothing, RunFacts
<1>3. PICK m : m = Len(frames)
  OBVIOUS
<1>4. m \in Nat \ {0, 1} /\ Running = frames[m] /\ Waits(frames[m - 1], Running.kind)
  <2>1. m \in Nat \ {0} /\ Running = frames[m]
    BY <1>2, <1>3, TopFrame
  <2>2. m # 1
    BY <1>1, <1>2, <1>3, <2>1 DEF Nested, ProgramFrames
  <2>3. Waits(frames[m - 1], Running.kind)
    BY <1>1, <1>3, LeftFacts
  <2> QED BY <2>1, <2>2, <2>3
<1>5. frames[m - 1].kind # "program"
  BY <1>1, <1>4 DEF Waits
<1> DEFINE es == SubSeq(frames, 1, m - 2)
<1>6. /\ es \in Seq(AnyFrame) /\ Len(es) = m - 2 /\ m - 2 \in Nat
      /\ \A k \in 1..m - 2 : es[k] = frames[k]
  <2>1. m - 2 \in 0..Len(frames) /\ m - 2 \in Nat
    BY <1>3, <1>4
  <2>2. es \in Seq(AnyFrame) /\ Len(es) = m - 2
    BY <1>2, <2>1, DownFacts
  <2>3. \A k \in 1..m - 2 : es[k] = frames[k]
    BY <1>2, <1>3, <2>1
  <2> QED BY <2>1, <2>2, <2>3
<1> HIDE DEF es
<1>7. ASSUME NEW k \in DOMAIN frames
      PROVE  k \in 1..m - 2 \/ k = m - 1 \/ k = m
  BY <1>2, <1>3, <1>4
<1>8. Aside(m) = {}
  BY <1>1, <1>4 DEF Aside
<1>9. CASE LuaReturn(n)
  <2>1. frames[m - 1].kind # "overloads"
    BY <1>9, <1>4 DEF LuaReturn, Is, Waits
  <2>2. Aside(m - 1) = {}
    BY <2>1 DEF Aside
  <2>3. PICK c : frames' \in {es, Append(es, c)}
    BY <1>3, <1>9 DEF LuaReturn, es
  <2>4. \A k \in 1..m - 2 : k \in DOMAIN frames' /\ frames'[k] = frames[k]
    <3> DEFINE S == AnyFrame \union {c}
    <3>1. es \in Seq(S) /\ c \in S
      BY <1>6
    <3> HIDE DEF S
    <3>2. /\ Append(es, c) \in Seq(S) /\ Len(Append(es, c)) = Len(es) + 1
          /\ \A k \in 1..Len(es) : Append(es, c)[k] = es[k]
      BY <3>1, AppendProperties
    <3>3. \A k \in 1..m - 2 : k \in DOMAIN es /\ k \in DOMAIN Append(es, c)
      BY <1>6, <3>1, <3>2
    <3> QED BY <1>6, <2>3, <3>2, <3>3
  <2>5. \A k \in 1..m - 2 : Aside(k) \subseteq Aside(k)'
    BY <2>4 DEF Aside
  <2> QED BY <1>1, <1>2, <1>7, <1>8, <2>2, <2>4, <2>5, Accounted
<1>10. CASE BodyReturn(n) /\ frames[m - 1].kind = "overloads"
  <2>1. frames' = es
    BY <1>3, <1>10 DEF BodyReturn, Answer, es
  <2>2. \A k \in 1..m - 2 : k \in DOMAIN frames' /\ frames'[k] = frames[k]
    BY <1>6, <2>1
  <2>3. \A k \in 1..m - 2 : Aside(k) \subseteq Aside(k)'
    BY <2>2 DEF Aside
  <2>4. Len(frames') < m - 1 /\ flight'.kind = "none"
    BY <1>1, <1>4, <1>6, <2>1 DEF None
  <2> QED BY <1>1, <1>2, <1>7, <1>8, <2>2, <2>3, <2>4, Accounted
<1>11. CASE BodyReturn(n) /\ frames[m - 1].kind # "overloads"
  <2>1. frames' = Front(frames) /\ Running.kind # "overloads"
    BY <1>1, <1>3, <1>11 DEF BodyReturn, Answer
  <2> QED BY <1>1, <2>1, CalmStays
<1> QED BY <1>9, <1>10, <1>11

(* The errors on their way through frames that put nothing aside.          *)
LEMMA FlightsStay ==
  ASSUME IInv,
         \/ CatchCall \/ CatchPcall \/ CatchException \/ CatchInProgram
         \/ ExceptionEscapes \/ Unwind
  PROVE  ErrorsStay
<1>1. frames \in Seq(AnyFrame) /\ Len(frames) \in Nat /\ ErrorsOK
  BY RunFacts
<1>2. Running.kind # "overloads"
  BY DEF CatchCall, CatchPcall, CatchException, CatchInProgram, ExceptionEscapes, Unwind
<1>3. seen \subseteq seen' /\ lost \subseteq lost'
  BY DEF CatchCall, CatchPcall, CatchException, CatchInProgram, ExceptionEscapes, Unwind
<1>4. CASE CatchCall
  <2>1. CASE Left
    <3>1. Running.kind = "call" /\ frames' = Keeping(1)
      BY <1>4, <2>1 DEF CatchCall
    <3>2. flight.errors \subseteq seen' \union lost'
      BY <1>4, <2>1 DEF CatchCall, Left
    <3> QED BY <1>3, <3>1, <3>2, KeepingStays
  <2>2. CASE ~Left
    <3>1. frames' = Front(frames)
      BY <1>4, <2>2 DEF CatchCall
    <3>2. flight.errors \subseteq flight'.errors \union seen' \union lost'
      <4>1. CASE Throws /\ Told
        <5>1. flight'.errors = flight.errors
          BY <1>4, <4>1 DEF CatchCall
        <5> QED BY <5>1
      <4>2. CASE ~(Throws /\ Told)
        <5>1. flight.errors \subseteq seen' \/ flight.errors \subseteq lost'
          BY <1>4, <2>2, <4>2 DEF CatchCall
        <5> QED BY <5>1
      <4> QED BY <4>1, <4>2
    <3>3. /\ Len(frames') \in Nat /\ DOMAIN frames' = 1..Len(frames')
          /\ Len(frames') >= Len(frames) - 1
          /\ \A k \in 1..Len(frames) - 1 : frames'[k] = frames[k]
      BY <3>1, GrownFrames
    <3> QED BY <1>2, <1>3, <3>2, <3>3, TopChanged
  <2> QED BY <2>1, <2>2
<1>5. CASE CatchPcall \/ CatchException \/ CatchInProgram \/ ExceptionEscapes \/ Unwind
  <2>1. frames' \in {Front(frames), frames}
    BY <1>5 DEF CatchPcall, CatchException, CatchInProgram, ExceptionEscapes, Unwind
  <2>2. /\ Len(frames') \in Nat /\ DOMAIN frames' = 1..Len(frames')
        /\ Len(frames') >= Len(frames) - 1
        /\ \A k \in 1..Len(frames) - 1 : frames'[k] = frames[k]
    <3>1. CASE frames' = Front(frames)
      BY <3>1, GrownFrames
    <3>2. CASE frames' = frames
      BY <1>1, <3>2
    <3> QED BY <2>1, <3>1, <3>2
  <2>3. flight.errors \subseteq flight'.errors \union seen' \union lost'
    <3>1. CASE CatchPcall \/ CatchInProgram
      BY <3>1 DEF CatchPcall, CatchInProgram
    <3>2. CASE CatchException \/ ExceptionEscapes
      <4>1. PICK kind : flight' = [flight EXCEPT !.kind = kind]
        BY <3>2 DEF CatchException, ExceptionEscapes
      <4>2. flight'.errors = flight.errors
        BY <1>1, <4>1 DEF ErrorsOK
      <4> QED BY <4>2
    <3>3. CASE Unwind
      BY <3>3 DEF Unwind
    <3> QED BY <1>5, <3>1, <3>2, <3>3
  <2> QED BY <1>2, <1>3, <2>2, <2>3, TopChanged
<1> QED BY <1>4, <1>5

(* An overloaded call goes on with what it put aside, and with the error   *)
(* of the overload it tried.                                               *)
LEMMA MessageStays ==
  ASSUME IInv, Running.kind = "overloads", flight.kind \in {"none", "error"},
         frames' = Replace(WithMessage(Running, flight.errors)), UNCHANGED <<seen, lost>>
  PROVE  ErrorsStay
<1>1. /\ frames \in Seq(AnyFrame) /\ Running = Last(frames) /\ ErrorsOK
      /\ Running = frames[Len(frames)] /\ Len(frames) \in Nat \ {0} /\ Nested(frames)
      /\ Running \in AnyFrame /\ Running \in OverloadFrames
  BY RunFacts, TopFrame, FrameFacts
<1>2. PICK f \in OverloadFrames : f = Running
  BY <1>1
<1>3. PICK e \in SUBSET Nat : e = flight.errors
  BY <1>1 DEF ErrorsOK, build
<1>4. PICK g : g = WithMessage(f, e)
  OBVIOUS
<1>5. /\ g \in OverloadFrames /\ g.kind = "overloads" /\ g.base = f.base
      /\ g.messages = Append(f.messages, e)
  BY <1>4, MessageFacts
<1>6. PICK n : n = Len(frames)
  OBVIOUS
<1>7. /\ frames' = Replace(g) /\ Replace(g) \in Seq(AnyFrame) /\ Len(Replace(g)) = n
      /\ \A i \in 1..n - 1 : Replace(g)[i] = frames[i]
      /\ Replace(g)[n] = g
  <2>1. g \in AnyFrame /\ g.kind = Last(frames).kind /\ g.base = Last(frames).base
    BY <1>1, <1>2, <1>5 DEF AnyFrame
  <2>2. frames' = Replace(g)
    BY <1>2, <1>3, <1>4
  <2>3. Last(frames).kind # "program"
    BY <1>1
  <2> QED BY <1>1, <1>6, <2>1, <2>2, <2>3, NestedReplace DEF Replace
<1>8. DOMAIN frames' = 1..n /\ DOMAIN frames = 1..n /\ n \in Nat \ {0}
  BY <1>1, <1>6, <1>7
<1>9. \A k \in 1..n - 1 : Aside(k) \subseteq Aside(k)'
  BY <1>7 DEF Aside
<1>10. Aside(n) \subseteq Aside(n)' /\ e \subseteq Aside(n)'
  <2>1. f.messages \in Seq(SUBSET Nat)
    BY DEF OverloadFrames
  <2>2. PICK m \in Seq(SUBSET Nat) : m = f.messages
    BY <2>1
  <2>3. Range(m) \subseteq Range(Append(m, e)) /\ e \in Range(Append(m, e))
    <3>1. /\ Append(m, e) \in Seq(SUBSET Nat) /\ Len(Append(m, e)) = Len(m) + 1
          /\ \A i \in 1..Len(m) : Append(m, e)[i] = m[i]
          /\ Append(m, e)[Len(m) + 1] = e /\ Len(m) \in Nat
      BY AppendProperties
    <3>2. /\ DOMAIN m = 1..Len(m) /\ DOMAIN Append(m, e) = 1..Len(m) + 1
          /\ Len(m) + 1 \in 1..Len(m) + 1 /\ \A i \in 1..Len(m) : i \in 1..Len(m) + 1
      BY <3>1
    <3> QED BY <3>1, <3>2 DEF Range
  <2>4. Aside(n) = UNION Range(m)
    BY <1>1, <1>2, <1>6, <2>2 DEF Aside
  <2>5. frames'[n] = g
    BY <1>7
  <2>6. Aside(n)' = UNION Range(Append(m, e))
    BY <1>5, <2>2, <2>5 DEF Aside
  <2> QED BY <2>3, <2>4, <2>6
<1>11. flight.errors \subseteq Known'
  BY <1>3, <1>8, <1>10 DEF Known, Pending
<1>12. \A k \in DOMAIN frames : k \in DOMAIN frames' /\ Aside(k) \subseteq Aside(k)'
  BY <1>8, <1>9, <1>10
<1> QED BY <1>11, <1>12, Accounted

LEMMA OverloadsStay ==
  ASSUME IInv, OverloadSkip \/ OverloadError
  PROVE  ErrorsStay
<1>1. CASE OverloadSkip
  <2>1. Calm /\ Running.kind = "overloads" /\ frames' = Replace(WithMessage(Running, {}))
        /\ UNCHANGED <<seen, lost>>
    BY <1>1 DEF OverloadSkip, Trying, Is
  <2>2. flight.kind = "none" /\ flight.errors = {}
    BY <2>1, CalmFacts, CalmCarriesNothing
  <2> QED BY <2>1, <2>2, MessageStays
<1>2. CASE OverloadError
  BY <1>2, MessageStays DEF OverloadError
<1> QED BY <1>1, <1>2

LEMMA TryStays ==
  ASSUME IInv, OverloadTry
  PROVE  ErrorsStay
<1>1. Calm /\ UNCHANGED <<seen, lost>> /\ \E g : frames' = Append(frames, g)
  BY DEF OverloadTry, Trying, Is, Push
<1>2. PICK g : frames' = Append(frames, g)
  BY <1>1
<1>3. flight.errors = {} /\ frames \in Seq(AnyFrame)
  BY <1>1, CalmCarriesNothing, RunFacts
<1>4. \A k \in DOMAIN frames : k \in DOMAIN frames' /\ frames'[k] = frames[k]
  <2> DEFINE S == AnyFrame \union {g}
  <2>1. frames \in Seq(S) /\ g \in S
    BY <1>3
  <2> HIDE DEF S
  <2> QED BY <1>2, <2>1
<1>5. \A k \in DOMAIN frames : Aside(k) \subseteq Aside(k)'
  BY <1>4 DEF Aside
<1> QED BY <1>1, <1>3, <1>4, <1>5, Accounted

(* An overloaded call ends with an error of its own, which carries what it *)
(* put aside, or is passed by a critical one.                              *)
LEMMA OverloadsEndStays ==
  ASSUME IInv, OverloadsExhausted \/ OverloadCritical \/ OverloadForeign
  PROVE  ErrorsStay
<1>1. /\ Running.kind = "overloads" /\ frames' = Front(frames)
      /\ seen \subseteq seen' /\ lost \subseteq lost'
  BY DEF OverloadsExhausted, OverloadCritical, OverloadForeign, Is
<1>2. /\ frames \in Seq(AnyFrame) /\ Nested(frames) /\ Running = frames[Len(frames)]
      /\ Len(frames) \in Nat \ {0} /\ DOMAIN frames = 1..Len(frames)
  BY RunFacts, TopFrame
<1>3. PICK n \in Nat \ {0} : n = Len(frames)
  BY <1>2
<1>4. Len(frames') = n - 1 /\ DOMAIN frames' = 1..n - 1
      /\ \A k \in 1..n - 1 : frames'[k] = frames[k]
  <2>1. frames \in Seq(AnyFrame) /\ Len(frames) > 0
    BY ONLY <1>2
  <2>2. Front(frames) \in Seq(AnyFrame) /\ Len(Front(frames)) = Len(frames) - 1
        /\ \A k \in 1..Len(frames) - 1 : Front(frames)[k] = frames[k]
    BY <2>1, FrontFacts
  <2>3. Front(frames) \in Seq(AnyFrame) /\ Len(Front(frames)) = n - 1
        /\ \A k \in 1..n - 1 : Front(frames)[k] = frames[k]
    BY ONLY <2>2, <1>3
  <2> QED BY ONLY <1>1, <1>3, <2>3
<1>5. \A k \in 1..n - 1 : Aside(k) \subseteq Aside(k)'
  BY <1>4 DEF Aside
<1>6. Aside(n) = UNION Range(Running.messages)
  BY <1>1, <1>2, <1>3 DEF Aside
<1>7. \A k \in DOMAIN frames : k = n \/ (k \in 1..n - 1 /\ k \in DOMAIN frames')
  BY <1>2, <1>3, <1>4
<1>8. CASE OverloadsExhausted
  <2>1. Aside(n) \subseteq flight'.errors
    BY <1>6, <1>8 DEF OverloadsExhausted
  <2>2. flight.errors = {}
    BY <1>8, CalmCarriesNothing DEF OverloadsExhausted, Is
  <2> QED BY <1>1, <1>5, <1>7, <2>1, <2>2, Accounted
<1>9. CASE OverloadCritical
  <2>1. flight' = flight /\ flight'.kind = "critical" /\ Len(frames') < n
    BY <1>3, <1>4, <1>9 DEF OverloadCritical
  <2>2. flight.errors \subseteq Known'
    BY <2>1 DEF Known, Pending
  <2> QED BY <1>1, <1>5, <1>7, <2>1, <2>2, Accounted
<1>10. CASE OverloadForeign
  <2>1. flight.kind = "foreign" /\ Len(frames') < n /\ flight.errors \subseteq lost'
    BY <1>3, <1>4, <1>10 DEF OverloadForeign
  <2>2. flight.errors \subseteq Known'
    BY <2>1 DEF Known
  <2> QED BY <1>1, <1>5, <1>7, <2>1, <2>2, Accounted
<1> QED BY <1>8, <1>9, <1>10

LEMMA StutteringStays ==
  ASSUME UNCHANGED vars
  PROVE  ErrorsStay
BY DEF vars, ErrorsStay, Known, Pending, Aside

(* No error vanishes: each is on its way, put aside by an overloaded call, *)
(* known to someone, or given as a code. Only an overloaded call that ends *)
(* early, with results, a critical error or a failure without a message,   *)
(* may drop what it put aside.                                             *)
THEOREM NoErrorIsLost == Spec => NoErrorVanishes
<1>1. ASSUME IInv, [Next]_vars
      PROVE  ErrorsStay
  <2>1. CASE \/ \E h \in {"none", "null", "valid", "raw"} : BeginCall(h)
             \/ \E args \in Arguments, set \in Sets : CallOverloaded(args, set)
             \/ \E args \in Arguments, i \in DOMAIN Functions : CallFunction(args, i)
             \/ DecodeSelf \/ DecodeArg \/ DecodeThrows \/ BeginBody \/ Pop
    BY <1>1, <2>1, BeginsStay
  <2>2. CASE \/ PushFails \/ CallThrows \/ DecodeFails
             \/ \E w \in 0..2 : Decode(w)
             \/ \E kind \in {"exception", "alien"} : BodyThrows(kind)
             \/ \E kind \in {"error", "critical"} : LuaRaise(kind) \/ ResultFails(kind)
    BY <1>1, <2>2, EndsStay
  <2>3. CASE LuaPcall \/ Enter
    BY <1>1, <2>3, PairsStay
  <2>4. CASE \E n \in 0..2 : LuaReturn(n) \/ BodyReturn(n)
    BY <1>1, <2>4, ReturnsStay
  <2>5. CASE OverloadTry
    BY <1>1, <2>5, TryStays
  <2>6. CASE OverloadSkip \/ OverloadError
    BY <1>1, <2>6, OverloadsStay
  <2>7. CASE OverloadsExhausted \/ OverloadCritical \/ OverloadForeign
    BY <1>1, <2>7, OverloadsEndStays
  <2>8. CASE \/ CatchCall \/ CatchPcall \/ CatchException \/ CatchInProgram
             \/ ExceptionEscapes \/ Unwind
    BY <1>1, <2>8, FlightsStay
  <2>9. CASE PcallReturns
    BY <1>1, <2>9, PcallStays
  <2>10. CASE UNCHANGED vars
    BY <2>10, StutteringStays
  <2> QED BY <1>1, <2>1, <2>2, <2>3, <2>4, <2>5, <2>6, <2>7, <2>8, <2>9, <2>10
         DEF Next, Unwinding
<1>2. IInv /\ [Next]_vars => [ErrorsStay]_vars
  BY <1>1
<1>3. Spec => [][ErrorsStay]_vars
  BY CallsInvariant, <1>2, PTL DEF Spec
<1> QED BY <1>3, PTL DEF NoErrorVanishes, ErrorsStay, Known
=============================================================================
