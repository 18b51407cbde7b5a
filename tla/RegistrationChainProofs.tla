------------------------ MODULE RegistrationChainProofs ------------------------
(***************************************************************************)
(* Proof that the stack holds exactly what the living registration objects *)
(* will pop, that each of them fills the tables of its own chain, and that *)
(* what was opened is found again under its name, for any objects, names   *)
(* and classes, any depth of the chains and any number of tables.          *)
(***************************************************************************)
EXTENDS RegistrationChain, SequenceTheorems, WellFoundedInduction, TLAPS

Part == {"global", "user", "ns", "tb", "mt", "co", "cl", "st"}
Space == {"global", "user", "ns", "tb"}       \* what a namespace may have on top
Tables == [part : Part, field : [Key -> Nat \union {Function}]]
Objects == [kind : {"none", "ns", "class", "table"}, size : Nat, skip : 0..1]

(* Only a space has fields that are tables, and what a name is bound to    *)
(* can be opened as a namespace.                                           *)
HeapOK ==
  /\ heap \in Seq(Tables) /\ 1 \in DOMAIN heap /\ heap[Global].part = "global"
  /\ \A t \in DOMAIN heap, k \in Key :
        heap[t].field[k] > 0 => /\ heap[t].part \in Space
                                /\ heap[t].field[k] \in DOMAIN heap
                                /\ k \in Name => heap[heap[t].field[k]].part \in {"ns", "tb"}
RegisteredOK ==
  \A c \in Class :
    registered[c] # <<>> =>
      \E co, cl, st \in DOMAIN heap :
         /\ registered[c] = <<co, cl, st>>
         /\ heap[co].part = "co" /\ heap[cl].part = "cl" /\ heap[st].part = "st"
ObjectsOK ==
  /\ obj \in [Obj -> Objects] /\ alive \in Seq(Obj)
  /\ \A o \in Obj : obj[o].size = 0 => obj[o].skip = 0
  /\ \A o \in Obj : ~Living(o) => obj[o] = Empty
  /\ \A i, j \in DOMAIN alive : alive[i] = alive[j] => i = j
TypeOK ==
  /\ HeapOK /\ RegisteredOK /\ ObjectsOK
  /\ DOMAIN registered = Class
  /\ stack \in Seq(DOMAIN heap) /\ own \in Nat

(* Entry j of stack s is opened in the one before it, for an object whose  *)
(* tables end at b.                                                        *)
Linked(h, r, s, j, b) ==
  \/ h[s[j]].part \in {"ns", "tb"} /\ \E n \in Name : h[s[j - 1]].field[n] = s[j]
  \/ /\ h[s[j]].part = "co" /\ j + 2 = b /\ h[s[b]].part = "st"
     /\ \E c \in Class : r[c] = <<s[j], s[j + 1], s[j + 2]>> /\ h[s[j - 1]].field[c] = s[j + 2]
  \/ h[s[j]].part = "cl" /\ j + 1 = b /\ h[s[j - 1]].part = "co"
  \/ h[s[j]].part = "st" /\ j = b /\ h[s[j - 1]].part = "cl"
  \/ h[s[j]].part = "mt" /\ j = b /\ h[s[j - 1]].part = "tb"

(* Object x has the entries a + 1 to b. The table it fills is nowhere else *)
(* in a chain.                                                             *)
ChainAt(h, r, s, x, a, b) ==
  /\ a \in Nat /\ b = a + x.size /\ x.size > 0 /\ b <= Len(s)
  /\ h[s[a + 1]].part \in {"global", "user"}
  /\ \A j \in a + 2..b : Linked(h, r, s, j, b)
  /\ x.kind \in {"ns", "class", "table"} /\ h[s[b]].part \in LastParts[x.kind]
  /\ x.kind = "table" => \A j \in 1..b - 2 : s[j] # s[b - 1]

(* Where the tables of each object end.                                    *)
Tops(n, al, ob) ==
  LET top[k \in 0..Len(al)] ==
        IF k = 0 THEN n ELSE top[k - 1] + (ob[al[k]].size - ob[al[k]].skip)
  IN  top
Marks == Tops(own, alive, obj)
Chained ==
  \A i \in DOMAIN alive :
    Active(alive[i]) => LET x == obj[alive[i]]
                        IN  ChainAt(heap, registered, stack, x, Marks[i - 1] - x.skip, Marks[i])
IInv == TypeOK /\ Len(stack) = Marks[Len(alive)] /\ Chained
-----------------------------------------------------------------------------
(* Sequences.                                                              *)

LEMMA FrontFacts ==
  ASSUME NEW S, NEW s \in Seq(S), Len(s) > 0
  PROVE  /\ Front(s) \in Seq(S) /\ Len(Front(s)) = Len(s) - 1
         /\ \A i \in 1..Len(s) - 1 : Front(s)[i] = s[i]
<1> DEFINE n == Len(s) - 1
<1>1. n \in Nat /\ 1 \in Int /\ n \in Int /\ \A i \in 1..n : s[i] \in S
  OBVIOUS
<1> HIDE DEF n
<1>2. /\ SubSeq(s, 1, n) \in Seq(S)
      /\ Len(SubSeq(s, 1, n)) = IF 1 <= n THEN n - 1 + 1 ELSE 0
      /\ \A i \in 1..n - 1 + 1 : SubSeq(s, 1, n)[i] = s[1 + i - 1]
  BY <1>1, SubSeqProperties
<1>3. Len(SubSeq(s, 1, n)) = n
  BY <1>1, <1>2
<1>4. \A i \in 1..n : SubSeq(s, 1, n)[i] = s[i]
  <2>1. \A i \in 1..n : i \in 1..n - 1 + 1 /\ 1 + i - 1 = i
    BY <1>1
  <2> QED BY <1>2, <2>1
<1> QED BY <1>2, <1>3, <1>4 DEF Front, n

LEMMA LeastNat ==
  ASSUME NEW S, S \subseteq Nat, S # {}
  PROVE  \E n \in S : \A m \in S : n <= m
<1>1. PICK n \in S : \A m \in S : ~ (<<m, n>> \in OpToRel(<, Nat))
  BY NatLessThanWellFounded, WFMin
<1>2. \A m \in S : ~(m < n)
  BY <1>1 DEF OpToRel
<1> QED BY <1>2

(* What is left of a stack when the entries above n are popped.            *)
LEMMA PoppedFacts ==
  ASSUME NEW S, NEW s \in Seq(S), NEW n \in 0..Len(s)
  PROVE  /\ SubSeq(s, 1, n) \in Seq(S) /\ Len(SubSeq(s, 1, n)) = n
         /\ \A i \in 1..n : SubSeq(s, 1, n)[i] = s[i]
<1>1. n \in Nat /\ 1 \in Int /\ n \in Int /\ \A i \in 1..n : s[i] \in S
  OBVIOUS
<1>2. /\ SubSeq(s, 1, n) \in Seq(S)
      /\ Len(SubSeq(s, 1, n)) = IF 1 <= n THEN n - 1 + 1 ELSE 0
      /\ \A i \in 1..n - 1 + 1 : SubSeq(s, 1, n)[i] = s[1 + i - 1]
  BY <1>1, SubSeqProperties
<1>3. \A i \in 1..n : i \in 1..n - 1 + 1 /\ 1 + i - 1 = i
  BY <1>1
<1> QED BY <1>1, <1>2, <1>3
-----------------------------------------------------------------------------
(* Where the tables of the objects end. g gives it for the objects al.     *)
Takes(x) == x.size - x.skip
UpTo(g, m, n, al, ob) ==
  /\ g \in [0..m -> Int] /\ g[0] = n
  /\ \A k \in 1..m : g[k] = g[k - 1] + Takes(ob[al[k]])
IsTops(g, n, al, ob) == UpTo(g, Len(al), n, al, ob)

LEMMA TopsExist ==
  ASSUME NEW n \in Int, NEW al, NEW ob, NEW m \in Nat,
         \A k \in 1..m : Takes(ob[al[k]]) \in Int
  PROVE  \E g : UpTo(g, m, n, al, ob)
<1> DEFINE S == {l \in 0..m : ~ \E g : UpTo(g, l, n, al, ob)}
<1>1. SUFFICES ASSUME S # {} PROVE FALSE
  OBVIOUS
<1>2. PICK l \in S : \A k \in S : l <= k
  <2>1. S \subseteq Nat
    OBVIOUS
  <2> QED BY <1>1, <2>1, LeastNat
<1>3. l # 0
  <2>1. UpTo([k \in 0..0 |-> n], 0, n, al, ob)
    BY DEF UpTo
  <2> QED BY <2>1, <1>2
<1>4. PICK g : UpTo(g, l - 1, n, al, ob)
  BY <1>2, <1>3
<1> DEFINE h == [k \in 0..l |-> IF k = l THEN g[l - 1] + Takes(ob[al[l]]) ELSE g[k]]
<1>5. UpTo(h, l, n, al, ob)
  BY SMTT(20), <1>2, <1>3, <1>4 DEF UpTo
<1> QED BY <1>2, <1>5

LEMMA TopsFacts ==
  ASSUME NEW n \in Int, NEW al \in Seq(Obj), NEW ob \in [Obj -> Objects]
  PROVE  IsTops(Tops(n, al, ob), n, al, ob)
<1> DEFINE Rec(g) == g = [k \in 0..Len(al) |->
                  IF k = 0 THEN n ELSE g[k - 1] + (ob[al[k]].size - ob[al[k]].skip)]
           tops == CHOOSE g : Rec(g)
<1>1. \A k \in 1..Len(al) : Takes(ob[al[k]]) \in Int
  <2>1. \A x \in Objects : Takes(x) \in Int
    BY DEF Takes, Objects
  <2>2. \A k \in 1..Len(al) : ob[al[k]] \in Objects
    OBVIOUS
  <2> QED BY <2>1, <2>2
<1>2. PICK g : UpTo(g, Len(al), n, al, ob)
  <2>1. Len(al) \in Nat
    OBVIOUS
  <2> QED BY <1>1, <2>1, TopsExist
<1>3. Rec(g)
  BY <1>2 DEF Takes, UpTo
<1>4. Tops(n, al, ob) = tops
  BY DEF Tops
<1>5. Rec(tops)
  BY <1>3
<1> HIDE DEF tops
<1>6. DOMAIN tops = 0..Len(al) /\ tops[0] = n /\ Len(al) \in Nat
      /\ \A k \in 1..Len(al) : tops[k] = tops[k - 1] + Takes(ob[al[k]])
  BY <1>5 DEF Takes
<1>7. \A k \in 0..Len(al) : tops[k] = g[k]
  <2> DEFINE S == {m \in 0..Len(al) : tops[m] # g[m]}
  <2>1. SUFFICES ASSUME S # {} PROVE FALSE
    OBVIOUS
  <2>2. PICK m \in S : \A k \in S : m <= k
    <3>1. S \subseteq Nat
      OBVIOUS
    <3> QED BY <2>1, <3>1, LeastNat
  <2>3. m # 0 /\ m - 1 \in 0..Len(al) /\ m - 1 \notin S /\ m \in 1..Len(al)
    BY <2>2, <1>2, <1>6 DEF UpTo
  <2> QED BY <2>2, <2>3, <1>2, <1>6 DEF UpTo
<1> QED BY <1>2, <1>4, <1>5, <1>6, <1>7 DEF IsTops, UpTo

(* The tops of the first objects do not depend on the later ones.          *)
LEMMA TopsAgree ==
  ASSUME NEW n \in Int, NEW al, NEW ob, NEW g, IsTops(g, n, al, ob),
         NEW bl, NEW pb, NEW h, IsTops(h, n, bl, pb),
         Len(al) \in Nat, Len(bl) \in Nat,
         NEW m \in Nat, m <= Len(al), m <= Len(bl),
         \A k \in 1..m : Takes(ob[al[k]]) = Takes(pb[bl[k]])
  PROVE  \A k \in 0..m : g[k] = h[k]
<1> DEFINE S == {k \in 0..m : g[k] # h[k]}
<1>1. SUFFICES ASSUME S # {} PROVE FALSE
  OBVIOUS
<1>2. PICK l \in S : \A k \in S : l <= k
  <2>1. S \subseteq Nat
    OBVIOUS
  <2> QED BY <1>1, <2>1, LeastNat
<1>3. l # 0 /\ l - 1 \in 0..m /\ l - 1 \notin S /\ l \in 1..m
  BY <1>2 DEF IsTops, UpTo
<1> QED BY <1>2, <1>3 DEF IsTops, UpTo

(* Objects that count nothing take nothing.                                *)
LEMMA TopsFlat ==
  ASSUME NEW n, NEW al, NEW ob, NEW g, IsTops(g, n, al, ob), Len(al) \in Nat,
         NEW i \in 0..Len(al), NEW j \in i..Len(al),
         \A k \in i + 1..j : Takes(ob[al[k]]) = 0
  PROVE  g[j] = g[i]
<1> DEFINE S == {k \in i..j : g[k] # g[i]}
<1>1. SUFFICES ASSUME S # {} PROVE FALSE
  OBVIOUS
<1>2. PICK l \in S : \A k \in S : l <= k
  <2>1. S \subseteq Nat
    OBVIOUS
  <2> QED BY <1>1, <2>1, LeastNat
<1>3. l # i /\ l - 1 \in i..j /\ l - 1 \notin S /\ l \in i + 1..j /\ l \in 1..Len(al)
  BY <1>2
<1> QED BY SMTT(30), <1>2, <1>3 DEF IsTops, UpTo

LEMMA TopsRise ==
  ASSUME NEW n, NEW al, NEW ob, NEW g, IsTops(g, n, al, ob), Len(al) \in Nat,
         \A k \in 1..Len(al) : Takes(ob[al[k]]) \in Nat,
         NEW i \in 0..Len(al), NEW j \in i..Len(al)
  PROVE  g[i] <= g[j]
<1> DEFINE S == {k \in i..j : ~(g[i] <= g[k])}
<1>1. SUFFICES ASSUME S # {} PROVE FALSE
  OBVIOUS
<1>2. PICK l \in S : \A k \in S : l <= k
  <2>1. S \subseteq Nat
    OBVIOUS
  <2> QED BY <1>1, <2>1, LeastNat
<1>3. l # i
  <2>1. g[i] \in Int
    BY DEF IsTops, UpTo
  <2> QED BY <1>2, <2>1
<1>4. l - 1 \in i..j /\ l - 1 \notin S /\ l \in 1..Len(al) /\ l - 1 \in 0..Len(al)
  BY <1>2, <1>3
<1>5. g[i] \in Int /\ g[l - 1] \in Int /\ g[l] = g[l - 1] + Takes(ob[al[l]])
  BY <1>2, <1>4 DEF IsTops, UpTo
<1> QED BY <1>2, <1>4, <1>5
-----------------------------------------------------------------------------
(* Objects and their counts.                                               *)

LEMMA TakesNat ==
  ASSUME NEW ob \in [Obj -> Objects], NEW al \in Seq(Obj),
         \A o \in Obj : ob[o].size = 0 => ob[o].skip = 0
  PROVE  /\ Len(al) \in Nat /\ DOMAIN al = 1..Len(al)
         /\ \A k \in 1..Len(al) : al[k] \in Obj /\ Takes(ob[al[k]]) \in Nat
         /\ \A o \in Obj : ob[o].size \in Nat /\ ob[o].skip \in 0..1 /\ Takes(ob[o]) \in Nat
         /\ \A o \in Obj : ob[o].size = 0 => Takes(ob[o]) = 0
<1>1. \A o \in Obj : ob[o].size \in Nat /\ ob[o].skip \in 0..1
  BY DEF Objects
<1>2. \A o \in Obj : Takes(ob[o]) \in Nat /\ (ob[o].size = 0 => Takes(ob[o]) = 0)
  <2>1. TAKE o \in Obj
  <2>2. CASE ob[o].size = 0
    BY <2>2 DEF Takes
  <2>3. CASE ob[o].size # 0
    BY <1>1, <2>3 DEF Takes
  <2> QED BY <2>2, <2>3
<1> QED BY <1>1, <1>2

LEMMA MarkFacts ==
  ASSUME ObjectsOK, own \in Nat
  PROVE  /\ IsTops(Marks, own, alive, obj) /\ Len(alive) \in Nat /\ DOMAIN alive = 1..Len(alive)
         /\ \A k \in 1..Len(alive) : alive[k] \in Obj /\ Takes(obj[alive[k]]) \in Nat
         /\ \A o \in Obj : obj[o].size \in Nat /\ obj[o].skip \in 0..1 /\ Takes(obj[o]) \in Nat
         /\ \A o \in Obj : obj[o].size = 0 => Takes(obj[o]) = 0
         /\ \A i \in 0..Len(alive) : Marks[i] \in Nat
         /\ \A i \in 0..Len(alive) : \A j \in i..Len(alive) : Marks[i] <= Marks[j]
<1>1. /\ Len(alive) \in Nat /\ DOMAIN alive = 1..Len(alive)
      /\ \A k \in 1..Len(alive) : alive[k] \in Obj /\ Takes(obj[alive[k]]) \in Nat
      /\ \A o \in Obj : obj[o].size \in Nat /\ obj[o].skip \in 0..1 /\ Takes(obj[o]) \in Nat
      /\ \A o \in Obj : obj[o].size = 0 => Takes(obj[o]) = 0
  BY TakesNat DEF ObjectsOK
<1>2. IsTops(Marks, own, alive, obj)
  BY TopsFacts DEF ObjectsOK, Marks
<1>3. \A i \in 0..Len(alive) : \A j \in i..Len(alive) : Marks[i] <= Marks[j]
  BY <1>1, <1>2, TopsRise
<1>4. Marks[0] \in Nat /\ \A i \in 0..Len(alive) : Marks[i] \in Int
  BY <1>2 DEF IsTops, UpTo
<1>5. \A i \in 0..Len(alive) : Marks[i] \in Nat
  BY ONLY <1>1, <1>3, <1>4
<1> QED BY <1>1, <1>2, <1>3, <1>5

LEMMA MarkFactsNext ==
  ASSUME ObjectsOK', own' \in Nat
  PROVE  /\ IsTops(Marks', own', alive', obj') /\ Len(alive') \in Nat
         /\ DOMAIN alive' = 1..Len(alive')
         /\ \A k \in 1..Len(alive') : alive'[k] \in Obj /\ Takes(obj'[alive'[k]]) \in Nat
         /\ \A o \in Obj : obj'[o].size = 0 => Takes(obj'[o]) = 0
<1>1. /\ Len(alive') \in Nat /\ DOMAIN alive' = 1..Len(alive')
      /\ \A k \in 1..Len(alive') : alive'[k] \in Obj /\ Takes(obj'[alive'[k]]) \in Nat
      /\ \A o \in Obj : obj'[o].size = 0 => Takes(obj'[o]) = 0
  BY TakesNat DEF ObjectsOK
<1>2. IsTops(Marks', own', alive', obj')
  BY TopsFacts DEF ObjectsOK, Marks
<1> QED BY <1>1, <1>2

(* The first m - 1 objects keep what they have, and no other is active.    *)
KeepsFirst(m) ==
  /\ m \in Nat \ {0} /\ m <= Len(alive) + 1 /\ m <= Len(alive') + 1
  /\ \A i \in 1..m - 1 : alive'[i] = alive[i] /\ obj'[alive[i]] = obj[alive[i]]
(* Object w is the p-th, and has its tables on those of the first m - 1.   *)
Taken(p, m, w) ==
  /\ KeepsFirst(m) /\ p \in m..Len(alive') /\ alive'[p] = w
  /\ \A i \in m..Len(alive') : i # p => obj'[alive'[i]].size = 0
(* Nothing is left but the first m - 1.                                    *)
Dropped(m) ==
  /\ KeepsFirst(m)
  /\ \A i \in m..Len(alive') : obj'[alive'[i]].size = 0

LEMMA KeepsMarks ==
  ASSUME ObjectsOK, ObjectsOK', own \in Nat, own' = own, NEW m, KeepsFirst(m)
  PROVE  \A i \in 0..m - 1 : Marks'[i] = Marks[i]
<1>1. /\ IsTops(Marks, own, alive, obj) /\ IsTops(Marks', own, alive', obj')
      /\ Len(alive) \in Nat /\ Len(alive') \in Nat
  BY MarkFacts, MarkFactsNext
<1>2. m - 1 \in Nat /\ m - 1 <= Len(alive) /\ m - 1 <= Len(alive')
  BY <1>1 DEF KeepsFirst
<1>3. \A k \in 1..m - 1 : Takes(obj[alive[k]]) = Takes(obj'[alive'[k]])
  BY DEF KeepsFirst
<1>4. own \in Int
  OBVIOUS
<1>5. \A i \in 0..m - 1 : Marks[i] = Marks'[i]
  BY ONLY SMTT(20), <1>1, <1>2, <1>3, <1>4, TopsAgree
<1> QED BY <1>5

LEMMA TakenMarks ==
  ASSUME ObjectsOK, ObjectsOK', own \in Nat, own' = own, NEW p, NEW m, NEW w, Taken(p, m, w)
  PROVE  /\ Marks'[p - 1] = Marks[m - 1] /\ Marks'[p] = Marks[m - 1] + Takes(obj'[w])
         /\ Marks'[Len(alive')] = Marks'[p]
<1>1. /\ IsTops(Marks', own', alive', obj') /\ Len(alive') \in Nat
      /\ \A k \in 1..Len(alive') : alive'[k] \in Obj
      /\ \A o \in Obj : obj'[o].size = 0 => Takes(obj'[o]) = 0
  BY MarkFactsNext
<1>2. Marks'[m - 1] = Marks[m - 1]
  BY KeepsMarks DEF Taken, KeepsFirst
<1>3. m \in Nat \ {0} /\ p \in m..Len(alive') /\ alive'[p] = w
  BY DEF Taken, KeepsFirst
<1>4. \A i \in m..Len(alive') : i # p => Takes(obj'[alive'[i]]) = 0
  BY <1>1, <1>3 DEF Taken
<1>5. Marks'[p - 1] = Marks'[m - 1]
  <2>1. PICK i \in Int : i = m - 1
    BY <1>3
  <2>2. PICK j \in Int : j = p - 1
    BY <1>1, <1>3
  <2>3. i \in 0..Len(alive') /\ j \in i..Len(alive')
        /\ \A k \in i + 1..j : Takes(obj'[alive'[k]]) = 0
    BY <1>1, <1>3, <1>4, <2>1, <2>2
  <2>4. Marks'[j] = Marks'[i]
    BY ONLY <1>1, <2>3, TopsFlat
  <2> QED BY <2>1, <2>2, <2>4
<1>6. Marks'[Len(alive')] = Marks'[p]
  <2>1. p \in 0..Len(alive') /\ Len(alive') \in p..Len(alive')
        /\ \A k \in p + 1..Len(alive') : Takes(obj'[alive'[k]]) = 0
    BY <1>1, <1>3, <1>4
  <2> QED BY ONLY <1>1, <2>1, TopsFlat
<1>7. Marks'[p] = Marks'[p - 1] + Takes(obj'[w])
  BY <1>1, <1>3 DEF IsTops, UpTo
<1> QED BY <1>2, <1>5, <1>6, <1>7

LEMMA DroppedMarks ==
  ASSUME ObjectsOK, ObjectsOK', own \in Nat, own' = own, NEW m, Dropped(m)
  PROVE  Marks'[Len(alive')] = Marks[m - 1]
<1>1. /\ IsTops(Marks', own', alive', obj') /\ Len(alive') \in Nat
      /\ \A k \in 1..Len(alive') : alive'[k] \in Obj
      /\ \A o \in Obj : obj'[o].size = 0 => Takes(obj'[o]) = 0
  BY MarkFactsNext
<1>2. Marks'[m - 1] = Marks[m - 1]
  BY KeepsMarks DEF Dropped, KeepsFirst
<1>3. m \in Nat \ {0} /\ m - 1 <= Len(alive')
  BY <1>1 DEF Dropped, KeepsFirst
<1>4. m - 1 \in 0..Len(alive') /\ Len(alive') \in m - 1..Len(alive')
      /\ \A k \in m - 1 + 1..Len(alive') : Takes(obj'[alive'[k]]) = 0
  BY <1>1, <1>3 DEF Dropped
<1>5. Marks'[Len(alive')] = Marks'[m - 1]
  BY ONLY <1>1, <1>4, TopsFlat
<1> QED BY <1>2, <1>5

(* The active object at f, with no other active one from m on, has its     *)
(* tables on those of the first m - 1 and on top of the stack.             *)
LEMMA ActiveMarks ==
  ASSUME ObjectsOK, own \in Nat, NEW f \in 1..Len(alive), NEW m \in 1..f,
         \A i \in m..Len(alive) : i # f => obj[alive[i]].size = 0
  PROVE  Marks[f - 1] = Marks[m - 1] /\ Marks[Len(alive)] = Marks[f]
         /\ Marks[f] = Marks[m - 1] + Takes(obj[alive[f]])
<1>1. /\ IsTops(Marks, own, alive, obj) /\ Len(alive) \in Nat
      /\ \A k \in 1..Len(alive) : alive[k] \in Obj
      /\ \A o \in Obj : obj[o].size = 0 => Takes(obj[o]) = 0
  BY MarkFacts
<1>2. \A i \in m..Len(alive) : i # f => Takes(obj[alive[i]]) = 0
  BY <1>1
<1>3. Marks[f - 1] = Marks[m - 1]
  <2>1. m - 1 \in 0..Len(alive) /\ f - 1 \in m - 1..Len(alive)
        /\ \A k \in m - 1 + 1..f - 1 : Takes(obj[alive[k]]) = 0
    BY <1>1, <1>2
  <2> QED BY ONLY <1>1, <2>1, TopsFlat
<1>4. Marks[Len(alive)] = Marks[f]
  <2>1. f \in 0..Len(alive) /\ Len(alive) \in f..Len(alive)
        /\ \A k \in f + 1..Len(alive) : Takes(obj[alive[k]]) = 0
    BY <1>1, <1>2
  <2> QED BY ONLY <1>1, <2>1, TopsFlat
<1>5. Marks[f] = Marks[f - 1] + Takes(obj[alive[f]])
  BY <1>1 DEF IsTops, UpTo
<1> QED BY <1>3, <1>4, <1>5

(* With no active object from m on, the stack ends with the first m - 1.   *)
LEMMA IdleMarks ==
  ASSUME ObjectsOK, own \in Nat, NEW m \in 1..Len(alive) + 1,
         \A i \in m..Len(alive) : obj[alive[i]].size = 0
  PROVE  Marks[Len(alive)] = Marks[m - 1]
<1>1. /\ IsTops(Marks, own, alive, obj) /\ Len(alive) \in Nat
      /\ \A k \in 1..Len(alive) : alive[k] \in Obj
      /\ \A o \in Obj : obj[o].size = 0 => Takes(obj[o]) = 0
  BY MarkFacts
<1>2. m - 1 \in 0..Len(alive) /\ Len(alive) \in m - 1..Len(alive)
      /\ \A k \in m - 1 + 1..Len(alive) : Takes(obj[alive[k]]) = 0
  BY <1>1
<1> QED BY ONLY <1>1, <1>2, TopsFlat
-----------------------------------------------------------------------------
(* What a move does to the objects.                                        *)

LEMMA LivingAt ==
  ASSUME ObjectsOK, NEW o
  PROVE  /\ Living(o) <=> \E i \in 1..Len(alive) : alive[i] = o
         /\ \A f \in 1..Len(alive), i \in 1..Len(alive) :
               alive[f] = o /\ i > f => alive[i] \in Younger(o)
<1>1. DOMAIN alive = 1..Len(alive) /\ Len(alive) \in Nat
  BY DEF ObjectsOK
<1>2. Living(o) <=> \E i \in 1..Len(alive) : alive[i] = o
  BY <1>1 DEF Living, Range
<1>3. ASSUME NEW f \in 1..Len(alive), NEW i \in 1..Len(alive), alive[f] = o, i > f
      PROVE  alive[i] \in Younger(o)
  <2>1. f \in 1..i - 1
    BY <1>1, <1>3
  <2> QED BY <1>1, <1>3, <2>1 DEF Younger
<1> QED BY <1>2, <1>3

Moved(o, w, kind, n, skip) ==
  /\ ObjectsOK'
  /\ obj'[w] = [kind |-> kind, size |-> n, skip |-> skip]
  /\ o # w => obj'[o].size = 0
  /\ \A x \in Obj \ {o, w} : obj'[x] = obj[x]
  /\ \A i \in 1..Len(alive) : i \in 1..Len(alive') /\ alive'[i] = alive[i]
  /\ Living(w) => alive' = alive
  /\ ~Living(w) => Len(alive') = Len(alive) + 1 /\ alive'[Len(alive) + 1] = w

LEMMA MovedObjects ==
  ASSUME ObjectsOK, NEW o \in Obj, NEW w \in Obj,
         NEW kind \in {"ns", "class", "table"}, NEW n \in Nat \ {0}, NEW skip \in 0..1,
         o = w \/ Living(o), Move(o, w, kind, n, skip)
  PROVE  Moved(o, w, kind, n, skip)
<1>1. obj \in [Obj -> Objects] /\ alive \in Seq(Obj) /\ Len(alive) \in Nat
      /\ DOMAIN alive = 1..Len(alive)
  BY DEF ObjectsOK
<1> DEFINE moved == [obj EXCEPT ![o].size = 0, ![o].skip = 0]
           new == [kind |-> kind, size |-> n, skip |-> skip]
<1>2. /\ moved \in [Obj -> Objects] /\ moved[o].size = 0 /\ moved[o].skip = 0
      /\ \A x \in Obj \ {o} : moved[x] = obj[x]
  <2>1. moved = [obj EXCEPT ![o] = [[obj[o] EXCEPT !.size = 0] EXCEPT !.skip = 0]]
    BY <1>1
  <2>2. obj[o] \in Objects
    BY <1>1
  <2>3. \A x \in Objects : [[x EXCEPT !.size = 0] EXCEPT !.skip = 0] \in Objects
                           /\ [[x EXCEPT !.size = 0] EXCEPT !.skip = 0].size = 0
                           /\ [[x EXCEPT !.size = 0] EXCEPT !.skip = 0].skip = 0
    <3>1. \A x \in Objects : [x EXCEPT !.size = 0] \in Objects /\ [x EXCEPT !.size = 0].size = 0
      BY DEF Objects
    <3>2. \A x \in Objects : /\ [x EXCEPT !.skip = 0] \in Objects
                             /\ [x EXCEPT !.skip = 0].size = x.size
                             /\ [x EXCEPT !.skip = 0].skip = 0
      BY DEF Objects
    <3> QED BY <3>1, <3>2
  <2> HIDE DEF moved
  <2> QED BY <1>1, <2>1, <2>2, <2>3
<1> HIDE DEF moved
<1>3. new \in Objects
  BY DEF Objects
<1>4. obj' = [moved EXCEPT ![w] = new]
  BY DEF Move, moved
<1>5. /\ obj' \in [Obj -> Objects] /\ obj'[w] = new
      /\ o # w => obj'[o].size = 0 /\ obj'[o].skip = 0
      /\ \A x \in Obj \ {o, w} : obj'[x] = obj[x]
  BY <1>2, <1>3, <1>4
<1>6. /\ alive' \in Seq(Obj) /\ \A i \in 1..Len(alive) : i \in 1..Len(alive') /\ alive'[i] = alive[i]
      /\ Living(w) => alive' = alive
      /\ ~Living(w) => Len(alive') = Len(alive) + 1 /\ alive'[Len(alive) + 1] = w
  <2>1. CASE Living(w)
    BY <1>1, <2>1 DEF Move
  <2>2. CASE ~Living(w)
    <3>1. alive' = Append(alive, w)
      BY <2>2 DEF Move
    <3>2. /\ Append(alive, w) \in Seq(Obj) /\ Len(Append(alive, w)) = Len(alive) + 1
          /\ \A i \in 1..Len(alive) : Append(alive, w)[i] = alive[i]
          /\ Append(alive, w)[Len(alive) + 1] = w
      BY <1>1, AppendProperties
    <3>3. \A i \in 1..Len(alive) : i \in 1..Len(alive) + 1
      BY <1>1
    <3> QED BY ONLY <2>2, <3>1, <3>2, <3>3
  <2> QED BY <2>1, <2>2
<1>7. DOMAIN alive' = 1..Len(alive') /\ Len(alive') \in Nat
  BY <1>6
<1>8. ASSUME NEW i \in DOMAIN alive', NEW j \in DOMAIN alive', alive'[i] = alive'[j]
      PROVE  i = j
  <2>1. CASE Living(w)
    BY <1>6, <1>8, <2>1 DEF ObjectsOK
  <2>2. CASE ~Living(w)
    <3>1. \A k \in 1..Len(alive) : alive'[k] # w
      BY <1>6, <2>2, LivingAt
    <3>2. \A k \in DOMAIN alive' : k \in 1..Len(alive) \/ k = Len(alive) + 1
      BY <1>1, <1>6, <1>7, <2>2
    <3>3. CASE i \in 1..Len(alive) /\ j \in 1..Len(alive)
      BY <1>1, <1>6, <1>8, <3>3 DEF ObjectsOK
    <3> QED BY <1>6, <1>8, <2>2, <3>1, <3>2, <3>3
  <2> QED BY <2>1, <2>2
<1>9. \A x \in Obj : obj'[x].size = 0 => obj'[x].skip = 0
  BY <1>5 DEF ObjectsOK
<1>10. ASSUME NEW x \in Obj, ~Living(x)'
       PROVE  obj'[x] = Empty
  <2>1. \A i \in 1..Len(alive') : alive'[i] # x
    BY <1>7, <1>10 DEF Living, Range
  <2>2. \E i \in 1..Len(alive') : alive'[i] = w
    <3>1. CASE Living(w)
      BY <1>6, <3>1, LivingAt
    <3>2. CASE ~Living(w)
      BY <1>1, <1>6, <3>2
    <3> QED BY <3>1, <3>2
  <2>3. ~Living(x)
    BY <1>6, <2>1, LivingAt
  <2>4. x # w /\ x # o
    BY <2>1, <2>2, <2>3
  <2> QED BY <1>5, <2>3, <2>4 DEF ObjectsOK
<1>11. ObjectsOK'
  BY <1>5, <1>6, <1>8, <1>9, <1>10 DEF ObjectsOK
<1> QED BY <1>5, <1>6, <1>11 DEF Moved

(* An object opens or closes tables on those of its chain and hands them   *)
(* over to w.                                                              *)
LEMMA HandedOver ==
  ASSUME ObjectsOK, NEW o \in Obj, NEW w \in Obj,
         NEW kind \in {"ns", "class", "table"}, NEW n \in Nat \ {0}, NEW skip \in 0..1,
         Innermost(o), Move(o, w, kind, n, skip)
  PROVE  \E f \in 1..Len(alive), p \in 1..Len(alive') : \E m \in 1..f :
            /\ Taken(p, m, w) /\ alive[f] = o
            /\ \A i \in m..Len(alive) : i # f => obj[alive[i]].size = 0
<1>1. Len(alive) \in Nat /\ DOMAIN alive = 1..Len(alive) /\ alive \in Seq(Obj)
      /\ \A i, j \in 1..Len(alive) : alive[i] = alive[j] => i = j
      /\ \A x \in Obj : ~Active(x) => obj[x].size = 0
  BY DEF ObjectsOK, Active, Objects
<1>2. Living(o)
  BY DEF Innermost
<1>3. PICK f \in 1..Len(alive) : alive[f] = o
  BY <1>2, LivingAt
<1>4. /\ ObjectsOK'
      /\ o # w => obj'[o].size = 0
      /\ \A x \in Obj \ {o, w} : obj'[x] = obj[x]
      /\ \A i \in 1..Len(alive) : i \in 1..Len(alive') /\ alive'[i] = alive[i]
      /\ Living(w) => alive' = alive
      /\ ~Living(w) => Len(alive') = Len(alive) + 1 /\ alive'[Len(alive) + 1] = w
  <2>1. o = w \/ Living(o)
    BY <1>2
  <2>2. Moved(o, w, kind, n, skip)
    BY <2>1, MovedObjects
  <2> QED BY <2>2 DEF Moved
<1>5. \A i \in 1..Len(alive) : i > f => obj[alive[i]].size = 0
  <2>1. \A i \in 1..Len(alive) : i > f => alive[i] \in Younger(o)
    BY <1>3, LivingAt
  <2> QED BY <1>1, <2>1 DEF Innermost
<1>6. CASE ~Living(w)
  <2> DEFINE p == Len(alive) + 1
  <2>1. p \in 1..Len(alive') /\ alive'[p] = w /\ Len(alive') = p
    BY <1>1, <1>4, <1>6
  <2>2. \A i \in 1..Len(alive) : alive[i] # w
    BY <1>6, LivingAt
  <2>3. KeepsFirst(f)
    <3>1. \A i \in 1..f - 1 : i \in 1..Len(alive) /\ alive[i] \in Obj \ {o, w}
      BY <1>1, <1>3, <2>2
    <3> QED BY <1>1, <1>3, <1>4, <2>1, <3>1 DEF KeepsFirst
  <2>4. \A i \in f..Len(alive') : i # p => obj'[alive'[i]].size = 0
    <3>1. TAKE i \in f..Len(alive')
    <3>2. HAVE i # p
    <3>3. i \in 1..Len(alive) /\ alive'[i] = alive[i]
      BY <1>1, <1>3, <1>4, <2>1, <3>2
    <3>4. CASE i = f
      BY <1>3, <1>4, <2>2, <3>3, <3>4
    <3>5. CASE i # f
      BY <1>1, <1>3, <1>4, <1>5, <2>2, <3>3, <3>5
    <3> QED BY <3>4, <3>5
  <2>5. Taken(p, f, w)
    BY <1>1, <1>3, <2>1, <2>3, <2>4 DEF Taken
  <2>6. \A i \in f..Len(alive) : i # f => obj[alive[i]].size = 0
    BY <1>1, <1>5
  <2> QED BY <1>1, <1>3, <2>1, <2>5, <2>6
<1>7. CASE Living(w)
  <2>1. alive' = alive
    BY <1>4, <1>7
  <2>2. PICK p \in 1..Len(alive) : alive[p] = w
    BY <1>7, LivingAt
  <2>3. w = o \/ obj[w].size = 0
    BY <1>1, <1>7 DEF Move, MayReceive
  <2>4. \A i \in 1..Len(alive) : i > p => alive[i] = o \/ obj[alive[i]].size = 0
    <3>1. \A i \in 1..Len(alive) : i > p => alive[i] \in Younger(w)
      BY <2>2, LivingAt
    <3> QED BY <1>1, <1>7, <3>1 DEF Move, MayReceive
  <2>5. PICK m \in 1..Len(alive) : m <= f /\ m <= p /\ (m = f \/ m = p)
    BY <1>1, <1>3, <2>2
  <2>6. \A i \in m..Len(alive) : i # f => obj[alive[i]].size = 0
    <3>1. TAKE i \in m..Len(alive)
    <3>2. HAVE i # f
    <3>3. i \in 1..Len(alive) /\ alive[i] # o
      BY <1>1, <1>3, <3>2, <2>5
    <3>4. CASE m = f
      BY <1>1, <1>5, <3>2, <3>3, <3>4
    <3>5. CASE m = p /\ i = p
      BY <2>2, <2>3, <3>3, <3>5
    <3>6. CASE m = p /\ i # p
      BY <1>1, <2>4, <3>3, <3>6
    <3> QED BY <2>5, <3>4, <3>5, <3>6
  <2>7. \A i \in m..Len(alive') : i # p => obj'[alive'[i]].size = 0
    <3>1. TAKE i \in m..Len(alive')
    <3>2. HAVE i # p
    <3>3. i \in 1..Len(alive) /\ alive'[i] = alive[i] /\ alive[i] # w /\ alive[i] \in Obj
      BY <1>1, <2>1, <2>2, <2>5, <3>2
    <3>4. CASE i = f
      BY <1>3, <1>4, <3>3, <3>4
    <3>5. CASE i # f
      <4>1. alive[i] # o
        BY <1>1, <1>3, <3>3, <3>5
      <4> QED BY <1>4, <2>1, <2>6, <3>3, <3>5, <4>1
    <3> QED BY <3>4, <3>5
  <2>8. KeepsFirst(m)
    <3>1. \A i \in 1..m - 1 : i \in 1..Len(alive) /\ i # f /\ i # p
      BY <1>1, <2>5
    <3>2. \A i \in 1..m - 1 : alive[i] \in Obj \ {o, w}
      BY <1>1, <1>3, <2>2, <3>1
    <3>3. m \in Nat \ {0} /\ m <= Len(alive) + 1 /\ m <= Len(alive') + 1
      BY <1>1, <2>1, <2>5
    <3> QED BY <1>4, <2>1, <3>2, <3>3 DEF KeepsFirst
  <2>9. Taken(p, m, w)
    BY <1>1, <2>1, <2>2, <2>5, <2>7, <2>8 DEF Taken
  <2> QED BY <1>1, <1>3, <2>1, <2>2, <2>5, <2>6, <2>9
<1> QED BY <1>6, <1>7

(* An object that counted nothing starts to count.                         *)
LEMMA Started ==
  ASSUME ObjectsOK, NEW w \in Obj, NEW skip \in 0..1, Move(w, w, "ns", 1, skip), ~Active(w)
  PROVE  \E p \in 1..Len(alive') :
            /\ Taken(p, p, w) /\ p <= Len(alive) + 1
            /\ \A i \in p..Len(alive) : obj[alive[i]].size = 0
<1>1. Len(alive) \in Nat /\ DOMAIN alive = 1..Len(alive) /\ alive \in Seq(Obj)
      /\ \A i, j \in 1..Len(alive) : alive[i] = alive[j] => i = j
      /\ \A x \in Obj : ~Active(x) => obj[x].size = 0
  BY DEF ObjectsOK, Active, Objects
<1>2. /\ \A x \in Obj \ {w} : obj'[x] = obj[x]
      /\ \A i \in 1..Len(alive) : i \in 1..Len(alive') /\ alive'[i] = alive[i]
      /\ Living(w) => alive' = alive
      /\ ~Living(w) => Len(alive') = Len(alive) + 1 /\ alive'[Len(alive) + 1] = w
  <2>1. "ns" \in {"ns", "class", "table"} /\ 1 \in Nat \ {0}
    OBVIOUS
  <2>2. Moved(w, w, "ns", 1, skip)
    BY <2>1, MovedObjects
  <2> QED BY <2>2 DEF Moved
<1>3. CASE ~Living(w)
  <2> DEFINE p == Len(alive) + 1
  <2>1. p \in 1..Len(alive') /\ alive'[p] = w /\ Len(alive') = p
    BY <1>1, <1>2, <1>3
  <2>2. \A i \in 1..Len(alive) : alive[i] # w
    BY <1>3, LivingAt
  <2>3. KeepsFirst(p)
    <3>1. \A i \in 1..p - 1 : i \in 1..Len(alive) /\ alive[i] \in Obj \ {w}
      BY <1>1, <2>2
    <3> QED BY <1>1, <1>2, <2>1, <3>1 DEF KeepsFirst
  <2>4. Taken(p, p, w)
    BY <1>1, <2>1, <2>3 DEF Taken
  <2> QED BY <1>1, <2>1, <2>4
<1>4. CASE Living(w)
  <2>1. alive' = alive
    BY <1>2, <1>4
  <2>2. PICK p \in 1..Len(alive) : alive[p] = w
    BY <1>4, LivingAt
  <2>3. \A i \in 1..Len(alive) : i > p => obj[alive[i]].size = 0
    <3>1. \A i \in 1..Len(alive) : i > p => alive[i] \in Younger(w)
      BY <2>2, LivingAt
    <3>2. \A i \in 1..Len(alive) : i > p => alive[i] # w
      BY <1>1, <2>2
    <3> QED BY <1>1, <1>4, <3>1, <3>2 DEF Move, MayReceive
  <2>4. obj[w].size = 0
    BY <1>1
  <2>5. \A i \in p..Len(alive) : obj[alive[i]].size = 0
    BY <1>1, <2>2, <2>3, <2>4
  <2>6. \A i \in 1..Len(alive) : i # p => alive[i] \in Obj \ {w}
    BY <1>1, <2>2
  <2>7. KeepsFirst(p) /\ \A i \in p..Len(alive') : i # p => obj'[alive'[i]].size = 0
    <3>1. p \in Nat \ {0} /\ p <= Len(alive) + 1 /\ p <= Len(alive') + 1
      BY <1>1, <2>1
    <3>2. \A i \in 1..p - 1 : i \in 1..Len(alive) /\ i # p
      BY <1>1
    <3>3. KeepsFirst(p)
      BY <1>2, <2>1, <2>6, <3>1, <3>2 DEF KeepsFirst
    <3>4. \A i \in p..Len(alive') : i # p => i \in 1..Len(alive)
      BY SMTT(30), <1>1, <2>1
    <3> QED BY <1>2, <2>1, <2>5, <2>6, <3>3, <3>4
  <2> QED BY <1>1, <2>1, <2>2, <2>5, <2>7 DEF Taken
<1> QED BY <1>3, <1>4
-----------------------------------------------------------------------------
(* Chains.                                                                 *)

(* The tables keep their parts, and every one on stack s but the last of a *)
(* chain keeps the fields that lead to another one on s.                   *)
Kept(s, h, r, g, q) ==
  /\ \A t \in DOMAIN h : t \in DOMAIN g /\ g[t].part = h[t].part
  /\ \A j \in 1..Len(s) - 1, k \in Name \union Class :
        h[s[j]].field[k] \in {s[i] : i \in 1..Len(s)} /\ h[s[j + 1]].part # "mt"
          => g[s[j]].field[k] = h[s[j]].field[k]
  /\ \A c \in Class : r[c] # <<>> => q[c] = r[c]

LEMMA LinkedKept ==
  ASSUME NEW h, NEW r, NEW g, NEW q, NEW s \in Seq(DOMAIN h), Kept(s, h, r, g, q),
         NEW z, NEW b \in 1..Len(s), \A i \in 1..b : z[i] = s[i],
         NEW j \in 2..b, Linked(h, r, s, j, b)
  PROVE  Linked(g, q, z, j, b)
<1>1. Len(s) \in Nat /\ j \in 1..Len(s) /\ j - 1 \in 1..Len(s) - 1 /\ j - 1 \in 1..b
      /\ j \in 1..b /\ (j - 1) + 1 = j /\ \A i \in 1..Len(s) : s[i] \in DOMAIN h
  OBVIOUS
<1>2. z[j] = s[j] /\ z[j - 1] = s[j - 1]
  BY <1>1
<1>3. g[s[j]].part = h[s[j]].part /\ g[s[j - 1]].part = h[s[j - 1]].part
  BY <1>1 DEF Kept
<1>4. ASSUME NEW k \in Name \union Class, NEW i \in 1..Len(s), h[s[j - 1]].field[k] = s[i],
             h[s[j]].part # "mt"
      PROVE  g[s[j - 1]].field[k] = s[i]
  BY <1>1, <1>4 DEF Kept
<1>5. CASE h[s[j]].part \in {"ns", "tb"} /\ \E n \in Name : h[s[j - 1]].field[n] = s[j]
  <2>1. PICK n \in Name : h[s[j - 1]].field[n] = s[j]
    BY <1>5
  <2>2. g[s[j - 1]].field[n] = s[j]
    BY <1>1, <1>4, <1>5, <2>1
  <2> QED BY <1>2, <1>3, <1>5, <2>2 DEF Linked
<1>6. CASE /\ h[s[j]].part = "co" /\ j + 2 = b /\ h[s[b]].part = "st"
           /\ \E c \in Class : r[c] = <<s[j], s[j + 1], s[j + 2]>>
                              /\ h[s[j - 1]].field[c] = s[j + 2]
  <2>1. PICK c \in Class : r[c] = <<s[j], s[j + 1], s[j + 2]>> /\ h[s[j - 1]].field[c] = s[j + 2]
    BY <1>6
  <2>2. j + 1 \in 1..b /\ j + 2 \in 1..b /\ j + 2 \in 1..Len(s)
    BY <1>6
  <2>3. z[j + 1] = s[j + 1] /\ z[j + 2] = s[j + 2]
    BY <2>2
  <2>4. g[s[j - 1]].field[c] = s[j + 2]
    BY <1>4, <1>6, <2>1, <2>2
  <2>5. q[c] = r[c]
    <3>1. r[c] # <<>>
      BY <2>1
    <3> QED BY <3>1 DEF Kept
  <2>6. g[s[b]].part = "st"
    BY <1>6 DEF Kept
  <2> QED BY <1>2, <1>3, <1>6, <2>1, <2>3, <2>4, <2>5, <2>6 DEF Linked
<1>7. CASE h[s[j]].part \in {"cl", "st", "mt"} /\ Linked(h, r, s, j, b)
  BY <1>2, <1>3, <1>7 DEF Linked
<1> QED BY <1>5, <1>6, <1>7 DEF Linked

LEMMA ChainKept ==
  ASSUME NEW h, NEW r, NEW g, NEW q, NEW s \in Seq(DOMAIN h), Kept(s, h, r, g, q),
         NEW x, x.size \in Nat, NEW a, NEW b, ChainAt(h, r, s, x, a, b),
         NEW z, b <= Len(z), \A i \in 1..b : z[i] = s[i]
  PROVE  ChainAt(g, q, z, x, a, b)
<1>1. a \in Nat /\ b \in 1..Len(s) /\ a + 1 \in 1..b /\ b \in 1..b /\ b = a + x.size
  BY DEF ChainAt
<1>2. z[a + 1] = s[a + 1] /\ z[b] = s[b]
  BY <1>1
<1>3. g[s[a + 1]].part = h[s[a + 1]].part /\ g[s[b]].part = h[s[b]].part
  <2>1. s[a + 1] \in DOMAIN h /\ s[b] \in DOMAIN h
    BY <1>1
  <2> QED BY <2>1 DEF Kept
<1>4. \A j \in a + 2..b : Linked(g, q, z, j, b)
  <2>1. TAKE j \in a + 2..b
  <2>2. j \in 2..b /\ Linked(h, r, s, j, b)
    BY <1>1 DEF ChainAt
  <2>3. s \in Seq(DOMAIN h) /\ Kept(s, h, r, g, q) /\ \A i \in 1..b : z[i] = s[i]
    OBVIOUS
  <2> QED BY ONLY SMTT(20), <1>1, <2>2, <2>3, LinkedKept
<1>5. x.kind = "table" => \A j \in 1..b - 2 : z[j] # z[b - 1]
  <2>1. \A j \in 1..b - 2 : j \in 1..b /\ b - 1 \in 1..b
    BY SMTT(20), <1>1
  <2> QED BY <2>1 DEF ChainAt
<1> QED BY <1>1, <1>2, <1>3, <1>4, <1>5 DEF ChainAt

(* What becomes of the chains of the first m - 1 objects.                  *)
LEMMA FirstKept ==
  ASSUME IInv, ObjectsOK', own' = own, NEW m, KeepsFirst(m),
         Kept(stack, heap, registered, heap', registered'),
         \A i \in 1..Marks[m - 1] : stack'[i] = stack[i], Marks[m - 1] <= Len(stack')
  PROVE  \A i \in 1..m - 1 :
            LET x == obj'[alive'[i]]
            IN  x.size > 0 => ChainAt(heap', registered', stack', x, Marks'[i - 1] - x.skip,
                                      Marks'[i])
<1>1. ObjectsOK /\ own \in Nat /\ stack \in Seq(DOMAIN heap)
  BY DEF IInv, TypeOK
<1>2. /\ Len(alive) \in Nat /\ DOMAIN alive = 1..Len(alive)
      /\ \A k \in 1..Len(alive) : alive[k] \in Obj
      /\ \A o \in Obj : obj[o].size \in Nat
      /\ \A i \in 0..Len(alive) : Marks[i] \in Nat
      /\ \A i \in 0..Len(alive) : \A j \in i..Len(alive) : Marks[i] <= Marks[j]
  BY <1>1, MarkFacts
<1>3. m \in Nat \ {0} /\ m <= Len(alive) + 1
  BY DEF KeepsFirst
<1>4. \A i \in 0..m - 1 : Marks'[i] = Marks[i]
  BY <1>1, KeepsMarks
<1>5. TAKE i \in 1..m - 1
<1> DEFINE x == obj[alive[i]]
<1>6. obj'[alive'[i]] = x
  BY DEF KeepsFirst
<1>7. i \in DOMAIN alive /\ i \in 0..m - 1 /\ i - 1 \in 0..m - 1 /\ alive[i] \in Obj
  BY <1>2, <1>3
<1>8. Marks'[i] = Marks[i] /\ Marks'[i - 1] = Marks[i - 1]
  BY <1>4, <1>7
<1>9. Marks[i] <= Marks[m - 1] /\ Marks[i] \in Nat /\ Marks[m - 1] \in Nat
  <2>1. i \in 0..Len(alive) /\ m - 1 \in i..Len(alive) /\ m - 1 \in 0..Len(alive)
    BY <1>2, <1>3
  <2> QED BY <1>2, <2>1
<1>10. SUFFICES ASSUME x.size > 0
                PROVE  ChainAt(heap', registered', stack', x, Marks[i - 1] - x.skip, Marks[i])
  BY <1>6, <1>8
<1>11. ChainAt(heap, registered, stack, x, Marks[i - 1] - x.skip, Marks[i])
  BY <1>7, <1>10 DEF IInv, Chained, Active
<1>12. Marks[i] <= Len(stack') /\ \A j \in 1..Marks[i] : stack'[j] = stack[j]
  BY <1>9
<1>13. x.size \in Nat
  BY <1>2, <1>7
<1> HIDE DEF x
<1> QED BY ONLY <1>1, <1>11, <1>12, <1>13, ChainKept,
           Kept(stack, heap, registered, heap', registered')

LEMMA TakenChains ==
  ASSUME IInv, ObjectsOK', own' = own, NEW p, NEW m, NEW w, Taken(p, m, w), stack' \in Seq(Nat),
         Kept(stack, heap, registered, heap', registered'),
         \A i \in 1..Marks[m - 1] : stack'[i] = stack[i], Marks[m - 1] <= Len(stack'),
         Len(stack') = Marks[m - 1] + Takes(obj'[w]),
         ChainAt(heap', registered', stack', obj'[w], Marks[m - 1] - obj'[w].skip, Len(stack'))
  PROVE  Chained' /\ Len(stack') = Marks'[Len(alive')]
<1>1. ObjectsOK /\ own \in Nat
  BY DEF IInv, TypeOK
<1>2. /\ Marks'[p - 1] = Marks[m - 1] /\ Marks'[p] = Marks[m - 1] + Takes(obj'[w])
      /\ Marks'[Len(alive')] = Marks'[p]
  BY <1>1, TakenMarks
<1>3. KeepsFirst(m) /\ m \in Nat \ {0} /\ p \in m..Len(alive') /\ alive'[p] = w
      /\ \A i \in m..Len(alive') : i # p => obj'[alive'[i]].size = 0
  BY DEF Taken, KeepsFirst
<1>4. \A i \in 1..m - 1 :
        LET x == obj'[alive'[i]]
        IN  x.size > 0 => ChainAt(heap', registered', stack', x, Marks'[i - 1] - x.skip, Marks'[i])
  BY <1>3, FirstKept
<1>5. DOMAIN alive' = 1..Len(alive') /\ Len(alive') \in Nat
  BY <1>1, MarkFactsNext
<1>6. \A i \in DOMAIN alive' :
        LET x == obj'[alive'[i]]
        IN  x.size > 0 => ChainAt(heap', registered', stack', x, Marks'[i - 1] - x.skip, Marks'[i])
  <2>1. TAKE i \in DOMAIN alive'
  <2>2. CASE i \in 1..m - 1
    BY <1>4, <2>2
  <2>3. CASE i = p
    BY <1>2, <1>3, <2>3
  <2>4. CASE i \in m..Len(alive') /\ i # p
    BY <1>3, <2>4
  <2> QED BY <1>3, <1>5, <2>2, <2>3, <2>4
<1>7. Chained'
  BY <1>6 DEF Chained, Active
<1> QED BY <1>2, <1>7

LEMMA DroppedChains ==
  ASSUME IInv, ObjectsOK', own' = own, NEW m, Dropped(m), stack' \in Seq(Nat),
         Kept(stack, heap, registered, heap', registered'),
         \A i \in 1..Marks[m - 1] : stack'[i] = stack[i], Len(stack') = Marks[m - 1]
  PROVE  Chained' /\ Len(stack') = Marks'[Len(alive')]
<1>1. ObjectsOK /\ own \in Nat
  BY DEF IInv, TypeOK
<1>2. Marks'[Len(alive')] = Marks[m - 1]
  BY <1>1, DroppedMarks
<1>3. KeepsFirst(m) /\ m \in Nat \ {0}
      /\ \A i \in m..Len(alive') : obj'[alive'[i]].size = 0
  BY DEF Dropped, KeepsFirst
<1>4. Marks[m - 1] <= Len(stack')
  <2>1. Len(stack') \in Nat
    OBVIOUS
  <2> QED BY <2>1
<1>5. \A i \in 1..m - 1 :
        LET x == obj'[alive'[i]]
        IN  x.size > 0 => ChainAt(heap', registered', stack', x, Marks'[i - 1] - x.skip, Marks'[i])
  BY <1>3, <1>4, FirstKept
<1>6. DOMAIN alive' = 1..Len(alive') /\ Len(alive') \in Nat
  BY <1>1, MarkFactsNext
<1>7. \A i \in DOMAIN alive' :
        LET x == obj'[alive'[i]]
        IN  x.size > 0 => ChainAt(heap', registered', stack', x, Marks'[i - 1] - x.skip, Marks'[i])
  <2>1. TAKE i \in DOMAIN alive'
  <2>2. CASE i \in 1..m - 1
    BY <1>5, <2>2
  <2>3. CASE i \in m..Len(alive')
    BY <1>3, <2>3
  <2> QED BY <1>3, <1>6, <2>2, <2>3
<1>8. Chained'
  BY <1>7 DEF Chained, Active
<1> QED BY <1>2, <1>8

(* The object in use has its tables on top of the stack.                   *)
LEMMA OnTop ==
  ASSUME IInv, NEW o \in Obj, Innermost(o)
  PROVE  /\ ChainAt(heap, registered, stack, obj[o], Len(stack) - obj[o].size, Len(stack))
         /\ Len(stack) \in Nat /\ obj[o].size \in Nat \ {0} /\ obj[o].skip \in 0..1
<1>1. ObjectsOK /\ own \in Nat /\ stack \in Seq(DOMAIN heap) /\ Len(stack) = Marks[Len(alive)]
  BY DEF IInv, TypeOK
<1>2. /\ Len(alive) \in Nat /\ DOMAIN alive = 1..Len(alive)
      /\ obj[o].size \in Nat /\ obj[o].skip \in 0..1
      /\ \A i \in 0..Len(alive) : Marks[i] \in Nat
      /\ \A k \in 1..Len(alive) : alive[k] \in Obj
      /\ \A x \in Obj : obj[x].size \in Nat
  BY <1>1, MarkFacts
<1>3. Living(o) /\ Active(o) /\ \A x \in Younger(o) : ~Active(x)
  BY DEF Innermost
<1>4. PICK f \in 1..Len(alive) : alive[f] = o
  BY <1>1, <1>3, LivingAt
<1>5. \A i \in f..Len(alive) : i # f => obj[alive[i]].size = 0
  <2>1. TAKE i \in f..Len(alive)
  <2>2. HAVE i # f
  <2>3. i \in 1..Len(alive) /\ i > f
    BY <1>2, <2>2
  <2>4. alive[i] \in Younger(o)
    BY <1>1, <1>4, <2>3, LivingAt
  <2> QED BY <1>2, <1>3, <2>3, <2>4 DEF Active
<1>6. Marks[Len(alive)] = Marks[f] /\ Marks[f] = Marks[f - 1] + Takes(obj[o])
  <2>1. f \in 1..f
    BY <1>2
  <2> QED BY <1>1, <1>4, <1>5, <2>1, ActiveMarks
<1>7. ChainAt(heap, registered, stack, obj[o], Marks[f - 1] - obj[o].skip, Marks[f])
  BY <1>2, <1>3, <1>4 DEF IInv, Chained
<1>8. Marks[f - 1] - obj[o].skip = Len(stack) - obj[o].size
  <2>1. f - 1 \in 0..Len(alive) /\ f \in 0..Len(alive)
    BY <1>2
  <2>2. Marks[f - 1] \in Nat /\ Marks[f] \in Nat
    BY <1>2, <2>1
  <2> QED BY ONLY SMTT(30), <1>1, <1>2, <1>6, <2>2 DEF Takes
<1>9. obj[o].size \in Nat \ {0}
  BY <1>2, <1>3 DEF Active
<1> QED BY <1>1, <1>2, <1>6, <1>7, <1>8, <1>9

(* The object in use keeps the tables up to a and gets n above it, for w.  *)
LEMMA Rebased ==
  ASSUME IInv, NEW o \in Obj, NEW w \in Obj, Innermost(o),
         NEW kind \in {"ns", "class", "table"}, NEW n \in Nat \ {0},
         Move(o, w, kind, n, obj[o].skip), own' = own, stack' \in Seq(Nat),
         Kept(stack, heap, registered, heap', registered'),
         NEW a, a = Len(stack) - obj[o].size,
         Len(stack') = a + n, \A i \in 1..a + 1 : stack'[i] = stack[i],
         ChainAt(heap', registered', stack', [kind |-> kind, size |-> n, skip |-> obj[o].skip],
                 a, a + n)
  PROVE  ObjectsOK' /\ Chained' /\ Len(stack') = Marks'[Len(alive')]
<1>1. ObjectsOK /\ own \in Nat /\ Len(stack) = Marks[Len(alive)]
  BY DEF IInv, TypeOK
<1>2. /\ Len(stack) \in Nat /\ obj[o].size \in Nat \ {0} /\ obj[o].skip \in 0..1
      /\ a \in Nat
  <2>1. ChainAt(heap, registered, stack, obj[o], a, Len(stack))
    BY OnTop
  <2> QED BY <2>1, OnTop DEF ChainAt
<1> DEFINE skip == obj[o].skip
<1> HIDE DEF skip
<1>3. Move(o, w, kind, n, skip) /\ skip \in 0..1 /\ Living(o)
  BY <1>2 DEF skip, Innermost
<1>4. Moved(o, w, kind, n, skip)
  <2>1. o = w \/ Living(o)
    BY <1>3
  <2> QED BY <1>1, <1>3, <2>1, MovedObjects
<1>5. ObjectsOK' /\ obj'[w] = [kind |-> kind, size |-> n, skip |-> skip]
  BY <1>4 DEF Moved
<1>6. PICK f \in 1..Len(alive), p \in 1..Len(alive') : \E m \in 1..f :
         /\ Taken(p, m, w) /\ alive[f] = o
         /\ \A i \in m..Len(alive) : i # f => obj[alive[i]].size = 0
  BY <1>1, <1>3, HandedOver
<1>7. PICK m \in 1..f : /\ Taken(p, m, w) /\ alive[f] = o
                        /\ \A i \in m..Len(alive) : i # f => obj[alive[i]].size = 0
  BY <1>6
<1>8. Marks[Len(alive)] = Marks[f] /\ Marks[f] = Marks[m - 1] + Takes(obj[o])
  BY <1>1, <1>7, ActiveMarks
<1>9. Marks[m - 1] \in Nat
  <2>1. m - 1 \in 0..Len(alive)
    BY SMTT(20), <1>1, MarkFacts
  <2> QED BY <1>1, <2>1, MarkFacts
<1>10. Takes(obj[o]) = obj[o].size - skip /\ Takes(obj'[w]) = n - skip
  BY <1>5 DEF Takes, skip
<1>11. a = Marks[m - 1] - skip
  <2>1. PICK M \in Nat : M = Marks[m - 1]
    BY <1>9
  <2>2. PICK z \in Nat : z = obj[o].size
    BY <1>2
  <2>3. PICK l \in Nat : l = Len(stack)
    BY <1>2
  <2>4. a = l - z
    BY <2>2, <2>3
  <2>5. l = M + (z - skip)
    <3>1. Len(stack) = Marks[m - 1] + Takes(obj[o])
      BY <1>1, <1>8
    <3> QED BY ONLY <1>10, <2>1, <2>2, <2>3, <3>1
  <2>6. a = M - skip
    BY ONLY <1>3, <2>4, <2>5, M \in Nat, z \in Nat
  <2> QED BY ONLY <2>1, <2>6
<1>12. Marks[m - 1] <= a + 1 /\ Marks[m - 1] <= a + n /\ a + n = Marks[m - 1] + Takes(obj'[w])
  <2>1. PICK M \in Nat : M = Marks[m - 1]
    BY <1>9
  <2>2. a = M - skip /\ skip \in 0..1 /\ n \in Nat \ {0} /\ M \in Nat
    BY <1>3, <1>11, <2>1
  <2>3. M <= a + 1 /\ M <= a + n /\ a + n = M + (n - skip)
    BY ONLY <2>2
  <2> QED BY ONLY <1>10, <2>1, <2>3
<1>13. Chained' /\ Len(stack') = Marks'[Len(alive')]
  <2>1. \A i \in 1..Marks[m - 1] : stack'[i] = stack[i]
    <3>1. \A i \in 1..Marks[m - 1] : i \in 1..a + 1
      BY ONLY <1>2, <1>9, <1>12
    <3> QED BY <3>1
  <2>2. Marks[m - 1] <= Len(stack') /\ Len(stack') = Marks[m - 1] + Takes(obj'[w])
    BY <1>12
  <2>3. ChainAt(heap', registered', stack', obj'[w], Marks[m - 1] - obj'[w].skip, Len(stack'))
    BY <1>5, <1>11 DEF skip
  <2> QED BY <1>5, <1>7, <2>1, <2>2, <2>3, TakenChains
<1> QED BY <1>5, <1>13

(* A new chain starts at the top of the stack, or one below it.            *)
LEMMA NewChain ==
  ASSUME IInv, NEW w \in Obj, NEW skip \in 0..1, Move(w, w, "ns", 1, skip), ~Active(w),
         own' = own, Kept(stack, heap, registered, heap', registered'), stack' \in Seq(Nat),
         Len(stack') = Len(stack) + (1 - skip), Len(stack') > 0,
         \A i \in 1..Len(stack) : stack'[i] = stack[i],
         heap'[stack'[Len(stack')]].part \in {"global", "user"}
  PROVE  ObjectsOK' /\ Chained' /\ Len(stack') = Marks'[Len(alive')]
<1>1. ObjectsOK /\ own \in Nat /\ Len(stack) = Marks[Len(alive)] /\ Len(stack) \in Nat
  BY DEF IInv, TypeOK
<1>2. Moved(w, w, "ns", 1, skip)
  <2>1. "ns" \in {"ns", "class", "table"} /\ 1 \in Nat \ {0}
    OBVIOUS
  <2> QED BY <1>1, <2>1, MovedObjects
<1>3. ObjectsOK' /\ obj'[w] = [kind |-> "ns", size |-> 1, skip |-> skip]
  BY <1>2 DEF Moved
<1>4. PICK p \in 1..Len(alive') : /\ Taken(p, p, w) /\ p <= Len(alive) + 1
                                  /\ \A i \in p..Len(alive) : obj[alive[i]].size = 0
  BY <1>1, Started
<1>5. Marks[Len(alive)] = Marks[p - 1]
  <2>1. p \in 1..Len(alive) + 1
    BY <1>1, <1>4, MarkFacts
  <2> QED BY <1>1, <1>4, <2>1, IdleMarks
<1>6. Takes(obj'[w]) = 1 - skip
  BY <1>3 DEF Takes
<1>7. Kept(stack, heap, registered, heap', registered')
  OBVIOUS
<1>8. ChainAt(heap', registered', stack', obj'[w], Marks[p - 1] - obj'[w].skip, Len(stack'))
  <2> DEFINE b == Len(stack')
  <2>0. b \in Nat
    OBVIOUS
  <2> HIDE DEF b
  <2>1. PICK a \in Int : a = b - 1
    BY <2>0
  <2>2. a \in Nat /\ b = a + 1 /\ b \in Nat
    BY <2>0, <2>1 DEF b
  <2>3. Marks[p - 1] - skip = a
    BY ONLY <1>1, <1>5, <2>1, Len(stack') = Len(stack) + (1 - skip), skip \in 0..1 DEF b
  <2> DEFINE g == heap'
             q == registered'
  <2>4. ChainAt(g, q, stack', [kind |-> "ns", size |-> 1, skip |-> skip], a, b)
    <3>1. g[stack'[b]].part \in {"global", "user"}
      BY DEF b
    <3> HIDE DEF g, q
    <3> QED BY SMTT(20), <2>2, <3>1 DEF ChainAt, LastParts, b
  <2> QED BY <1>3, <2>3, <2>4 DEF b
<1>9. Marks[p - 1] <= Len(stack')
  BY <1>1, <1>5
<1>10. Chained' /\ Len(stack') = Marks'[Len(alive')]
  <2>1. Len(stack') = Marks[p - 1] + Takes(obj'[w])
    BY <1>1, <1>5, <1>6
  <2>2. \A i \in 1..Marks[p - 1] : stack'[i] = stack[i]
    BY <1>1, <1>5
  <2> QED BY <1>3, <1>4, <1>7, <1>8, <1>9, <2>1, <2>2, TakenChains
<1> QED BY <1>3, <1>10
-----------------------------------------------------------------------------
(* The tables.                                                             *)

IsSet(r, h, t, k, v) ==
  /\ r \in Seq(Tables) /\ Len(r) = Len(h)
  /\ \A u \in DOMAIN h : /\ r[u].part = h[u].part
                        /\ \A l \in Key : r[u].field[l] =
                              IF u = t /\ l = k THEN v ELSE h[u].field[l]

LEMMA SetFacts ==
  ASSUME NEW h \in Seq(Tables), NEW t \in DOMAIN h, NEW k \in Key,
         NEW v \in Nat \union {Function}
  PROVE  IsSet(Set(h, t, k, v), h, t, k, v)
<1>1. h[t] \in Tables /\ DOMAIN h = 1..Len(h) /\ Len(h) \in Nat
  OBVIOUS
<1> DEFINE field == [h[t].field EXCEPT ![k] = v]
           x == [h[t] EXCEPT !.field = field]
<1>2. /\ field \in [Key -> Nat \union {Function}]
      /\ \A l \in Key : field[l] = IF l = k THEN v ELSE h[t].field[l]
  BY <1>1 DEF Tables
<1> HIDE DEF field
<1>3. x \in Tables /\ x.part = h[t].part /\ x.field = field
  BY <1>1, <1>2 DEF Tables
<1>4. Set(h, t, k, v) = [h EXCEPT ![t] = x]
  BY DEF Set, field
<1> HIDE DEF x
<1>5. /\ [h EXCEPT ![t] = x] \in Seq(Tables) /\ Len([h EXCEPT ![t] = x]) = Len(h)
      /\ \A u \in DOMAIN h : [h EXCEPT ![t] = x][u] = IF u = t THEN x ELSE h[u]
  BY <1>1, <1>3
<1> QED BY <1>2, <1>3, <1>4, <1>5 DEF IsSet

LEMMA NewTableFacts ==
  ASSUME NEW part \in Part
  PROVE  /\ NewTable(part) \in Tables /\ NewTable(part).part = part
         /\ \A k \in Key : NewTable(part).field[k] = Nil
BY DEF NewTable, Tables, Nil, Function

(* New tables are created on top of heap.                                  *)
GrownHeap(g) ==
  /\ g \in Seq(Tables) /\ Len(g) \in Nat /\ Len(heap) <= Len(g)
  /\ \A u \in 1..Len(heap) : g[u] = heap[u]
  /\ \A u \in Len(heap) + 1..Len(g), k \in Key : g[u].field[k] = Nil

LEMMA OneTable ==
  ASSUME HeapOK, NEW part \in Part
  PROVE  LET g == Append(heap, NewTable(part))
         IN  GrownHeap(g) /\ Len(g) = Len(heap) + 1 /\ g[Len(heap) + 1].part = part
<1> DEFINE x == NewTable(part)
           g == Append(heap, x)
<1>1. x \in Tables /\ x.part = part /\ \A k \in Key : x.field[k] = Nil
  BY NewTableFacts
<1>2. heap \in Seq(Tables) /\ Len(heap) \in Nat
  BY DEF HeapOK
<1> HIDE DEF x
<1>3. /\ g \in Seq(Tables) /\ Len(g) = Len(heap) + 1
      /\ \A i \in 1..Len(heap) : g[i] = heap[i]
      /\ g[Len(heap) + 1] = x
  BY <1>1, <1>2, AppendProperties
<1> HIDE DEF g
<1>4. \A u \in Len(heap) + 1..Len(g) : u = Len(heap) + 1
  BY <1>2, <1>3
<1> QED BY <1>1, <1>2, <1>3, <1>4 DEF GrownHeap, g, x

LEMMA MoreTables ==
  ASSUME HeapOK, NEW new \in Seq(Tables),
         \A i \in 1..Len(new), k \in Key : new[i].field[k] = Nil
  PROVE  LET g == heap \o new
         IN  /\ GrownHeap(g) /\ Len(g) = Len(heap) + Len(new)
             /\ \A i \in 1..Len(new) : g[Len(heap) + i] = new[i]
<1> DEFINE g == heap \o new
<1>1. heap \in Seq(Tables) /\ Len(heap) \in Nat /\ Len(new) \in Nat
  BY DEF HeapOK
<1>2. g \in Seq(Tables) /\ Len(g) = Len(heap) + Len(new)
      /\ \A i \in 1..Len(heap) + Len(new) :
            g[i] = IF i <= Len(heap) THEN heap[i] ELSE new[i - Len(heap)]
  BY <1>1, ConcatProperties
<1> HIDE DEF g
<1>3. \A i \in 1..Len(heap) : g[i] = heap[i]
  BY <1>1, <1>2
<1>4. \A i \in 1..Len(new) : g[Len(heap) + i] = new[i]
  <2>1. PICK n \in Nat : n = Len(heap)
    BY <1>1
  <2>2. \A i \in 1..Len(new) : n + i \in 1..n + Len(new) /\ ~(n + i <= n) /\ (n + i) - n = i
    BY <1>1
  <2> QED BY ONLY <1>2, <2>1, <2>2
<1>5. \A u \in Len(heap) + 1..Len(g), k \in Key : g[u].field[k] = Nil
  <2>1. TAKE u \in Len(heap) + 1..Len(g), k \in Key
  <2>2. PICK i \in 1..Len(new) : u = Len(heap) + i
    BY <1>1, <1>2
  <2> QED BY <1>4, <2>2
<1> QED BY <1>1, <1>2, <1>3, <1>4, <1>5 DEF GrownHeap, g

LEMMA TwoTables ==
  ASSUME HeapOK
  PROVE  LET g == heap \o <<NewTable("tb"), NewTable("mt")>>
         IN  /\ GrownHeap(g) /\ Len(g) = Len(heap) + 2
             /\ g[Len(heap) + 1].part = "tb" /\ g[Len(heap) + 2].part = "mt"
<1> DEFINE x == NewTable("tb")
           y == NewTable("mt")
           new == <<x, y>>
<1>1. /\ x \in Tables /\ x.part = "tb" /\ \A k \in Key : x.field[k] = Nil
      /\ y \in Tables /\ y.part = "mt" /\ \A k \in Key : y.field[k] = Nil
  BY NewTableFacts DEF Part
<1> HIDE DEF x, y
<1>2. /\ new \in Seq(Tables) /\ Len(new) = 2 /\ new[1] = x /\ new[2] = y
      /\ 1 \in 1..Len(new) /\ 2 \in 1..Len(new)
      /\ \A i \in 1..Len(new) : i = 1 \/ i = 2
  BY <1>1
<1> HIDE DEF new
<1>3. \A i \in 1..Len(new), k \in Key : new[i].field[k] = Nil
  BY <1>1, <1>2
<1>4. /\ GrownHeap(heap \o new) /\ Len(heap \o new) = Len(heap) + 2
      /\ (heap \o new)[Len(heap) + 1] = x /\ (heap \o new)[Len(heap) + 2] = y
  BY <1>2, <1>3, MoreTables
<1> QED BY <1>1, <1>4 DEF new, x, y

LEMMA ThreeTables ==
  ASSUME HeapOK
  PROVE  LET g == heap \o <<NewTable("co"), NewTable("cl"), NewTable("st")>>
         IN  /\ GrownHeap(g) /\ Len(g) = Len(heap) + 3
             /\ g[Len(heap) + 1].part = "co" /\ g[Len(heap) + 2].part = "cl"
             /\ g[Len(heap) + 3].part = "st"
<1> DEFINE x == NewTable("co")
           y == NewTable("cl")
           z == NewTable("st")
           new == <<x, y, z>>
<1>1. /\ x \in Tables /\ x.part = "co" /\ \A k \in Key : x.field[k] = Nil
      /\ y \in Tables /\ y.part = "cl" /\ \A k \in Key : y.field[k] = Nil
      /\ z \in Tables /\ z.part = "st" /\ \A k \in Key : z.field[k] = Nil
  BY NewTableFacts DEF Part
<1> HIDE DEF x, y, z
<1>2. /\ new \in Seq(Tables) /\ Len(new) = 3 /\ new[1] = x /\ new[2] = y /\ new[3] = z
      /\ 1 \in 1..Len(new) /\ 2 \in 1..Len(new) /\ 3 \in 1..Len(new)
      /\ \A i \in 1..Len(new) : i = 1 \/ i = 2 \/ i = 3
  BY <1>1
<1> HIDE DEF new
<1>3. \A i \in 1..Len(new), k \in Key : new[i].field[k] = Nil
  BY <1>1, <1>2
<1>4. /\ GrownHeap(heap \o new) /\ Len(heap \o new) = Len(heap) + 3
      /\ (heap \o new)[Len(heap) + 1] = x /\ (heap \o new)[Len(heap) + 2] = y
      /\ (heap \o new)[Len(heap) + 3] = z
  BY <1>2, <1>3, MoreTables
<1> QED BY <1>1, <1>4 DEF new, x, y, z

(* The heap after table v was bound to k in table t.                       *)
Bound(g, t, k, v) ==
  /\ HeapOK' /\ DOMAIN heap' = 1..Len(g) /\ Len(g) \in Nat
  /\ \A u \in 1..Len(g) : heap'[u].part = g[u].part
  /\ \A u \in 1..Len(g), l \in Key :
        heap'[u].field[l] = IF u = t /\ l = k THEN v ELSE g[u].field[l]
  /\ \A u \in DOMAIN heap : u \in DOMAIN heap' /\ heap'[u].part = heap[u].part
  /\ \A u \in DOMAIN heap, l \in Key :
        ~(u = t /\ l = k) => heap'[u].field[l] = heap[u].field[l]

LEMMA BoundHeap ==
  ASSUME HeapOK, NEW g, GrownHeap(g), NEW t \in DOMAIN heap, heap[t].part \in Space,
         NEW k \in Name \union Class, NEW v \in 1..Len(g),
         k \in Name => g[v].part \in {"ns", "tb"}, heap' = Set(g, t, k, v)
  PROVE  Bound(g, t, k, v)
<1>1. heap \in Seq(Tables) /\ 1 \in DOMAIN heap /\ heap[Global].part = "global"
      /\ DOMAIN heap = 1..Len(heap) /\ Len(heap) \in Nat
  BY DEF HeapOK
<1>2. /\ g \in Seq(Tables) /\ Len(g) \in Nat /\ Len(heap) <= Len(g) /\ DOMAIN g = 1..Len(g)
      /\ \A u \in 1..Len(heap) : g[u] = heap[u] /\ u \in 1..Len(g)
      /\ \A u \in Len(heap) + 1..Len(g), l \in Key : g[u].field[l] = Nil
  BY <1>1 DEF GrownHeap
<1>3. k \in Key /\ v \in Nat \union {Function} /\ v > 0 /\ t \in DOMAIN g
  BY <1>1, <1>2 DEF Key
<1>4. /\ heap' \in Seq(Tables) /\ DOMAIN heap' = 1..Len(g)
      /\ \A u \in 1..Len(g) : /\ heap'[u].part = g[u].part
                              /\ \A l \in Key : heap'[u].field[l] =
                                      IF u = t /\ l = k THEN v ELSE g[u].field[l]
  <2>1. IsSet(heap', g, t, k, v)
    BY <1>2, <1>3, SetFacts
  <2>2. DOMAIN heap' = 1..Len(g)
    BY <1>2, <2>1 DEF IsSet
  <2> QED BY <1>2, <2>1, <2>2 DEF IsSet
<1>5. /\ \A u \in DOMAIN heap : u \in DOMAIN heap' /\ heap'[u].part = heap[u].part
      /\ \A u \in DOMAIN heap, l \in Key :
            ~(u = t /\ l = k) => heap'[u].field[l] = heap[u].field[l]
  BY <1>1, <1>2, <1>4
<1>6. ASSUME NEW u \in DOMAIN heap', NEW l \in Key, heap'[u].field[l] > 0
      PROVE  /\ heap'[u].part \in Space
             /\ heap'[u].field[l] \in DOMAIN heap'
             /\ l \in Name => heap'[heap'[u].field[l]].part \in {"ns", "tb"}
  <2>1. CASE u = t /\ l = k
    <3>1. heap'[u].field[l] = v /\ v \in 1..Len(g)
      BY <1>2, <1>3, <1>4, <2>1
    <3>2. heap'[u].part \in Space
      BY <1>5, <2>1
    <3> QED BY <1>4, <2>1, <3>1, <3>2
  <2>2. CASE ~(u = t /\ l = k)
    <3>1. heap'[u].field[l] = g[u].field[l] /\ u \in 1..Len(g)
      BY <1>4, <2>2
    <3>2. u \in 1..Len(heap)
      <4>1. SUFFICES ASSUME u \notin 1..Len(heap) PROVE FALSE
        OBVIOUS
      <4>2. u \in Len(heap) + 1..Len(g)
        BY <1>1, <1>2, <3>1, <4>1
      <4> QED BY <1>2, <1>6, <3>1, <4>2 DEF Nil
    <3>3. heap'[u].field[l] = heap[u].field[l] /\ u \in DOMAIN heap
      BY <1>1, <1>2, <3>1, <3>2
    <3>4. /\ heap[u].part \in Space /\ heap[u].field[l] \in DOMAIN heap
          /\ l \in Name => heap[heap[u].field[l]].part \in {"ns", "tb"}
      BY <1>6, <3>3 DEF HeapOK
    <3> QED BY <1>5, <3>3, <3>4
  <2> QED BY <2>1, <2>2
<1>7. HeapOK'
  <2>1. 1 \in DOMAIN heap' /\ heap'[Global].part = "global"
    BY <1>1, <1>5 DEF Global
  <2> QED BY <1>4, <1>6, <2>1 DEF HeapOK
<1> QED BY <1>2, <1>4, <1>5, <1>7 DEF Bound

LEMMA BoundKept ==
  ASSUME TypeOK, NEW g, NEW t, NEW k, NEW v, Bound(g, t, k, v),
         heap[t].field[k] \notin {stack[i] : i \in 1..Len(stack)},
         \A c \in Class : registered[c] # <<>> => registered'[c] = registered[c]
  PROVE  Kept(stack, heap, registered, heap', registered')
<1>1. stack \in Seq(DOMAIN heap) /\ Len(stack) \in Nat
      /\ \A j \in 1..Len(stack) - 1 : stack[j] \in DOMAIN heap
  BY DEF TypeOK
<1>2. \A l \in Name \union Class : l \in Key
  BY DEF Key
<1>3. \A j \in 1..Len(stack) - 1, l \in Name \union Class :
        heap[stack[j]].field[l] \in {stack[i] : i \in 1..Len(stack)}
          => heap'[stack[j]].field[l] = heap[stack[j]].field[l]
  <2>1. TAKE j \in 1..Len(stack) - 1, l \in Name \union Class
  <2>2. HAVE heap[stack[j]].field[l] \in {stack[i] : i \in 1..Len(stack)}
  <2>3. ~(stack[j] = t /\ l = k)
    BY <2>2
  <2> QED BY <1>1, <1>2, <2>3 DEF Bound
<1>4. \A u \in DOMAIN heap : u \in DOMAIN heap' /\ heap'[u].part = heap[u].part
  BY DEF Bound
<1> QED BY <1>3, <1>4 DEF Kept
-----------------------------------------------------------------------------
(* What is on top of the stack, by the kind of the object in use.          *)

(* Below the tables of a class or the metatable of a table, and everywhere *)
(* for a namespace, each table was opened by name.                         *)
Shape(h, s, x, a, b) ==
  /\ a \in Nat /\ b \in Nat /\ a + 1 <= b /\ b <= Len(s) /\ b = a + x.size
  /\ x.kind = "ns" => /\ h[s[b]].part \in Space
                      /\ \A j \in a + 2..b : h[s[j]].part \in {"ns", "tb"}
  /\ x.kind = "table" => /\ h[s[b]].part = "mt" /\ h[s[b - 1]].part = "tb" /\ a + 3 <= b
                         /\ \A j \in a + 2..b - 1 : h[s[j]].part \in {"ns", "tb"}
  /\ x.kind = "class" => /\ h[s[b]].part = "st" /\ h[s[b - 1]].part = "cl"
                         /\ h[s[b - 2]].part = "co" /\ a + 4 <= b
                         /\ \A j \in a + 2..b - 3 : h[s[j]].part \in {"ns", "tb"}

LEMMA ChainShape ==
  ASSUME NEW h, NEW r, NEW s, NEW x, x.size \in Nat, NEW a, NEW b, ChainAt(h, r, s, x, a, b)
  PROVE  Shape(h, s, x, a, b)
<1>1. a \in Nat /\ b \in Nat /\ a + 1 <= b /\ b <= Len(s) /\ b = a + x.size
  BY DEF ChainAt
<1>2. \A j \in a + 2..b : Linked(h, r, s, j, b)
  BY DEF ChainAt
<1>3. \A j \in a + 2..b :
        \/ h[s[j]].part \in {"ns", "tb"}
        \/ h[s[j]].part = "co" /\ j = b - 2 /\ h[s[b]].part = "st"
        \/ h[s[j]].part = "cl" /\ j = b - 1 /\ h[s[j - 1]].part = "co"
        \/ h[s[j]].part = "st" /\ j = b /\ h[s[j - 1]].part = "cl"
        \/ h[s[j]].part = "mt" /\ j = b /\ h[s[j - 1]].part = "tb"
  BY <1>1, <1>2 DEF Linked
<1>4. h[s[a + 1]].part \in {"global", "user"}
  BY DEF ChainAt
<1>5. ASSUME NEW j \in Int, a + 1 <= j, j <= b, h[s[j]].part \notin {"global", "user"}
      PROVE  j \in a + 2..b
  <2>1. j # a + 1
    BY <1>4, <1>5
  <2> QED BY <1>1, <1>5, <2>1
<1>6. CASE x.kind = "ns"
  <2>1. h[s[b]].part \in Space
    BY <1>6 DEF ChainAt, LastParts, Space
  <2>2. ASSUME NEW j \in a + 2..b, h[s[j]].part \notin {"ns", "tb"}
        PROVE  FALSE
    <3>1. j = b - 1 /\ h[s[j]].part = "cl" /\ h[s[j - 1]].part = "co"
      BY <1>1, <1>3, <2>1, <2>2 DEF Space
    <3>2. j - 1 \in Int /\ a + 1 <= j - 1 /\ j - 1 <= b
      BY <1>1, <2>2
    <3>3. j - 1 \in a + 2..b
      BY <1>5, <3>1, <3>2
    <3>4. h[s[b]].part = "st"
      BY <1>3, <3>1, <3>3
    <3> QED BY <2>1, <3>4 DEF Space
  <2> QED BY <1>1, <1>6, <2>1, <2>2 DEF Shape
<1>7. CASE x.kind = "table"
  <2>1. h[s[b]].part = "mt"
    BY <1>7 DEF ChainAt, LastParts
  <2>2. b \in a + 2..b
    BY <1>1, <1>5, <2>1
  <2>3. h[s[b - 1]].part = "tb"
    BY <1>3, <2>1, <2>2
  <2>4. b - 1 \in a + 2..b
    <3>1. b - 1 \in Int /\ a + 1 <= b - 1 /\ b - 1 <= b
      BY <1>1, <2>2
    <3> QED BY <1>5, <2>3, <3>1
  <2>5. ASSUME NEW j \in a + 2..b - 1
        PROVE  h[s[j]].part \in {"ns", "tb"}
    <3>1. j \in a + 2..b /\ j # b
      BY <1>1, <2>5
    <3>2. CASE j = b - 1
      BY <2>3, <3>2
    <3> QED BY <1>3, <2>1, <3>1, <3>2
  <2> QED BY <1>1, <1>7, <2>1, <2>3, <2>4, <2>5 DEF Shape
<1>8. CASE x.kind = "class"
  <2>1. h[s[b]].part = "st"
    BY <1>8 DEF ChainAt, LastParts
  <2>2. b \in a + 2..b
    BY <1>1, <1>5, <2>1
  <2>3. h[s[b - 1]].part = "cl"
    BY <1>3, <2>1, <2>2
  <2>4. b - 1 \in a + 2..b
    <3>1. b - 1 \in Int /\ a + 1 <= b - 1 /\ b - 1 <= b
      BY <1>1, <2>2
    <3> QED BY <1>5, <2>3, <3>1
  <2>5. h[s[b - 2]].part = "co"
    <3>1. h[s[(b - 1) - 1]].part = "co"
      BY <1>3, <2>3, <2>4
    <3>2. (b - 1) - 1 = b - 2
      BY <1>1
    <3> QED BY <3>1, <3>2
  <2>6. b - 2 \in a + 2..b
    <3>1. b - 2 \in Int /\ a + 1 <= b - 2 /\ b - 2 <= b
      BY SMTT(30), <1>1, <2>4
    <3> QED BY <1>5, <2>5, <3>1
  <2>7. \A j \in a + 2..b - 3 : h[s[j]].part \in {"ns", "tb"}
    <3>1. \A j \in a + 2..b - 3 : j \in a + 2..b /\ j # b /\ j # b - 1 /\ j # b - 2
      BY SMTT(30), <1>1
    <3> QED BY <1>3, <3>1
  <2> QED BY <1>1, <1>8, <2>1, <2>3, <2>5, <2>6, <2>7 DEF Shape
<1> QED BY <1>1, <1>6, <1>7, <1>8 DEF Shape

LEMMA LinkedByName ==
  ASSUME NEW h, NEW r, NEW s, NEW b, NEW j, Linked(h, r, s, j, b), h[s[j]].part \in {"ns", "tb"}
  PROVE  /\ \E n \in Name : h[s[j - 1]].field[n] = s[j]
         /\ \A e : Linked(h, r, s, j, e)
BY DEF Linked

(* What a table of part outside Space holds is not a table.                *)
LEMMA OnlySpaces ==
  ASSUME TypeOK, NEW t \in DOMAIN heap, NEW k \in Key, heap[t].part \notin Space
  PROVE  heap[t].field[k] \notin {stack[i] : i \in 1..Len(stack)}
<1>1. heap[t].field[k] \in Nat \union {Function} /\ ~(heap[t].field[k] > 0)
  <2>1. heap[t] \in Tables
    BY DEF TypeOK, HeapOK
  <2>2. heap[t].field[k] \in Nat \union {Function}
    BY <2>1 DEF Tables
  <2>3. ~(heap[t].field[k] > 0)
    BY DEF TypeOK, HeapOK
  <2> QED BY <2>2, <2>3
<1>2. \A i \in 1..Len(stack) : stack[i] > 0 /\ stack[i] \in Nat
  BY DEF TypeOK, HeapOK
<1> QED BY <1>1, <1>2

(* A namespace opens k more tables.                                        *)
LEMMA Opening ==
  ASSUME IInv, NEW o \in Obj, NEW w \in Obj, Opens(o, "ns"),
         NEW kind \in {"ns", "class", "table"}, NEW k \in 1..3,
         Move(o, w, kind, obj[o].size + k, obj[o].skip), own' = own, stack' \in Seq(Nat),
         Kept(stack, heap, registered, heap', registered'),
         NEW b, b = Len(stack),
         Len(stack') = b + k, \A i \in 1..b : stack'[i] = stack[i],
         \A j \in b + 1..b + k : Linked(heap', registered', stack', j, b + k),
         heap'[stack'[b + k]].part \in LastParts[kind],
         kind = "table" => \A j \in 1..b + k - 2 : stack'[j] # stack'[b + k - 1]
  PROVE  ObjectsOK' /\ Chained' /\ Len(stack') = Marks'[Len(alive')]
<1>1. Innermost(o) /\ obj[o].kind = "ns" /\ stack \in Seq(DOMAIN heap)
  BY DEF Opens, IInv, TypeOK
<1> DEFINE x == obj[o]
<1>2. /\ ChainAt(heap, registered, stack, x, b - x.size, b)
      /\ b \in Nat /\ x.size \in Nat \ {0} /\ x.skip \in 0..1
  BY <1>1, OnTop
<1>3. PICK a \in Int : a = b - x.size
  BY <1>2
<1> HIDE DEF x
<1>4. ChainAt(heap', registered', stack', x, a, b)
  <2>1. b <= Len(stack') /\ x.size \in Nat
    BY <1>2
  <2>2. ChainAt(heap, registered, stack, x, a, b)
    BY ONLY <1>2, <1>3
  <2>3. /\ stack \in Seq(DOMAIN heap) /\ Kept(stack, heap, registered, heap', registered')
        /\ \A i \in 1..b : stack'[i] = stack[i]
    BY <1>1
  <2> QED BY ONLY <2>1, <2>2, <2>3, ChainKept
<1>5. /\ a \in Nat /\ a + 1 <= b /\ b = a + x.size
      /\ \A j \in a + 2..b : heap'[stack'[j]].part \in {"ns", "tb"}
  <2>1. x.kind = "ns" /\ x.size \in Nat
    BY <1>1, <1>2 DEF x
  <2>2. Shape(heap', stack', x, a, b)
    BY <1>4, <2>1, ChainShape
  <2> QED BY <2>1, <2>2 DEF Shape
<1>6. \A j \in a + 2..b : Linked(heap', registered', stack', j, b + k)
  <2>1. \A j \in a + 2..b : Linked(heap', registered', stack', j, b)
    BY <1>4 DEF ChainAt
  <2> QED BY <1>5, <2>1, LinkedByName
<1>7. \A j \in a + 2..b + k : Linked(heap', registered', stack', j, b + k)
  <2>1. \A j \in a + 2..b + k : j \in a + 2..b \/ j \in b + 1..b + k
    BY <1>2, <1>5
  <2> QED BY <1>6, <2>1
<1> DEFINE n == x.size + k
           y == [kind |-> kind, size |-> n, skip |-> x.skip]
<1>8. n \in Nat \ {0} /\ a + n = b + k
  <2>1. PICK z \in Nat : z = x.size
    BY <1>2
  <2>2. b = a + z /\ a \in Nat /\ k \in 1..3 /\ n = z + k
    BY <1>5, <2>1
  <2> QED BY ONLY <2>1, <2>2
<1>9. ChainAt(heap', registered', stack', y, a, b + k)
  <2>1. y.size = n /\ y.kind = kind
    OBVIOUS
  <2> HIDE DEF y, n
  <2>2. heap'[stack'[a + 1]].part \in {"global", "user"}
    BY <1>4 DEF ChainAt
  <2>3. PICK e \in Nat : e = b + k
    BY <1>2
  <2>4. /\ a \in Nat /\ e = a + y.size /\ y.size > 0 /\ e <= Len(stack')
    <3>1. Len(stack') = e /\ a \in Nat /\ n \in Nat \ {0} /\ e = a + n
      BY <1>5, <1>8, <2>3
    <3>2. n > 0 /\ e <= e
      BY ONLY <2>3, <3>1
    <3> QED BY <2>1, <3>1, <3>2
  <2>5. /\ \A j \in a + 2..e : Linked(heap', registered', stack', j, e)
        /\ kind = "table" => \A j \in 1..e - 2 : stack'[j] # stack'[e - 1]
        /\ heap'[stack'[e]].part \in LastParts[kind] /\ kind \in {"ns", "class", "table"}
    BY <1>7, <2>3
  <2> QED BY ONLY <2>1, <2>2, <2>3, <2>4, <2>5 DEF ChainAt
<1>10. Len(stack') = a + n /\ \A i \in 1..a + 1 : stack'[i] = stack[i]
  <2>1. \A i \in 1..a + 1 : i \in 1..b
    BY <1>2, <1>5
  <2> QED BY <1>8, <2>1
<1>11. Move(o, w, kind, n, obj[o].skip) /\ a = Len(stack) - obj[o].size
  BY <1>3 DEF x
<1>12. ChainAt(heap', registered', stack', [kind |-> kind, size |-> n, skip |-> obj[o].skip], a, a + n)
  BY <1>8, <1>9 DEF x
<1> HIDE DEF n, y
<1> QED BY <1>1, <1>8, <1>10, <1>11, <1>12, Rebased
-----------------------------------------------------------------------------
(* The actions that open something.                                        *)

LEMMA SeqOfOthers ==
  ASSUME NEW S, NEW T, NEW s \in Seq(S), \A i \in 1..Len(s) : s[i] \in T
  PROVE  s \in Seq(T)
<1>1. Len(s) \in Nat /\ s = [i \in 1..Len(s) |-> s[i]]
  OBVIOUS
<1> QED BY <1>1, SeqDef

LEMMA PushedFacts ==
  ASSUME NEW s \in Seq(Nat), NEW new \in Seq(Nat)
  PROVE  /\ s \o new \in Seq(Nat) /\ Len(s \o new) = Len(s) + Len(new)
         /\ \A i \in 1..Len(s) : (s \o new)[i] = s[i]
         /\ \A i \in 1..Len(new) : (s \o new)[Len(s) + i] = new[i]
<1>1. Len(s) \in Nat /\ Len(new) \in Nat
  OBVIOUS
<1> DEFINE t == s \o new
<1>2. t \in Seq(Nat) /\ Len(t) = Len(s) + Len(new)
      /\ \A i \in 1..Len(s) + Len(new) :
            t[i] = IF i <= Len(s) THEN s[i] ELSE new[i - Len(s)]
  BY ConcatProperties
<1> HIDE DEF t
<1>3. \A i \in 1..Len(s) : t[i] = s[i]
  BY <1>1, <1>2
<1>4. \A i \in 1..Len(new) : t[Len(s) + i] = new[i]
  <2>1. PICK n \in Nat : n = Len(s)
    BY <1>1
  <2>2. \A i \in 1..Len(new) : n + i \in 1..n + Len(new) /\ ~(n + i <= n) /\ (n + i) - n = i
    BY <1>1
  <2> QED BY ONLY <1>2, <2>1, <2>2
<1> QED BY <1>2, <1>3, <1>4 DEF t

LEMMA RegisteredKept ==
  ASSUME RegisteredOK, registered' = registered,
         \A u \in DOMAIN heap : u \in DOMAIN heap' /\ heap'[u].part = heap[u].part
  PROVE  RegisteredOK'
<1>1. SUFFICES ASSUME NEW c \in Class, registered[c] # <<>>
               PROVE  \E co, cl, st \in DOMAIN heap' :
                         /\ registered[c] = <<co, cl, st>>
                         /\ heap'[co].part = "co" /\ heap'[cl].part = "cl"
                         /\ heap'[st].part = "st"
  BY DEF RegisteredOK
<1>2. PICK co \in DOMAIN heap, cl \in DOMAIN heap, st \in DOMAIN heap :
           /\ registered[c] = <<co, cl, st>>
           /\ heap[co].part = "co" /\ heap[cl].part = "cl" /\ heap[st].part = "st"
  BY <1>1 DEF RegisteredOK
<1> QED BY <1>2

(* The namespace in use has a space on top.                                *)
LEMMA SpaceOnTop ==
  ASSUME IInv, NEW o \in Obj, Opens(o, "ns")
  PROVE  /\ Len(stack) \in Nat \ {0} /\ Top(1) = stack[Len(stack)]
         /\ Top(1) \in DOMAIN heap /\ heap[Top(1)].part \in Space
         /\ stack \in Seq(Nat)
         /\ \A i \in 1..Len(stack) : stack[i] \in DOMAIN heap /\ stack[i] \in 1..Len(heap)
<1>1. Innermost(o) /\ obj[o].kind = "ns" /\ stack \in Seq(DOMAIN heap)
  BY DEF Opens, IInv, TypeOK
<1>2. /\ ChainAt(heap, registered, stack, obj[o], Len(stack) - obj[o].size, Len(stack))
      /\ Len(stack) \in Nat /\ obj[o].size \in Nat
  BY <1>1, OnTop
<1>3. Shape(heap, stack, obj[o], Len(stack) - obj[o].size, Len(stack))
  BY <1>2, ChainShape
<1>4. Len(stack) \in Nat \ {0} /\ heap[stack[Len(stack)]].part \in Space
  <2>1. PICK a \in Int : a = Len(stack) - obj[o].size
    BY <1>2
  <2>2. a \in Nat /\ a + 1 <= Len(stack) /\ heap[stack[Len(stack)]].part \in Space
    BY <1>1, <1>3, <2>1 DEF Shape
  <2> QED BY <1>2, <2>2
<1>5. Top(1) = stack[Len(stack)]
  <2>1. \A l \in Nat : l + 1 - 1 = l
    OBVIOUS
  <2> QED BY <1>4, <2>1 DEF Top
<1>6. DOMAIN heap = 1..Len(heap) /\ Len(heap) \in Nat
  BY DEF IInv, TypeOK, HeapOK
<1>7. \A i \in 1..Len(stack) : stack[i] \in DOMAIN heap
  BY <1>1
<1>8. stack \in Seq(Nat)
  BY <1>1, <1>6, <1>7, SeqOfOthers
<1> QED BY <1>4, <1>5, <1>6, <1>7, <1>8

LEMMA BeginNamespaceKeeps ==
  ASSUME IInv, NEW o \in Obj, NEW w \in Obj, NEW n \in Name, BeginNamespace(o, w, n)
  PROVE  IInv'
<1>1. /\ Opens(o, "ns") /\ Found(n) # Function /\ own' = own /\ registered' = registered
      /\ Move(o, w, "ns", obj[o].size + 1, obj[o].skip)
  BY DEF BeginNamespace
<1> DEFINE t == Top(1)
           b == Len(stack)
<1>2. /\ b \in Nat \ {0} /\ t = stack[b] /\ t \in DOMAIN heap /\ heap[t].part \in Space
      /\ stack \in Seq(Nat)
      /\ \A i \in 1..b : stack[i] \in DOMAIN heap /\ stack[i] \in 1..Len(heap)
  BY <1>1, SpaceOnTop
<1>3. /\ TypeOK /\ HeapOK /\ RegisteredOK /\ DOMAIN registered = Class /\ own \in Nat
      /\ Len(heap) \in Nat /\ DOMAIN heap = 1..Len(heap) /\ n \in Key
  BY DEF IInv, TypeOK, HeapOK, Key
<1> HIDE DEF t, b
<1>4. PICK v : /\ v = IF heap[t].field[n] = Nil THEN Len(heap) + 1 ELSE heap[t].field[n]
               /\ stack' = Append(stack, v)
  BY DEF BeginNamespace, Found, t
<1>5. /\ HeapOK' /\ Kept(stack, heap, registered, heap', registered')
      /\ \A u \in DOMAIN heap : u \in DOMAIN heap' /\ heap'[u].part = heap[u].part
      /\ v \in DOMAIN heap' /\ v \in Nat /\ heap'[v].part \in {"ns", "tb"}
      /\ heap'[t].field[n] = v
  <2>1. CASE heap[t].field[n] = Nil
    <3> DEFINE g == Append(heap, NewTable("ns"))
    <3>1. v = Len(heap) + 1 /\ heap' = Set(g, t, n, v)
      BY <1>4, <2>1 DEF BeginNamespace, Found, t
    <3>2. GrownHeap(g) /\ Len(g) = Len(heap) + 1 /\ g[v].part = "ns"
      <4>1. "ns" \in Part
        BY DEF Part
      <4> QED BY <1>3, <3>1, <4>1, OneTable
    <3> HIDE DEF g
    <3>3. v \in 1..Len(g) /\ v \in Nat
      BY <1>3, <3>1, <3>2
    <3>4. Bound(g, t, n, v)
      BY <1>2, <1>3, <3>1, <3>2, <3>3, BoundHeap
    <3>5. heap[t].field[n] \notin {stack[i] : i \in 1..Len(stack)}
      BY <1>2, <2>1 DEF Nil, b
    <3>6. Kept(stack, heap, registered, heap', registered')
      BY <1>1, <1>3, <3>4, <3>5, BoundKept
    <3>7. t \in 1..Len(g)
      BY <1>2, <1>3, <3>2
    <3> QED BY <1>3, <3>2, <3>3, <3>4, <3>6, <3>7 DEF Bound
  <2>2. CASE heap[t].field[n] # Nil
    <3>1. v = heap[t].field[n] /\ heap' = heap
      BY <1>4, <2>2 DEF BeginNamespace, Found, t
    <3>2. v \in Nat /\ v > 0
      <4>1. heap[t].field[n] \in Nat \union {Function} /\ heap[t].field[n] # Function
        <5>1. heap[t] \in Tables
          BY <1>2 DEF IInv, TypeOK, HeapOK
        <5>2. heap[t].field[n] \in Nat \union {Function}
          BY <1>3, <5>1 DEF Tables
        <5> QED BY <1>1, <5>2 DEF Found, t
      <4> QED BY <2>2, <3>1, <4>1 DEF Nil
    <3>3. v \in DOMAIN heap /\ heap[v].part \in {"ns", "tb"}
      BY <1>2, <1>3, <3>1, <3>2 DEF HeapOK
    <3>4. Kept(stack, heap, registered, heap', registered')
      BY <1>1, <3>1 DEF Kept
    <3>5. HeapOK'
      BY <1>3, <3>1 DEF HeapOK
    <3> QED BY <3>1, <3>2, <3>3, <3>4, <3>5
  <2> QED BY <2>1, <2>2
<1>6. /\ stack' \in Seq(Nat) /\ Len(stack') = b + 1 /\ stack'[b + 1] = v
      /\ \A i \in 1..b : stack'[i] = stack[i]
  BY <1>2, <1>4, <1>5, AppendProperties DEF b
<1>7. ObjectsOK' /\ Chained' /\ Len(stack') = Marks'[Len(alive')]
  <2>1. \A j \in b + 1..b + 1 : Linked(heap', registered', stack', j, b + 1)
    <3>1. Linked(heap', registered', stack', b + 1, b + 1)
      <4>1. stack'[(b + 1) - 1] = t
        BY <1>2, <1>6
      <4> QED BY <1>5, <1>6, <4>1 DEF Linked
    <3>2. \A j \in b + 1..b + 1 : j = b + 1
      BY <1>2
    <3> QED BY <3>1, <3>2
  <2>2. heap'[stack'[b + 1]].part \in LastParts["ns"]
    BY <1>5, <1>6 DEF LastParts
  <2>3. 1 \in 1..3 /\ "ns" \in {"ns", "class", "table"} /\ "ns" # "table"
    OBVIOUS
  <2> QED BY <1>1, <1>5, <1>6, <2>1, <2>2, <2>3, Opening DEF b
<1>8. stack' \in Seq(DOMAIN heap')
  <2>1. \A i \in 1..Len(stack') : i \in 1..b \/ i = b + 1
    BY <1>2, <1>6
  <2>2. \A i \in 1..Len(stack') : stack'[i] \in DOMAIN heap'
    BY <1>2, <1>5, <1>6, <2>1
  <2> QED BY <1>6, <2>2, SeqOfOthers
<1>9. RegisteredOK'
  BY <1>1, <1>3, <1>5, RegisteredKept
<1> QED BY <1>1, <1>3, <1>5, <1>7, <1>8, <1>9 DEF IInv, TypeOK

LEMMA BeginTableKeeps ==
  ASSUME IInv, NEW o \in Obj, NEW w \in Obj, NEW n \in Name, BeginTable(o, w, n)
  PROVE  IInv'
<1>1. /\ Opens(o, "ns") /\ own' = own /\ registered' = registered
      /\ heap[Top(1)].field[n] \notin Range(stack)
      /\ Move(o, w, "table", obj[o].size + 2, obj[o].skip)
  BY DEF BeginTable
<1> DEFINE t == Top(1)
           b == Len(stack)
           v == Len(heap) + 1
           g == heap \o <<NewTable("tb"), NewTable("mt")>>
           new == <<v, v + 1>>
<1>2. /\ b \in Nat \ {0} /\ t = stack[b] /\ t \in DOMAIN heap /\ heap[t].part \in Space
      /\ stack \in Seq(Nat)
      /\ \A i \in 1..b : stack[i] \in DOMAIN heap /\ stack[i] \in 1..Len(heap)
  BY <1>1, SpaceOnTop
<1>3. /\ TypeOK /\ HeapOK /\ RegisteredOK /\ DOMAIN registered = Class /\ own \in Nat
      /\ Len(heap) \in Nat /\ DOMAIN heap = 1..Len(heap) /\ n \in Key
  BY DEF IInv, TypeOK, HeapOK, Key
<1>4. heap' = Set(g, t, n, v) /\ stack' = stack \o new
  BY DEF BeginTable
<1>5. /\ GrownHeap(g) /\ Len(g) = Len(heap) + 2
      /\ g[Len(heap) + 1].part = "tb" /\ g[Len(heap) + 2].part = "mt"
  BY <1>3, TwoTables
<1>6. heap[t].field[n] \notin {stack[i] : i \in 1..Len(stack)}
  <2>1. DOMAIN stack = 1..Len(stack)
    BY <1>2
  <2> QED BY <1>1, <2>1 DEF Range
<1> HIDE DEF t, b, g
<1>7. v \in 1..Len(g) /\ v \in Nat /\ v + 1 \in 1..Len(g) /\ v + 1 \in Nat
      /\ g[v].part = "tb" /\ g[v + 1].part = "mt" /\ v \notin 1..Len(heap)
  <2>1. v + 1 = Len(heap) + 2
    BY <1>3
  <2> QED BY <1>3, <1>5, <2>1
<1>8. /\ new \in Seq(Nat) /\ Len(new) = 2 /\ new[1] = v /\ new[2] = v + 1
      /\ 1 \in 1..Len(new) /\ 2 \in 1..Len(new)
  BY <1>7
<1> HIDE DEF v
<1>9. Bound(g, t, n, v)
  BY <1>2, <1>3, <1>4, <1>5, <1>7, BoundHeap
<1>10. Kept(stack, heap, registered, heap', registered')
  BY <1>1, <1>3, <1>6, <1>9, BoundKept
<1>11. /\ HeapOK'
       /\ \A u \in DOMAIN heap : u \in DOMAIN heap' /\ heap'[u].part = heap[u].part
       /\ v \in DOMAIN heap' /\ v + 1 \in DOMAIN heap'
       /\ heap'[v].part = "tb" /\ heap'[v + 1].part = "mt" /\ heap'[t].field[n] = v
  <2>1. t \in 1..Len(g)
    BY <1>2, <1>3, <1>5
  <2> QED BY <1>3, <1>7, <1>9, <2>1 DEF Bound
<1> HIDE DEF new
<1>12. /\ stack' \in Seq(Nat) /\ Len(stack') = b + 2 /\ stack'[b + 1] = v
       /\ stack'[b + 2] = v + 1 /\ \A i \in 1..b : stack'[i] = stack[i]
  <2>1. /\ stack' \in Seq(Nat) /\ Len(stack') = Len(stack) + Len(new)
        /\ \A i \in 1..Len(stack) : stack'[i] = stack[i]
        /\ \A i \in 1..Len(new) : stack'[Len(stack) + i] = new[i]
    BY <1>2, <1>4, <1>8, PushedFacts
  <2> QED BY <1>8, <2>1 DEF b
<1>13. ObjectsOK' /\ Chained' /\ Len(stack') = Marks'[Len(alive')]
  <2>1. Linked(heap', registered', stack', b + 1, b + 2)
    <3>1. (b + 1) - 1 = b /\ b \in 1..b
      BY <1>2
    <3>2. stack'[(b + 1) - 1] = t
      BY <1>2, <1>12, <3>1
    <3> QED BY <1>11, <1>12, <3>2 DEF Linked
  <2>2. Linked(heap', registered', stack', b + 2, b + 2)
    <3>1. (b + 2) - 1 = b + 1
      BY <1>2
    <3> QED BY <1>11, <1>12, <3>1 DEF Linked
  <2>3. \A j \in b + 1..b + 2 : Linked(heap', registered', stack', j, b + 2)
    <3>1. \A j \in b + 1..b + 2 : j = b + 1 \/ j = b + 2
      BY <1>2
    <3> QED BY <2>1, <2>2, <3>1
  <2>4. heap'[stack'[b + 2]].part \in LastParts["table"]
    BY <1>11, <1>12 DEF LastParts
  <2>5. \A j \in 1..b + 2 - 2 : stack'[j] # stack'[b + 2 - 1]
    <3>1. b + 2 - 2 = b /\ b + 2 - 1 = b + 1
      BY <1>2
    <3> QED BY ZenonT(30), <1>2, <1>7, <1>12, <3>1
  <2>6. 2 \in 1..3 /\ "table" \in {"ns", "class", "table"}
    OBVIOUS
  <2> QED BY <1>1, <1>10, <1>12, <2>3, <2>4, <2>5, <2>6, Opening DEF b
<1>14. stack' \in Seq(DOMAIN heap')
  <2>1. \A i \in 1..Len(stack') : i \in 1..b \/ i = b + 1 \/ i = b + 2
    BY <1>2, <1>12
  <2>2. \A i \in 1..Len(stack') : stack'[i] \in DOMAIN heap'
    BY <1>2, <1>11, <1>12, <2>1
  <2> QED BY <1>12, <2>2, SeqOfOthers
<1>15. RegisteredOK'
  BY <1>1, <1>3, <1>11, RegisteredKept
<1> QED BY <1>1, <1>3, <1>11, <1>13, <1>14, <1>15 DEF IInv, TypeOK

(* The three tables of a class are put on the stack, where they are bound  *)
(* to the class.                                                           *)
LEMMA ClassOpens ==
  ASSUME IInv, NEW o \in Obj, NEW w \in Obj, NEW c \in Class, Opens(o, "ns"),
         Move(o, w, "class", obj[o].size + 3, obj[o].skip), own' = own,
         HeapOK', RegisteredOK', DOMAIN registered' = Class,
         Kept(stack, heap, registered, heap', registered'),
         NEW x \in DOMAIN heap', NEW y \in DOMAIN heap', NEW z \in DOMAIN heap',
         registered'[c] = <<x, y, z>>, heap'[Top(1)].field[c] = z,
         heap'[x].part = "co", heap'[y].part = "cl", heap'[z].part = "st",
         stack' = stack \o <<x, y, z>>
  PROVE  IInv'
<1> DEFINE t == Top(1)
           b == Len(stack)
           new == <<x, y, z>>
<1>1. /\ b \in Nat \ {0} /\ t = stack[b] /\ t \in DOMAIN heap
      /\ stack \in Seq(Nat)
      /\ \A i \in 1..b : stack[i] \in DOMAIN heap /\ stack[i] \in 1..Len(heap)
  BY SpaceOnTop
<1>2. x \in Nat /\ y \in Nat /\ z \in Nat
  BY DEF HeapOK
<1>3. /\ new \in Seq(Nat) /\ Len(new) = 3 /\ new[1] = x /\ new[2] = y /\ new[3] = z
      /\ 1 \in 1..Len(new) /\ 2 \in 1..Len(new) /\ 3 \in 1..Len(new)
  BY <1>2
<1> HIDE DEF t, b, new
<1>4. /\ stack' \in Seq(Nat) /\ Len(stack') = b + 3 /\ stack'[b + 1] = x
      /\ stack'[b + 2] = y /\ stack'[b + 3] = z /\ \A i \in 1..b : stack'[i] = stack[i]
  <2>1. /\ stack' \in Seq(Nat) /\ Len(stack') = Len(stack) + Len(new)
        /\ \A i \in 1..Len(stack) : stack'[i] = stack[i]
        /\ \A i \in 1..Len(new) : stack'[Len(stack) + i] = new[i]
    <3>1. stack' = stack \o new
      BY DEF new
    <3>2. stack \in Seq(Nat)
      BY SMTT(30), <1>1
    <3> QED BY ONLY <1>3, <3>1, <3>2, PushedFacts
  <2> QED BY <1>3, <2>1 DEF b
<1>5. ObjectsOK' /\ Chained' /\ Len(stack') = Marks'[Len(alive')]
  <2>1. Linked(heap', registered', stack', b + 1, b + 3)
    <3>1. (b + 1) - 1 = b /\ b \in 1..b /\ (b + 1) + 1 = b + 2 /\ (b + 1) + 2 = b + 3
      BY <1>1
    <3>2. stack'[(b + 1) - 1] = t /\ heap'[t].field[c] = z
      BY SMTT(30), <1>1, <1>4, <3>1 DEF t
    <3>3. registered'[c] = <<x, y, z>> /\ heap'[x].part = "co" /\ heap'[z].part = "st"
          /\ c \in Class
      OBVIOUS
    <3> QED BY ONLY <1>4, <3>1, <3>2, <3>3 DEF Linked
  <2>2. Linked(heap', registered', stack', b + 2, b + 3)
    <3>1. (b + 2) - 1 = b + 1 /\ (b + 2) + 1 = b + 3
      BY <1>1
    <3> QED BY <1>4, <3>1 DEF Linked
  <2>3. Linked(heap', registered', stack', b + 3, b + 3)
    <3>1. (b + 3) - 1 = b + 2
      BY <1>1
    <3> QED BY <1>4, <3>1 DEF Linked
  <2>4. \A j \in b + 1..b + 3 : Linked(heap', registered', stack', j, b + 3)
    <3>1. \A j \in b + 1..b + 3 : j = b + 1 \/ j = b + 2 \/ j = b + 3
      BY ONLY <1>1
    <3> QED BY <2>1, <2>2, <2>3, <3>1
  <2>5. heap'[stack'[b + 3]].part \in LastParts["class"]
    BY <1>4 DEF LastParts
  <2>6. 3 \in 1..3 /\ "class" \in {"ns", "class", "table"} /\ "class" # "table"
    OBVIOUS
  <2> QED BY <1>4, <2>4, <2>5, <2>6, Opening DEF b
<1>6. stack' \in Seq(DOMAIN heap')
  <2>1. \A i \in 1..Len(stack') : i \in 1..b \/ i = b + 1 \/ i = b + 2 \/ i = b + 3
    BY ONLY <1>1, <1>4
  <2>2. \A u \in DOMAIN heap : u \in DOMAIN heap'
    BY DEF Kept
  <2>3. \A i \in 1..Len(stack') : stack'[i] \in DOMAIN heap'
    BY ZenonT(40), <1>1, <1>4, <2>1, <2>2
  <2> QED BY <1>4, <2>3, SeqOfOthers
<1>7. own \in Nat
  BY DEF IInv, TypeOK
<1> QED BY <1>5, <1>6, <1>7 DEF IInv, TypeOK

(* The tables of a new class.                                              *)
LEMMA ClassTables ==
  ASSUME IInv, NEW o \in Obj, NEW c \in Class, Opens(o, "ns"),
         heap[Top(1)].field[c] = Nil, heap' = DeriveTables(c)
  PROVE  LET t == Len(heap) + 1
         IN  /\ HeapOK' /\ t \in DOMAIN heap' /\ t + 1 \in DOMAIN heap' /\ t + 2 \in DOMAIN heap'
             /\ heap'[t].part = "co" /\ heap'[t + 1].part = "cl" /\ heap'[t + 2].part = "st"
             /\ heap'[Top(1)].field[c] = t + 2
             /\ \A u \in DOMAIN heap : u \in DOMAIN heap' /\ heap'[u].part = heap[u].part
             /\ (\A d \in Class : registered[d] # <<>> => registered'[d] = registered[d])
                   => Kept(stack, heap, registered, heap', registered')
<1> DEFINE t == Top(1)
           v == Len(heap) + 1
           g == heap \o <<NewTable("co"), NewTable("cl"), NewTable("st")>>
<1>1. /\ t \in DOMAIN heap /\ heap[t].part \in Space
      /\ \A i \in 1..Len(stack) : stack[i] \in DOMAIN heap /\ stack[i] \in 1..Len(heap)
  BY SpaceOnTop
<1>2. /\ TypeOK /\ HeapOK /\ Len(heap) \in Nat /\ DOMAIN heap = 1..Len(heap) /\ c \in Key
      /\ c \notin Name
  BY ChainAssumption DEF IInv, TypeOK, HeapOK, Key
<1>3. heap' = Set(g, t, c, v + 2)
  BY DEF DeriveTables
<1>4. /\ GrownHeap(g) /\ Len(g) = Len(heap) + 3
      /\ g[Len(heap) + 1].part = "co" /\ g[Len(heap) + 2].part = "cl"
      /\ g[Len(heap) + 3].part = "st"
  BY <1>2, ThreeTables
<1>5. heap[t].field[c] \notin {stack[i] : i \in 1..Len(stack)}
  BY <1>1, <1>2 DEF Nil
<1> HIDE DEF t, g
<1>6. v + 1 = Len(heap) + 2 /\ v + 2 = Len(heap) + 3
      /\ v \in 1..Len(g) /\ v + 1 \in 1..Len(g) /\ v + 2 \in 1..Len(g)
  BY <1>2, <1>4
<1>7. Bound(g, t, c, v + 2)
  BY <1>1, <1>2, <1>3, <1>4, <1>6, BoundHeap
<1>8. t \in 1..Len(g)
  BY <1>1, <1>2, <1>4
<1>9. (\A d \in Class : registered[d] # <<>> => registered'[d] = registered[d])
        => Kept(stack, heap, registered, heap', registered')
  BY <1>2, <1>5, <1>7, BoundKept
<1> QED BY <1>2, <1>4, <1>6, <1>7, <1>8, <1>9 DEF Bound, t

(* A class that is registered for the first time, with or without a base.  *)
LEMMA NewClassKeeps ==
  ASSUME IInv, NEW o \in Obj, NEW w \in Obj, NEW c \in Class, Opens(o, "ns"),
         Move(o, w, "class", obj[o].size + 3, obj[o].skip), own' = own,
         heap[Top(1)].field[c] = Nil, heap' = DeriveTables(c), registered[c] = <<>>,
         NEW t, t = Len(heap) + 1,
         registered' = [registered EXCEPT ![c] = <<t, t + 1, t + 2>>],
         stack' = stack \o <<t, t + 1, t + 2>>
  PROVE  IInv'
<1>1. RegisteredOK /\ DOMAIN registered = Class
  BY DEF IInv, TypeOK
<1>2. /\ registered'[c] = <<t, t + 1, t + 2>> /\ DOMAIN registered' = Class
      /\ \A d \in Class : d # c => registered'[d] = registered[d]
  BY ONLY <1>1, c \in Class, registered' = [registered EXCEPT ![c] = <<t, t + 1, t + 2>>]
<1>3. \A d \in Class : registered[d] # <<>> => registered'[d] = registered[d]
  BY <1>2
<1>4. /\ HeapOK' /\ t \in DOMAIN heap' /\ t + 1 \in DOMAIN heap' /\ t + 2 \in DOMAIN heap'
      /\ heap'[t].part = "co" /\ heap'[t + 1].part = "cl" /\ heap'[t + 2].part = "st"
      /\ heap'[Top(1)].field[c] = t + 2
      /\ \A u \in DOMAIN heap : u \in DOMAIN heap' /\ heap'[u].part = heap[u].part
      /\ Kept(stack, heap, registered, heap', registered')
  <2>1. /\ IInv /\ o \in Obj /\ c \in Class /\ Opens(o, "ns") /\ t = Len(heap) + 1
        /\ heap[Top(1)].field[c] = Nil /\ heap' = DeriveTables(c)
    OBVIOUS
  <2> QED BY ONLY <1>3, <2>1, ClassTables
<1>5. RegisteredOK'
  <2>1. SUFFICES ASSUME NEW d \in Class, registered'[d] # <<>>
                 PROVE  \E co, cl, st \in DOMAIN heap' :
                           /\ registered'[d] = <<co, cl, st>>
                           /\ heap'[co].part = "co" /\ heap'[cl].part = "cl"
                           /\ heap'[st].part = "st"
    BY DEF RegisteredOK
  <2>2. CASE d = c
    BY ONLY <1>2, <1>4, <2>2
  <2>3. CASE d # c
    <3>1. registered'[d] = registered[d] /\ registered[d] # <<>>
      BY ONLY <1>2, <2>1, <2>3
    <3>2. PICK co \in DOMAIN heap, cl \in DOMAIN heap, st \in DOMAIN heap :
               /\ registered[d] = <<co, cl, st>>
               /\ heap[co].part = "co" /\ heap[cl].part = "cl" /\ heap[st].part = "st"
      BY ONLY <1>1, <3>1, d \in Class DEF RegisteredOK
    <3> QED BY ONLY <1>4, <3>1, <3>2
  <2> QED BY <2>2, <2>3
<1>6. PICK y : y = t + 1
  OBVIOUS
<1>7. PICK z : z = t + 2
  OBVIOUS
<1>8. /\ y \in DOMAIN heap' /\ z \in DOMAIN heap' /\ registered'[c] = <<t, y, z>>
      /\ heap'[y].part = "cl" /\ heap'[z].part = "st" /\ heap'[Top(1)].field[c] = z
      /\ stack' = stack \o <<t, y, z>>
  BY <1>2, <1>4, <1>6, <1>7
<1>9. /\ IInv /\ o \in Obj /\ w \in Obj /\ c \in Class /\ Opens(o, "ns") /\ own' = own
      /\ Move(o, w, "class", obj[o].size + 3, obj[o].skip)
  OBVIOUS
<1> QED BY ONLY SMTT(20), <1>2, <1>4, <1>5, <1>8, <1>9, ClassOpens

LEMMA DeriveClassKeeps ==
  ASSUME IInv, NEW o \in Obj, NEW w \in Obj, NEW c \in Class, NEW base \in Class,
         DeriveClass(o, w, c, base)
  PROVE  IInv'
<1>1. PICK t : t = Len(heap) + 1
  OBVIOUS
<1>2. /\ Opens(o, "ns") /\ own' = own /\ registered[c] = <<>>
      /\ heap[Top(1)].field[c] = Nil /\ heap' = DeriveTables(c)
      /\ Move(o, w, "class", obj[o].size + 3, obj[o].skip)
      /\ registered' = [registered EXCEPT ![c] = <<t, t + 1, t + 2>>]
      /\ stack' = stack \o <<t, t + 1, t + 2>>
  BY <1>1 DEF DeriveClass
<1> QED BY <1>1, <1>2, NewClassKeeps

LEMMA BeginClassKeeps ==
  ASSUME IInv, NEW o \in Obj, NEW w \in Obj, NEW c \in Class, BeginClass(o, w, c)
  PROVE  IInv'
<1>1. PICK t : t = Len(heap) + 1
  OBVIOUS
<1>2. /\ Opens(o, "ns") /\ own' = own
      /\ Move(o, w, "class", obj[o].size + 3, obj[o].skip)
  BY DEF BeginClass
<1>3. RegisteredOK /\ DOMAIN registered = Class /\ HeapOK
  BY DEF IInv, TypeOK
<1>4. CASE heap[Top(1)].field[c] = Nil
  <2>1. /\ registered[c] = <<>> /\ heap' = DeriveTables(c)
        /\ registered' = [registered EXCEPT ![c] = <<t, t + 1, t + 2>>]
        /\ stack' = stack \o registered'[c]
    BY <1>1, <1>4 DEF BeginClass, DeriveTables
  <2>2. registered'[c] = <<t, t + 1, t + 2>>
    BY <1>3, <2>1
  <2>3. stack' = stack \o <<t, t + 1, t + 2>>
    BY <2>1, <2>2
  <2> QED BY <1>1, <1>2, <1>4, <2>1, <2>3, NewClassKeeps
<1>5. CASE heap[Top(1)].field[c] # Nil
  <2>1. /\ registered[c] # <<>> /\ heap[Top(1)].field[c] = registered[c][3]
        /\ heap' = heap /\ registered' = registered
        /\ stack' = stack \o <<registered[c][1], registered[c][2], heap[Top(1)].field[c]>>
    BY <1>5 DEF BeginClass, Continued
  <2>2. PICK x \in DOMAIN heap, y \in DOMAIN heap, z \in DOMAIN heap :
             /\ registered[c] = <<x, y, z>>
             /\ heap[x].part = "co" /\ heap[y].part = "cl" /\ heap[z].part = "st"
    BY <1>3, <2>1 DEF RegisteredOK
  <2>3. registered[c][1] = x /\ registered[c][2] = y /\ registered[c][3] = z
    BY <2>2
  <2>4. stack' = stack \o <<x, y, z>> /\ heap'[Top(1)].field[c] = z
    BY <2>1, <2>3
  <2>5. /\ HeapOK' /\ RegisteredOK' /\ DOMAIN registered' = Class
        /\ Kept(stack, heap, registered, heap', registered')
    BY <1>3, <2>1 DEF HeapOK, RegisteredOK, Kept
  <2> QED BY ZenonT(40), <1>2, <2>1, <2>2, <2>4, <2>5, ClassOpens
<1> QED BY <1>4, <1>5
-----------------------------------------------------------------------------
(* The actions that close something.                                       *)

LEMMA PoppedStack ==
  ASSUME IInv, NEW n \in 0..Len(stack), stack' = Popped(n)
  PROVE  /\ stack' \in Seq(DOMAIN heap) /\ stack' \in Seq(Nat)
         /\ Len(stack) \in Nat /\ Len(stack') = Len(stack) - n
         /\ \A i \in 1..Len(stack) - n : stack'[i] = stack[i]
<1>1. stack \in Seq(DOMAIN heap) /\ Len(stack) \in Nat /\ DOMAIN heap \subseteq Nat
  BY DEF IInv, TypeOK, HeapOK
<1>2. PICK m \in 0..Len(stack) : m = Len(stack) - n
  <2>1. PICK l \in Nat : l = Len(stack)
    BY <1>1
  <2>2. n \in 0..l
    BY <2>1
  <2>3. l - n \in 0..l
    BY ONLY <2>1, <2>2
  <2> QED BY <2>1, <2>3
<1>3. stack' = SubSeq(stack, 1, m)
  BY <1>2 DEF Popped
<1>4. /\ stack' \in Seq(DOMAIN heap) /\ Len(stack') = m
      /\ \A i \in 1..m : stack'[i] = stack[i]
  BY <1>1, <1>3, PoppedFacts
<1>5. stack' \in Seq(Nat)
  <2>1. \A i \in 1..Len(stack') : stack'[i] \in Nat
    BY <1>1, <1>4
  <2> QED BY <1>4, <2>1, SeqOfOthers
<1> QED BY <1>1, <1>2, <1>4, <1>5

LEMMA EndKeeps ==
  ASSUME IInv, NEW o \in Obj, NEW w \in Obj, End(o, w)
  PROVE  IInv'
<1> DEFINE x == obj[o]
<1>1. PICK n : n = Closed(x.kind)
  OBVIOUS
<1>2. /\ Innermost(o) /\ x.size > n /\ stack' = Popped(n)
      /\ Move(o, w, "ns", x.size - n, x.skip)
      /\ own' = own /\ heap' = heap /\ registered' = registered
  BY <1>1 DEF End
<1>3. PICK b \in Nat : b = Len(stack)
  BY <1>2, OnTop
<1>4. ChainAt(heap, registered, stack, x, b - x.size, b) /\ x.size \in Nat \ {0}
  BY <1>2, <1>3, OnTop
<1>5. PICK a \in Int : a = b - x.size
  BY <1>3, <1>4
<1>6. /\ TypeOK /\ HeapOK /\ RegisteredOK /\ DOMAIN registered = Class /\ own \in Nat
      /\ stack \in Seq(DOMAIN heap)
  BY DEF IInv, TypeOK
<1> HIDE DEF x
<1>7. ChainAt(heap, registered, stack, x, a, b) /\ Shape(heap, stack, x, a, b)
  BY <1>4, <1>5, ChainShape
<1>8. x.kind \in {"ns", "class", "table"} /\ \A j \in a + 2..b : Linked(heap, registered, stack, j, b)
      /\ a \in Nat /\ b = a + x.size /\ a + 1 <= b /\ b <= Len(stack)
      /\ heap[stack[a + 1]].part \in {"global", "user"}
  BY <1>7 DEF ChainAt, Shape
<1>9. n \in 1..3 /\ (x.kind = "ns" <=> n = 1) /\ (x.kind = "table" <=> n = 2)
      /\ (x.kind = "class" <=> n = 3)
  BY <1>1, <1>8 DEF Closed
<1>10. PICK e \in Nat : e = b - n
  BY <1>2, <1>3, <1>4, <1>5, <1>8, <1>9
<1>11. a + 1 <= e /\ e < b /\ e \in Nat /\ b \in Nat /\ a \in Nat /\ e + n = b
       /\ e = a + (x.size - n) /\ x.size - n \in Nat \ {0}
  <2>1. PICK z \in Nat : z = x.size
    BY <1>4
  <2>2. z > n /\ b = a + z /\ e = b - n /\ n \in 1..3 /\ a \in Nat /\ b \in Nat
    <3>1. x.size > n
      BY <1>2
    <3>2. b = a + x.size /\ a \in Nat
      BY ONLY <1>7 DEF ChainAt
    <3> QED BY ONLY <1>9, <1>10, <2>1, <3>1, <3>2, b \in Nat
  <2>3. a + 1 <= e /\ e < b /\ e + n = b /\ e = a + (z - n) /\ z - n \in Nat \ {0}
    BY ONLY <2>2, z \in Nat
  <2> QED BY <2>1, <2>2, <2>3
<1>12. \A j \in a + 2..e : heap[stack[j]].part \in {"ns", "tb"}
  <2>1. CASE n = 1
    BY <1>7, <1>9, <1>11, <2>1 DEF Shape
  <2>2. CASE n = 2
    BY SMTT(20), <1>7, <1>9, <1>11, <2>2 DEF Shape
  <2>3. CASE n = 3
    BY <1>7, <1>9, <1>11, <2>3 DEF Shape
  <2> QED BY <1>9, <2>1, <2>2, <2>3
<1>13. \E k \in Name \union Class, i \in 1..Len(stack) : heap[stack[e]].field[k] = stack[i]
  <2>1. PICK j \in a + 2..b : j = e + 1
    BY <1>11, <1>9
  <2>2. Linked(heap, registered, stack, j, b) /\ j - 1 = e
    BY <1>8, <1>11, <2>1
  <2>3. CASE n = 1
    <3>1. heap[stack[j]].part \in {"ns", "tb"}
      BY <1>7, <1>9, <2>1, <2>3 DEF Shape
    <3>2. \E k \in Name : heap[stack[j - 1]].field[k] = stack[j]
      BY <2>2, <3>1, LinkedByName
    <3>3. j \in 1..Len(stack)
      BY <1>8, <1>11, <2>1
    <3> QED BY <2>2, <3>2, <3>3
  <2>4. CASE n = 2
    <3>1. heap[stack[j]].part \in {"ns", "tb"}
      <4>1. j = b - 1
        BY <1>11, <2>1, <2>4
      <4> QED BY <1>7, <1>9, <2>4, <4>1 DEF Shape
    <3>2. \E k \in Name : heap[stack[j - 1]].field[k] = stack[j]
      BY <2>2, <3>1, LinkedByName
    <3>3. j \in 1..Len(stack)
      BY <1>8, <1>11, <2>1
    <3> QED BY <2>2, <3>2, <3>3
  <2>5. CASE n = 3
    <3>1. heap[stack[j]].part = "co"
      <4>1. j = b - 2
        BY <1>11, <2>1, <2>5
      <4> QED BY <1>7, <1>9, <2>5, <4>1 DEF Shape
    <3>2. \E c \in Class : heap[stack[j - 1]].field[c] = stack[j + 2]
      BY <2>2, <3>1 DEF Linked
    <3>3. j + 2 \in 1..Len(stack)
      <4>1. j + 2 = b
        BY ONLY <1>11, <2>1, <2>5
      <4>2. b \in 1..Len(stack)
        BY ONLY <1>3, <1>11, Len(stack) \in Nat
      <4> QED BY <4>1, <4>2
    <3> QED BY <2>2, <3>2, <3>3
  <2> QED BY <1>9, <2>3, <2>4, <2>5
<1>14. heap[stack[e]].part \in Space
  <2>1. PICK k \in Name \union Class, i \in 1..Len(stack) : heap[stack[e]].field[k] = stack[i]
    BY <1>13
  <2>2. stack[e] \in DOMAIN heap /\ k \in Key
    BY <1>6, <1>8, <1>11 DEF Key
  <2> QED BY <1>6, <2>1, <2>2, OnlySpaces
<1>15. n \in 0..Len(stack) /\ Len(stack) - n = e
  <2>1. n \in 0..b /\ b - n = e
    BY ONLY <1>9, <1>11
  <2> QED BY ONLY <1>3, <2>1
<1>16. /\ stack' \in Seq(DOMAIN heap) /\ stack' \in Seq(Nat) /\ Len(stack') = e
       /\ \A i \in 1..e : stack'[i] = stack[i]
  BY <1>2, <1>15, PoppedStack
<1> DEFINE m == x.size - n
           y == [kind |-> "ns", size |-> m, skip |-> x.skip]
<1>17. ChainAt(heap, registered, stack', y, a, e)
  <2>1. \A j \in a + 2..e : Linked(heap, registered, stack', j, e)
    <3>1. TAKE j \in a + 2..e
    <3>2. j \in a + 2..b /\ j \in 1..e /\ j - 1 \in 1..e
      BY <1>11
    <3>3. \E k \in Name : heap[stack[j - 1]].field[k] = stack[j]
      BY <1>8, <1>12, <3>2, LinkedByName
    <3> QED BY <1>12, <1>16, <3>2, <3>3 DEF Linked
  <2>2. a \in Nat /\ e = a + y.size /\ y.size > 0 /\ e <= Len(stack') /\ a + 1 \in 1..e /\ e \in 1..e
    BY <1>11, <1>16
  <2>3. heap[stack'[a + 1]].part \in {"global", "user"} /\ heap[stack'[e]].part \in Space
    <3>1. stack'[a + 1] = stack[a + 1] /\ stack'[e] = stack[e]
      BY ONLY <1>16, <2>2
    <3>2. heap[stack[a + 1]].part \in {"global", "user"}
      BY ONLY <1>7 DEF ChainAt
    <3>3. heap[stack'[a + 1]].part \in {"global", "user"}
      BY ONLY <3>1, <3>2
    <3>4. heap[stack'[e]].part \in Space
      BY ONLY <1>14, <3>1
    <3> QED BY <3>3, <3>4
  <2>4. y.kind = "ns" /\ Space \subseteq LastParts["ns"]
    BY DEF Space, LastParts
  <2> HIDE DEF y
  <2> QED BY <2>1, <2>2, <2>3, <2>4 DEF ChainAt
<1>18. Kept(stack, heap, registered, heap', registered')
  BY <1>2 DEF Kept
<1>19. ObjectsOK' /\ Chained' /\ Len(stack') = Marks'[Len(alive')]
  <2>1. m \in Nat \ {0} /\ Len(stack') = a + m /\ \A i \in 1..a + 1 : stack'[i] = stack[i]
    <3>1. a + 1 \in Nat /\ \A i \in 1..a + 1 : i \in 1..e
      BY ONLY <1>11
    <3>2. Len(stack') = e /\ \A i \in 1..e : stack'[i] = stack[i]
      BY ONLY <1>16
    <3>3. x.size - n \in Nat \ {0} /\ e = a + (x.size - n)
      BY ONLY <1>11
    <3> QED BY ONLY <3>1, <3>2, <3>3
  <2>2. Move(o, w, "ns", m, obj[o].skip) /\ a = Len(stack) - obj[o].size
    BY <1>2, <1>3, <1>5 DEF x
  <2>3. ChainAt(heap', registered', stack', [kind |-> "ns", size |-> m, skip |-> obj[o].skip], a, a + m)
    BY <1>2, <1>11, <1>17 DEF x
  <2>4. "ns" \in {"ns", "class", "table"}
    OBVIOUS
  <2> HIDE DEF m, y
  <2> QED BY <1>2, <1>16, <1>18, <2>1, <2>2, <2>3, <2>4, Rebased
<1>20. HeapOK' /\ RegisteredOK'
  BY <1>2, <1>6 DEF HeapOK, RegisteredOK
<1> QED BY <1>2, <1>6, <1>16, <1>19, <1>20 DEF IInv, TypeOK
-----------------------------------------------------------------------------
(* What is registered through an open object.                              *)

(* The tables that the functions of a class or of a table fill.            *)
LEMMA FilledTables ==
  ASSUME IInv, NEW o \in Obj, Innermost(o)
  PROVE  /\ obj[o].kind = "class" => \A k \in 1..3 : /\ Top(k) \in DOMAIN heap
                                                   /\ heap[Top(k)].part \notin Space
         /\ obj[o].kind = "table" =>
              /\ Top(1) \in DOMAIN heap /\ heap[Top(1)].part \notin Space
              /\ \A j \in 1..Len(stack) - 1 : stack[j] = Top(2) => heap[stack[j + 1]].part = "mt"
<1> DEFINE x == obj[o]
           b == Len(stack)
<1>1. /\ ChainAt(heap, registered, stack, x, b - x.size, b)
      /\ b \in Nat /\ x.size \in Nat \ {0}
  BY OnTop
<1>2. PICK a \in Int : a = b - x.size
  BY <1>1
<1>3. ChainAt(heap, registered, stack, x, a, b)
  BY <1>1, <1>2
<1> HIDE DEF x, b
<1>4. Shape(heap, stack, x, a, b)
  BY <1>1, <1>3, ChainShape
<1>5. a \in Nat /\ a + 1 <= b
  BY <1>4 DEF Shape
<1>6. \A i \in 1..b : stack[i] \in DOMAIN heap
  BY DEF IInv, TypeOK, b
<1>7. \A k \in Int : Top(k) = stack[(b + 1) - k]
  BY DEF Top, b
<1>8. (b + 1) - 1 = b /\ (b + 1) - 2 = b - 1 /\ (b + 1) - 3 = b - 2 /\ b \in 1..b
  BY ONLY <1>1, <1>5
<1>9. Top(1) = stack[b] /\ Top(2) = stack[b - 1] /\ Top(3) = stack[b - 2]
  BY <1>7, <1>8
<1>10. ASSUME x.kind = "class", NEW k \in 1..3
       PROVE  Top(k) \in DOMAIN heap /\ heap[Top(k)].part \notin Space
  <2>1. /\ heap[stack[b]].part = "st" /\ heap[stack[b - 1]].part = "cl"
        /\ heap[stack[b - 2]].part = "co" /\ a + 4 <= b
    BY <1>4, <1>10 DEF Shape
  <2>2. b - 1 \in 1..b /\ b - 2 \in 1..b
    BY ONLY <1>1, <1>5, <2>1
  <2>3. k = 1 \/ k = 2 \/ k = 3
    OBVIOUS
  <2>4. CASE k = 1
    BY <1>6, <1>8, <1>9, <2>1, <2>4 DEF Space
  <2>5. CASE k = 2
    BY <1>6, <1>9, <2>1, <2>2, <2>5 DEF Space
  <2>6. CASE k = 3
    BY <1>6, <1>9, <2>1, <2>2, <2>6 DEF Space
  <2> QED BY <2>3, <2>4, <2>5, <2>6
<1>11. ASSUME x.kind = "table"
       PROVE  /\ Top(1) \in DOMAIN heap /\ heap[Top(1)].part \notin Space
              /\ \A j \in 1..b - 1 : stack[j] = Top(2) => heap[stack[j + 1]].part = "mt"
  <2>1. heap[stack[b]].part = "mt"
    BY <1>4, <1>11 DEF Shape
  <2>2. \A j \in 1..b - 2 : stack[j] # stack[b - 1]
    BY <1>3, <1>11 DEF ChainAt
  <2>3. \A j \in 1..b - 1 : j \in 1..b - 2 \/ j + 1 = b
    BY ONLY <1>1
  <2> QED BY <1>6, <1>8, <1>9, <2>1, <2>2, <2>3 DEF Space
<1> QED BY <1>10, <1>11 DEF x, b

(* A function is stored under name in the tables ts.                       *)
Filled(ts, name) ==
  /\ HeapOK' /\ DOMAIN heap' = DOMAIN heap
  /\ \A t \in DOMAIN heap : /\ heap'[t].part = heap[t].part
                            /\ \A k \in Key : heap'[t].field[k] =
                                  IF t \in ts /\ k = name THEN Function ELSE heap[t].field[k]

LEMMA FilledHeap ==
  ASSUME HeapOK, NEW ts, NEW name \in Key,
         heap' = [t \in DOMAIN heap |-> IF t \in ts
                                          THEN [heap[t] EXCEPT !.field[name] = Function]
                                          ELSE heap[t]]
  PROVE  Filled(ts, name)
<1>1. heap \in Seq(Tables) /\ DOMAIN heap = 1..Len(heap) /\ Len(heap) \in Nat
  BY DEF HeapOK
<1>2. \A x \in Tables : /\ [x EXCEPT !.field[name] = Function] \in Tables
                        /\ [x EXCEPT !.field[name] = Function].part = x.part
                        /\ \A k \in Key : [x EXCEPT !.field[name] = Function].field[k] =
                                             IF k = name THEN Function ELSE x.field[k]
  <2>1. TAKE x \in Tables
  <2> DEFINE f == [x.field EXCEPT ![name] = Function]
             y == [x EXCEPT !.field = f]
  <2>2. f \in [Key -> Nat \union {Function}]
        /\ \A k \in Key : f[k] = IF k = name THEN Function ELSE x.field[k]
    BY <2>1 DEF Tables
  <2> HIDE DEF f
  <2>3. y \in Tables /\ y.part = x.part /\ y.field = f
    BY <2>1, <2>2 DEF Tables
  <2>4. [x EXCEPT !.field[name] = Function] = y
    BY DEF f
  <2> QED BY <2>2, <2>3, <2>4
<1>3. \A t \in DOMAIN heap :
         /\ heap'[t] \in Tables /\ heap'[t].part = heap[t].part
         /\ \A k \in Key : heap'[t].field[k] =
               IF t \in ts /\ k = name THEN Function ELSE heap[t].field[k]
  <2>1. TAKE t \in DOMAIN heap
  <2>2. heap[t] \in Tables
    BY <1>1
  <2>3. CASE t \in ts
    BY ZenonT(40), <1>2, <2>2, <2>3
  <2>4. CASE t \notin ts
    BY <2>2, <2>4
  <2> QED BY <2>3, <2>4
<1>4. DOMAIN heap' = DOMAIN heap
  OBVIOUS
<1>5. heap' \in Seq(Tables)
  <2>1. heap' \in [1..Len(heap) -> Tables]
    BY <1>1, <1>3
  <2> QED BY <1>1, <2>1, SeqDef
<1>6. ASSUME NEW t \in DOMAIN heap', NEW k \in Key, heap'[t].field[k] > 0
      PROVE  /\ heap'[t].part \in Space /\ heap'[t].field[k] \in DOMAIN heap'
             /\ k \in Name => heap'[heap'[t].field[k]].part \in {"ns", "tb"}
  <2>1. heap'[t].field[k] = heap[t].field[k] /\ t \in DOMAIN heap
    BY <1>3, <1>4, <1>6 DEF Function
  <2>2. /\ heap[t].part \in Space /\ heap[t].field[k] \in DOMAIN heap
        /\ k \in Name => heap[heap[t].field[k]].part \in {"ns", "tb"}
    BY <1>6, <2>1 DEF HeapOK
  <2> QED BY <1>3, <1>4, <2>1, <2>2
<1>7. 1 \in DOMAIN heap' /\ heap'[Global].part = "global"
  BY <1>3, <1>4 DEF HeapOK, Global
<1>8. HeapOK'
  BY ONLY <1>5, <1>6, <1>7 DEF HeapOK
<1> QED BY ONLY <1>3, <1>4, <1>8 DEF Filled

(* Nothing moves, and the chains keep what links them.                     *)
LEMMA SameStackKeeps ==
  ASSUME IInv, HeapOK', UNCHANGED <<stack, own, obj, alive, registered>>,
         Kept(stack, heap, registered, heap', registered')
  PROVE  IInv'
<1>1. stack' = stack /\ own' = own /\ obj' = obj /\ alive' = alive /\ registered' = registered
  OBVIOUS
<1>2. TypeOK /\ stack \in Seq(DOMAIN heap) /\ own \in Nat /\ ObjectsOK /\ RegisteredOK
      /\ DOMAIN registered = Class
  BY DEF IInv, TypeOK
<1>3. \A u \in DOMAIN heap : u \in DOMAIN heap' /\ heap'[u].part = heap[u].part
  BY DEF Kept
<1>4. stack' \in Seq(DOMAIN heap')
  <2>1. \A i \in 1..Len(stack) : stack[i] \in DOMAIN heap'
    BY <1>2, <1>3
  <2>2. stack \in Seq(DOMAIN heap')
    BY <1>2, <2>1, SeqOfOthers
  <2> QED BY <1>1, <2>2
<1>5. ObjectsOK' /\ Marks' = Marks
  BY <1>1, <1>2 DEF ObjectsOK, Living, Marks, Tops
<1>6. Chained'
  <2>1. SUFFICES ASSUME NEW i \in DOMAIN alive, obj[alive[i]].size > 0
                 PROVE  ChainAt(heap', registered', stack, obj[alive[i]],
                                Marks[i - 1] - obj[alive[i]].skip, Marks[i])
    BY <1>1, <1>5 DEF Chained, Active
  <2> DEFINE x == obj[alive[i]]
  <2>2. ChainAt(heap, registered, stack, x, Marks[i - 1] - x.skip, Marks[i])
    BY <2>1 DEF IInv, Chained, Active
  <2>3. x.size \in Nat
    BY <1>2, MarkFacts
  <2>4. Marks[i] <= Len(stack) /\ \A j \in 1..Marks[i] : stack[j] = stack[j]
    BY <2>2 DEF ChainAt
  <2> HIDE DEF x
  <2>5. ChainAt(heap', registered', stack, x, Marks[i - 1] - x.skip, Marks[i])
    BY <1>2, <2>2, <2>3, <2>4, ChainKept
  <2> QED BY <2>5 DEF x
<1>7. RegisteredOK'
  BY <1>1, <1>2, <1>3, RegisteredKept
<1>8. Len(stack') = Marks'[Len(alive')]
  BY <1>1, <1>5 DEF IInv
<1> QED BY <1>1, <1>2, <1>4, <1>5, <1>6, <1>7, <1>8 DEF IInv, TypeOK

(* What is stored takes the place of no table that a chain has opened, but *)
(* for the one that a Table fills.                                         *)
Free(t, name) ==
  \/ name \in LightKeys
  \/ heap[t].field[name] \notin {stack[i] : i \in 1..Len(stack)}
  \/ \A j \in 1..Len(stack) - 1 : stack[j] = t => heap[stack[j + 1]].part = "mt"

LEMMA RegisterKeeps ==
  ASSUME IInv, NEW o \in Obj, NEW kind, NEW ks, NEW name \in Key, Register(o, kind, ks, name),
         \A k \in ks : Free(Top(k), name)
  PROVE  IInv'
<1> DEFINE ts == {Top(k) : k \in ks}
<1>1. HeapOK /\ stack \in Seq(DOMAIN heap) /\ Len(stack) \in Nat
  BY DEF IInv, TypeOK
<1>2. heap' = [t \in DOMAIN heap |-> IF t \in ts THEN [heap[t] EXCEPT !.field[name] = Function]
                                                 ELSE heap[t]]
      /\ UNCHANGED <<stack, own, obj, alive, registered>>
  BY DEF Register
<1>3. \A t \in ts : Free(t, name)
  OBVIOUS
<1> HIDE DEF ts
<1>4. Filled(ts, name)
  BY <1>1, <1>2, FilledHeap
<1>5. ASSUME NEW j \in 1..Len(stack) - 1, NEW k \in Name \union Class,
             heap[stack[j]].field[k] \in {stack[i] : i \in 1..Len(stack)},
             heap[stack[j + 1]].part # "mt"
      PROVE  heap'[stack[j]].field[k] = heap[stack[j]].field[k]
  <2>1. stack[j] \in DOMAIN heap /\ k \in Key /\ k \notin LightKeys
    BY <1>1, ChainAssumption DEF Key
  <2>2. ~(stack[j] \in ts /\ k = name)
    BY <1>3, <1>5, <2>1 DEF Free
  <2> QED BY <1>4, <2>1, <2>2 DEF Filled
<1>6. Kept(stack, heap, registered, heap', registered')
  BY <1>2, <1>4, <1>5 DEF Kept, Filled
<1>7. HeapOK'
  BY <1>4 DEF Filled
<1> QED BY <1>2, <1>6, <1>7, SameStackKeeps

LEMMA AddKeeps ==
  ASSUME IInv, NEW o \in Obj, Add(o)
  PROVE  IInv'
<1>1. /\ {"converters", "properties"} = LightKeys /\ LightKeys \subseteq Key
      /\ {"__call", "__destruct"} \subseteq Key /\ Name \subseteq Key
  BY DEF Key, Reserved, LightKeys
<1>2. TypeOK
  BY DEF IInv
<1>3. ASSUME NEW n \in Name, AddToNamespace(o, n) PROVE IInv'
  <2>1. Register(o, "ns", {1}, n) /\ heap[Top(1)].field[n] \notin Range(stack)
    BY <1>3 DEF AddToNamespace
  <2>2. DOMAIN stack = 1..Len(stack)
    BY <1>2 DEF TypeOK
  <2>3. \A k \in {1} : Free(Top(k), n)
    BY <2>1, <2>2 DEF Free, Range
  <2> QED BY <1>1, <2>1, <2>3, RegisterKeeps
<1>4. ASSUME NEW n \in Name, AddToTable(o, n) PROVE IInv'
  <2>1. Register(o, "table", {2}, n) /\ Innermost(o) /\ obj[o].kind = "table"
    BY <1>4 DEF AddToTable, Register
  <2>2. \A k \in {2} : Free(Top(k), n)
    BY <2>1, FilledTables DEF Free
  <2> QED BY <1>1, <2>1, <2>2, RegisterKeeps
<1>5. ASSUME NEW n \in Name, AddToMetatable(o, n) PROVE IInv'
  <2>1. Register(o, "table", {1}, n) /\ Innermost(o) /\ obj[o].kind = "table"
    BY <1>5 DEF AddToMetatable, Register
  <2>2. heap[Top(1)].field[n] \notin {stack[i] : i \in 1..Len(stack)}
    BY <1>1, <1>2, <2>1, FilledTables, OnlySpaces
  <2>3. \A k \in {1} : Free(Top(k), n)
    BY <2>2 DEF Free
  <2> QED BY <1>1, <2>1, <2>3, RegisterKeeps
<1>6. ASSUME NEW n \in Key, NEW ks \in SUBSET (1..3), Register(o, "class", ks, n) PROVE IInv'
  <2>1. Innermost(o) /\ obj[o].kind = "class"
    BY <1>6 DEF Register
  <2>2. \A k \in ks : Free(Top(k), n)
    <3>1. TAKE k \in ks
    <3>2. Top(k) \in DOMAIN heap /\ heap[Top(k)].part \notin Space
      BY <2>1, FilledTables
    <3>3. heap[Top(k)].field[n] \notin {stack[i] : i \in 1..Len(stack)}
      BY <1>1, <1>2, <3>2, OnlySpaces
    <3> QED BY <3>3 DEF Free
  <2> QED BY <1>1, <1>6, <2>2, RegisterKeeps
<1>7. ASSUME NEW name \in LightKeys, NEW kind, NEW ks, Register(o, kind, ks, name) PROVE IInv'
  <2>1. \A k \in ks : Free(Top(k), name)
    BY DEF Free
  <2> QED BY <1>1, <1>7, <2>1, RegisterKeeps
<1>8. {1} \in SUBSET (1..3) /\ {2} \in SUBSET (1..3) /\ {2, 3} \in SUBSET (1..3)
  OBVIOUS
<1>9. ASSUME NEW n \in Name, AddStatic(o, n) \/ AddMethod(o, n) \/ AddConstMethod(o, n)
      PROVE  IInv'
  BY <1>1, <1>6, <1>8, <1>9 DEF AddStatic, AddMethod, AddConstMethod
<1>10. CASE AddConstructor(o) \/ AddDestructor(o)
  BY <1>1, <1>6, <1>8, <1>10 DEF AddConstructor, AddDestructor
<1>11. CASE AddProperty(o) \/ AddConverter(o)
  BY <1>1, <1>7, <1>11 DEF AddProperty, AddConverter
<1> QED BY <1>3, <1>4, <1>5, <1>9, <1>10, <1>11 DEF Add
-----------------------------------------------------------------------------
(* The actions that start and finish a chain.                              *)

LEMMA GlobalNamespaceKeeps ==
  ASSUME IInv, NEW w \in Obj, GlobalNamespace(w)
  PROVE  IInv'
<1>1. /\ Move(w, w, "ns", 1, 0) /\ ~Active(w) /\ stack' = Append(stack, Global)
      /\ own' = own /\ heap' = heap /\ registered' = registered
  BY DEF GlobalNamespace
<1>2. /\ TypeOK /\ HeapOK /\ RegisteredOK /\ DOMAIN registered = Class /\ own \in Nat
      /\ stack \in Seq(DOMAIN heap) /\ Global \in DOMAIN heap /\ heap[Global].part = "global"
      /\ DOMAIN heap \subseteq Nat /\ Len(stack) \in Nat
  BY DEF IInv, TypeOK, HeapOK, Global
<1>3. /\ stack' \in Seq(DOMAIN heap) /\ Len(stack') = Len(stack) + 1
      /\ \A i \in 1..Len(stack) : stack'[i] = stack[i]
      /\ stack'[Len(stack) + 1] = Global
  BY <1>1, <1>2, AppendProperties
<1>4. stack' \in Seq(Nat)
  <2>1. \A i \in 1..Len(stack') : stack'[i] \in Nat
    BY <1>2, <1>3
  <2> QED BY <1>3, <2>1, SeqOfOthers
<1>5. ObjectsOK' /\ Chained' /\ Len(stack') = Marks'[Len(alive')]
  <2>1. 0 \in 0..1 /\ Len(stack') = Len(stack) + (1 - 0) /\ Len(stack') > 0
    BY <1>2, <1>3
  <2>2. heap'[stack'[Len(stack')]].part \in {"global", "user"}
    BY <1>1, <1>2, <1>3
  <2>3. Kept(stack, heap, registered, heap', registered')
    BY <1>1 DEF Kept
  <2> QED BY <1>1, <1>3, <1>4, <2>1, <2>2, <2>3, NewChain
<1>6. HeapOK' /\ RegisteredOK'
  BY <1>1, <1>2 DEF HeapOK, RegisteredOK
<1> QED BY <1>1, <1>2, <1>3, <1>5, <1>6 DEF IInv, TypeOK

(* The table on top loses its properties, which lead to no table.          *)
LEMMA PropertiesCleared ==
  ASSUME TypeOK, NEW t \in DOMAIN heap, heap' = Set(heap, t, "properties", Nil)
  PROVE  /\ HeapOK' /\ DOMAIN heap' = DOMAIN heap
         /\ \A u \in DOMAIN heap :
               /\ heap'[u].part = heap[u].part
               /\ \A k \in Name \union Class : heap'[u].field[k] = heap[u].field[k]
<1>1. /\ HeapOK /\ heap \in Seq(Tables) /\ DOMAIN heap = 1..Len(heap) /\ Len(heap) \in Nat
      /\ 1 \in DOMAIN heap /\ heap[Global].part = "global"
  BY DEF TypeOK, HeapOK
<1>2. "properties" \in Key /\ Nil \in Nat \union {Function}
  BY DEF Key, Reserved, LightKeys, Nil
<1>3. IsSet(heap', heap, t, "properties", Nil)
  BY <1>1, <1>2, SetFacts
<1>4. heap' \in Seq(Tables) /\ DOMAIN heap' = DOMAIN heap
  BY <1>1, <1>3 DEF IsSet
<1>5. \A u \in DOMAIN heap :
         /\ heap'[u].part = heap[u].part
         /\ \A k \in Key : heap'[u].field[k] =
                              IF u = t /\ k = "properties" THEN Nil ELSE heap[u].field[k]
  BY <1>3 DEF IsSet
<1>6. \A k \in Name \union Class : k \in Key /\ k # "properties"
  BY ChainAssumption DEF Key, LightKeys
<1>7. ASSUME NEW u \in DOMAIN heap', NEW k \in Key, heap'[u].field[k] > 0
      PROVE  /\ heap'[u].part \in Space /\ heap'[u].field[k] \in DOMAIN heap'
             /\ k \in Name => heap'[heap'[u].field[k]].part \in {"ns", "tb"}
  <2>1. heap'[u].field[k] = heap[u].field[k] /\ u \in DOMAIN heap
    BY <1>4, <1>5, <1>7 DEF Nil
  <2>2. /\ heap[u].part \in Space /\ heap[u].field[k] \in DOMAIN heap
        /\ k \in Name => heap[heap[u].field[k]].part \in {"ns", "tb"}
    BY <1>1, <1>7, <2>1 DEF HeapOK
  <2> QED BY <1>4, <1>5, <2>1, <2>2
<1>8. HeapOK'
  <2>1. 1 \in DOMAIN heap' /\ heap'[Global].part = "global"
    BY <1>1, <1>4, <1>5 DEF Global
  <2> QED BY ONLY <1>4, <1>7, <2>1 DEF HeapOK
<1> QED BY ONLY <1>4, <1>5, <1>6, <1>8

LEMMA NamespaceFromStackKeeps ==
  ASSUME IInv, NEW w \in Obj, NamespaceFromStack(w)
  PROVE  IInv'
<1>1. /\ Move(w, w, "ns", 1, 1) /\ ~Active(w) /\ stack' = stack /\ stack # <<>>
      /\ heap[Top(1)].part = "user"
      /\ own' = own /\ heap' = Set(heap, Top(1), "properties", Nil) /\ registered' = registered
  BY DEF NamespaceFromStack
<1>2. /\ TypeOK /\ HeapOK /\ RegisteredOK /\ DOMAIN registered = Class /\ own \in Nat
      /\ stack \in Seq(DOMAIN heap) /\ DOMAIN heap \subseteq Nat /\ Len(stack) \in Nat
  BY DEF IInv, TypeOK, HeapOK
<1>3. stack' \in Seq(Nat)
  <2>1. \A i \in 1..Len(stack) : stack[i] \in Nat
    BY <1>2
  <2> QED BY <1>1, <1>2, <2>1, SeqOfOthers
<1>4. Len(stack) > 0 /\ Top(1) = stack[Len(stack)]
  <2>1. Len(stack) > 0
    BY <1>1, <1>2
  <2>2. \A l \in Nat : l + 1 - 1 = l
    BY ONLY SMTT(30)
  <2> QED BY <1>2, <2>1, <2>2 DEF Top
<1>5. Top(1) \in DOMAIN heap
  BY <1>2, <1>4
<1>6. /\ HeapOK' /\ DOMAIN heap' = DOMAIN heap
      /\ \A u \in DOMAIN heap :
            /\ heap'[u].part = heap[u].part
            /\ \A k \in Name \union Class : heap'[u].field[k] = heap[u].field[k]
  BY <1>1, <1>2, <1>5, PropertiesCleared
<1>7. Kept(stack, heap, registered, heap', registered')
  <2>1. \A j \in 1..Len(stack) - 1 : stack[j] \in DOMAIN heap
    BY <1>2
  <2> QED BY <1>1, <1>6, <2>1 DEF Kept
<1>8. ObjectsOK' /\ Chained' /\ Len(stack') = Marks'[Len(alive')]
  <2>1. 1 \in 0..1 /\ Len(stack') = Len(stack) + (1 - 1) /\ Len(stack') > 0
    BY <1>1, <1>2, <1>4
  <2>2. heap'[stack'[Len(stack')]].part \in {"global", "user"}
    BY <1>1, <1>4, <1>5, <1>6
  <2>3. \A i \in 1..Len(stack) : stack'[i] = stack[i]
    BY <1>1
  <2> QED BY ZenonT(30), <1>1, <1>3, <1>7, <2>1, <2>2, <2>3, NewChain
<1>9. RegisteredOK'
  BY <1>1, <1>2, <1>6, RegisteredKept
<1>10. stack' \in Seq(DOMAIN heap')
  BY <1>1, <1>2, <1>6
<1> QED BY <1>1, <1>2, <1>6, <1>8, <1>9, <1>10 DEF IInv, TypeOK

(* An object pops what it counts, and only the first m - 1 are left.       *)
LEMMA Released ==
  ASSUME IInv, NEW o \in Obj, ObjectsOK', own' = own, NEW m \in 1..Len(alive), Dropped(m),
         Marks[Len(alive)] = Marks[m - 1] + Takes(obj[o]),
         Kept(stack, heap, registered, heap', registered'),
         stack' = Popped(obj[o].size - obj[o].skip)
  PROVE  Chained' /\ Len(stack') = Marks'[Len(alive')] /\ stack' \in Seq(DOMAIN heap')
<1>1. ObjectsOK /\ own \in Nat /\ Len(stack) = Marks[Len(alive)] /\ Len(stack) \in Nat
  BY DEF IInv, TypeOK
<1>2. Marks[m - 1] \in Nat /\ Takes(obj[o]) \in Nat
  <2>1. m - 1 \in 0..Len(alive)
    BY <1>1, MarkFacts
  <2> QED BY <1>1, <2>1, MarkFacts
<1>3. PICK n : n = Takes(obj[o])
  OBVIOUS
<1>4. n \in 0..Len(stack) /\ Len(stack) - n = Marks[m - 1]
  <2>1. Len(stack) = Marks[m - 1] + n
    BY <1>1, <1>3
  <2> QED BY ONLY <1>1, <1>2, <1>3, <2>1
<1>5. stack' = Popped(n)
  BY <1>3 DEF Takes
<1>6. /\ stack' \in Seq(DOMAIN heap) /\ stack' \in Seq(Nat) /\ Len(stack') = Marks[m - 1]
      /\ \A i \in 1..Marks[m - 1] : stack'[i] = stack[i]
  BY <1>4, <1>5, PoppedStack
<1>7. Chained' /\ Len(stack') = Marks'[Len(alive')]
  BY <1>6, DroppedChains
<1>8. stack' \in Seq(DOMAIN heap')
  <2>1. \A u \in DOMAIN heap : u \in DOMAIN heap'
    BY DEF Kept
  <2>2. \A i \in 1..Len(stack') : stack'[i] \in DOMAIN heap'
    BY <1>6, <2>1
  <2> QED BY <1>6, <2>2, SeqOfOthers
<1> QED BY <1>7, <1>8

LEMMA DestroyKeeps ==
  ASSUME IInv, NEW o \in Obj, Destroy(o)
  PROVE  IInv'
<1>1. /\ alive # <<>> /\ Last(alive) = o /\ stack' = Popped(obj[o].size - obj[o].skip)
      /\ obj' = [obj EXCEPT ![o] = Empty] /\ alive' = Front(alive)
      /\ own' = own /\ heap' = heap /\ registered' = registered
  BY DEF Destroy
<1>2. /\ TypeOK /\ HeapOK /\ RegisteredOK /\ ObjectsOK /\ DOMAIN registered = Class
      /\ own \in Nat
  BY DEF IInv, TypeOK
<1>3. /\ obj \in [Obj -> Objects] /\ alive \in Seq(Obj)
      /\ \A i, j \in DOMAIN alive : alive[i] = alive[j] => i = j
      /\ Len(alive) \in Nat /\ DOMAIN alive = 1..Len(alive)
  BY <1>2 DEF ObjectsOK
<1>4. PICK m \in Nat \ {0} : m = Len(alive)
  <2>1. alive # <<>> /\ alive \in Seq(Obj)
    BY <1>1, <1>3
  <2>2. Len(alive) \in Nat \ {0}
    BY ONLY <2>1
  <2> QED BY ONLY <2>2
<1>5. /\ alive' \in Seq(Obj) /\ Len(alive') = m - 1 /\ DOMAIN alive' = 1..m - 1
      /\ \A i \in 1..m - 1 : alive'[i] = alive[i]
      /\ alive[m] = o
  <2>1. Len(alive) > 0
    BY SMTT(30), <1>4
  <2>2. /\ alive' \in Seq(Obj) /\ Len(alive') = m - 1
        /\ \A i \in 1..m - 1 : alive'[i] = alive[i]
    BY ZenonT(30), <1>1, <1>3, <1>4, <2>1, FrontFacts
  <2>3. alive[m] = o
    BY <1>1, <1>4 DEF Last
  <2> QED BY <2>2, <2>3
<1>6. /\ obj' \in [Obj -> Objects] /\ obj'[o] = Empty
      /\ \A x \in Obj \ {o} : obj'[x] = obj[x]
  <2>1. Empty \in Objects
    BY DEF Empty, Objects
  <2> QED BY <1>1, <1>3, <2>1
<1>7. \A i \in 1..m - 1 : i \in DOMAIN alive /\ m \in DOMAIN alive /\ i # m
                          /\ alive[i] \in Obj \ {o}
  <2>1. \A i \in 1..m - 1 : i \in 1..m /\ m \in 1..m /\ i # m
    BY <1>4
  <2>2. DOMAIN alive = 1..m /\ \A i \in 1..m : alive[i] \in Obj
    BY <1>3, <1>4
  <2>3. \A i \in 1..m - 1 : alive[i] # alive[m]
    BY ONLY <1>3, <2>1, <2>2
  <2> QED BY ONLY <1>5, <2>1, <2>2, <2>3
<1>8. ObjectsOK'
  <2>1. \A i, j \in DOMAIN alive' : alive'[i] = alive'[j] => i = j
    BY <1>3, <1>5, <1>7
  <2>2. \A x \in Obj : obj'[x].size = 0 => obj'[x].skip = 0
    BY <1>2, <1>6 DEF ObjectsOK, Empty
  <2>3. ASSUME NEW x \in Obj, ~Living(x)' PROVE obj'[x] = Empty
    <3>1. CASE x = o
      BY <1>6, <3>1
    <3>2. CASE x # o
      <4>1. \A i \in 1..m - 1 : alive[i] # x
        BY <1>5, <2>3 DEF Living, Range
      <4>2. \A i \in DOMAIN alive : i \in 1..m - 1 \/ i = m
        BY <1>3, <1>4
      <4>3. ~Living(x)
        BY <1>5, <3>2, <4>1, <4>2 DEF Living, Range
      <4> QED BY <1>2, <1>6, <3>2, <4>3 DEF ObjectsOK
    <3> QED BY <3>1, <3>2
  <2> QED BY <1>5, <1>6, <2>1, <2>2, <2>3 DEF ObjectsOK
<1>9. Dropped(m)
  <2>1. KeepsFirst(m)
    <3>1. m <= Len(alive) + 1 /\ m <= Len(alive') + 1
      BY <1>4, <1>5
    <3> QED BY <1>5, <1>6, <1>7, <3>1 DEF KeepsFirst
  <2>2. ~ \E i \in m..Len(alive') : TRUE
    BY <1>4, <1>5
  <2> QED BY <2>1, <2>2 DEF Dropped
<1>10. m \in 1..Len(alive) /\ Marks[Len(alive)] = Marks[m - 1] + Takes(obj[o])
  <2>1. IsTops(Marks, own, alive, obj)
    BY <1>2, MarkFacts
  <2>2. m \in 1..Len(alive)
    BY <1>4
  <2> QED BY <1>4, <1>5, <2>1, <2>2 DEF IsTops, UpTo
<1>11. Kept(stack, heap, registered, heap', registered')
  BY <1>1 DEF Kept
<1>12. Chained' /\ Len(stack') = Marks'[Len(alive')] /\ stack' \in Seq(DOMAIN heap')
  BY <1>1, <1>8, <1>9, <1>10, <1>11, Released
<1>13. HeapOK' /\ RegisteredOK'
  BY <1>1, <1>2 DEF HeapOK, RegisteredOK
<1> QED BY <1>1, <1>2, <1>8, <1>12, <1>13 DEF IInv, TypeOK

LEMMA DeriveClassThrowsKeeps ==
  ASSUME IInv, NEW o \in Obj, NEW c \in Class, NEW base \in Class, DeriveClassThrows(o, c, base)
  PROVE  IInv'
<1>1. /\ Opens(o, "ns") /\ heap[Top(1)].field[c] = Nil /\ heap' = DeriveTables(c)
      /\ stack' = Popped(obj[o].size - obj[o].skip)
      /\ obj' = [obj EXCEPT ![o].size = 0, ![o].skip = 0]
      /\ own' = own /\ alive' = alive /\ registered' = registered
  BY DEF DeriveClassThrows
<1>2. /\ TypeOK /\ RegisteredOK /\ ObjectsOK /\ DOMAIN registered = Class /\ own \in Nat
  BY DEF IInv, TypeOK
<1>3. /\ obj \in [Obj -> Objects] /\ alive \in Seq(Obj)
      /\ \A i, j \in DOMAIN alive : alive[i] = alive[j] => i = j
      /\ Len(alive) \in Nat /\ DOMAIN alive = 1..Len(alive)
  BY <1>2 DEF ObjectsOK
<1>4. /\ HeapOK' /\ Kept(stack, heap, registered, heap', registered')
      /\ \A u \in DOMAIN heap : u \in DOMAIN heap' /\ heap'[u].part = heap[u].part
  <2>1. \A d \in Class : registered[d] # <<>> => registered'[d] = registered[d]
    BY <1>1
  <2> QED BY <1>1, <2>1, ClassTables
<1>5. Living(o) /\ \A p \in Younger(o) : ~Active(p)
  BY <1>1 DEF Opens, Innermost
<1>6. PICK f \in 1..Len(alive) : alive[f] = o
  BY <1>2, <1>5, LivingAt
<1>7. \A i \in 1..Len(alive) : i > f => obj[alive[i]].size = 0 /\ alive[i] \in Obj \ {o}
  <2>1. TAKE i \in 1..Len(alive)
  <2>2. HAVE i > f
  <2>3. alive[i] \in Younger(o)
    BY <1>2, <1>6, <2>2, LivingAt
  <2>4. alive[i] \in Obj /\ obj[alive[i]].size \in Nat
    BY <1>2, MarkFacts
  <2>5. obj[alive[i]].size = 0
    BY <1>5, <2>3, <2>4 DEF Active
  <2>6. alive[i] # o
    BY <1>3, <1>6, <2>2
  <2> QED BY <2>4, <2>5, <2>6
<1>8. /\ obj' \in [Obj -> Objects] /\ obj'[o].size = 0 /\ obj'[o].skip = 0
      /\ \A x \in Obj \ {o} : obj'[x] = obj[x]
  <2> DEFINE y == [[obj[o] EXCEPT !.size = 0] EXCEPT !.skip = 0]
  <2>1. obj' = [obj EXCEPT ![o] = y]
    BY <1>1, <1>3
  <2>2. obj[o] \in Objects
    BY <1>3
  <2>3. y \in Objects /\ y.size = 0 /\ y.skip = 0
    <3>1. \A x \in Objects : [x EXCEPT !.size = 0] \in Objects /\ [x EXCEPT !.size = 0].size = 0
      BY DEF Objects
    <3>2. \A x \in Objects : /\ [x EXCEPT !.skip = 0] \in Objects
                             /\ [x EXCEPT !.skip = 0].size = x.size
                             /\ [x EXCEPT !.skip = 0].skip = 0
      BY DEF Objects
    <3> QED BY <2>2, <3>1, <3>2
  <2> HIDE DEF y
  <2> QED BY <1>3, <2>1, <2>3
<1>9. ObjectsOK'
  <2>1. \A x \in Obj : Living(x)' <=> Living(x)
    BY <1>1 DEF Living
  <2>2. \A x \in Obj : ~Living(x)' => obj'[x] = Empty
    BY <1>2, <1>5, <1>8, <2>1 DEF ObjectsOK
  <2>3. \A x \in Obj : obj'[x].size = 0 => obj'[x].skip = 0
    BY <1>2, <1>8 DEF ObjectsOK
  <2> QED BY <1>1, <1>3, <1>8, <2>2, <2>3 DEF ObjectsOK
<1>10. Dropped(f)
  <2>1. \A i \in 1..f - 1 : i \in DOMAIN alive /\ f \in DOMAIN alive /\ i # f
    BY <1>3
  <2>2. \A i \in 1..f - 1 : alive[i] \in Obj \ {o}
    BY <1>3, <1>6, <2>1
  <2>3. KeepsFirst(f)
    BY <1>1, <1>3, <1>8, <2>2 DEF KeepsFirst
  <2>4. \A i \in f..Len(alive') : obj'[alive'[i]].size = 0
    <3>1. TAKE i \in f..Len(alive')
    <3>2. i \in 1..Len(alive) /\ alive'[i] = alive[i] /\ (i = f \/ i > f)
      BY <1>1, <1>3
    <3> QED BY <1>6, <1>7, <1>8, <3>2
  <2> QED BY <2>3, <2>4 DEF Dropped
<1>11. Marks[Len(alive)] = Marks[f - 1] + Takes(obj[o])
  <2>1. f \in 1..f /\ \A i \in f..Len(alive) : i # f => i \in 1..Len(alive) /\ i > f
    BY <1>3
  <2>2. \A i \in f..Len(alive) : i # f => obj[alive[i]].size = 0
    BY <1>7, <2>1
  <2> QED BY <1>2, <1>6, <2>1, <2>2, ActiveMarks
<1>12. Chained' /\ Len(stack') = Marks'[Len(alive')] /\ stack' \in Seq(DOMAIN heap')
  BY <1>1, <1>4, <1>9, <1>10, <1>11, Released
<1>13. RegisteredOK'
  BY <1>1, <1>2, <1>4, RegisteredKept
<1> QED BY <1>1, <1>2, <1>4, <1>9, <1>12, <1>13 DEF IInv, TypeOK

(* While no object counts anything, the stack holds the program's entries. *)
LEMMA OnlyOwn ==
  ASSUME IInv, \A o \in Obj : ~Active(o), obj' = obj, alive' = alive, own' \in Nat
  PROVE  /\ Len(stack) = own /\ Marks'[Len(alive')] = own' /\ ObjectsOK' /\ Chained'
<1>1. ObjectsOK /\ own \in Nat /\ Len(stack) = Marks[Len(alive)]
  BY DEF IInv, TypeOK
<1>2. /\ IsTops(Marks, own, alive, obj) /\ Len(alive) \in Nat /\ DOMAIN alive = 1..Len(alive)
      /\ \A k \in 1..Len(alive) : alive[k] \in Obj
      /\ \A o \in Obj : obj[o].size \in Nat
      /\ \A o \in Obj : obj[o].size = 0 => Takes(obj[o]) = 0
  BY <1>1, MarkFacts
<1>3. ObjectsOK'
  BY <1>1 DEF ObjectsOK, Living
<1>4. \A k \in 1..Len(alive) : obj[alive[k]].size = 0 /\ Takes(obj[alive[k]]) = 0
  BY <1>2 DEF Active
<1>5. IsTops(Marks', own', alive, obj)
  BY <1>3, MarkFactsNext
<1>6. 0 \in 0..Len(alive) /\ Len(alive) \in 0..Len(alive)
      /\ \A k \in 0 + 1..Len(alive) : Takes(obj[alive[k]]) = 0
  BY <1>2, <1>4
<1>7. Marks[Len(alive)] = Marks[0] /\ Marks'[Len(alive)] = Marks'[0]
  BY ONLY <1>2, <1>5, <1>6, TopsFlat
<1>8. Marks[0] = own /\ Marks'[0] = own'
  BY <1>2, <1>5 DEF IsTops, UpTo
<1>9. Chained'
  BY <1>2, <1>4 DEF Chained, Active
<1> QED BY <1>1, <1>3, <1>7, <1>8, <1>9

LEMMA ProgramPushKeeps ==
  ASSUME IInv, ProgramPush
  PROVE  IInv'
<1> DEFINE g == Append(heap, NewTable("user"))
<1>1. /\ \A o \in Obj : ~Active(o)
      /\ heap' = g /\ stack' = Append(stack, Len(heap) + 1) /\ own' = own + 1
      /\ obj' = obj /\ alive' = alive /\ registered' = registered
  BY DEF ProgramPush
<1>2. /\ HeapOK /\ RegisteredOK /\ DOMAIN registered = Class /\ own \in Nat
      /\ stack \in Seq(DOMAIN heap) /\ Len(stack) \in Nat
      /\ Len(heap) \in Nat /\ DOMAIN heap = 1..Len(heap) /\ 1 \in DOMAIN heap
  BY DEF IInv, TypeOK, HeapOK
<1>3. GrownHeap(g) /\ Len(g) = Len(heap) + 1
  <2>1. "user" \in Part
    BY DEF Part
  <2> QED BY <1>2, <2>1, OneTable
<1> HIDE DEF g
<1>4. Len(stack) = own /\ Marks'[Len(alive')] = own' /\ ObjectsOK' /\ Chained'
  BY <1>1, <1>2, OnlyOwn
<1>5. /\ g \in Seq(Tables) /\ DOMAIN g = 1..Len(g) /\ DOMAIN g = 1..Len(heap) + 1
      /\ \A u \in DOMAIN heap : u \in DOMAIN g /\ g[u] = heap[u]
      /\ \A k \in Key : g[Len(heap) + 1].field[k] = Nil
  BY <1>2, <1>3 DEF GrownHeap
<1>6. HeapOK'
  <2>1. ASSUME NEW t \in DOMAIN g, NEW k \in Key, g[t].field[k] > 0
        PROVE  /\ g[t].part \in Space /\ g[t].field[k] \in DOMAIN g
               /\ k \in Name => g[g[t].field[k]].part \in {"ns", "tb"}
    <3>1. t # Len(heap) + 1
      BY <1>5, <2>1 DEF Nil
    <3>2. t \in DOMAIN heap
      BY <1>2, <1>5, <3>1
    <3>3. heap[t].field[k] > 0 /\ g[t] = heap[t]
      BY <1>5, <2>1, <3>2
    <3>4. /\ heap[t].part \in Space /\ heap[t].field[k] \in DOMAIN heap
          /\ k \in Name => heap[heap[t].field[k]].part \in {"ns", "tb"}
      BY <1>2, <3>2, <3>3 DEF HeapOK
    <3> QED BY <1>5, <3>3, <3>4
  <2>2. 1 \in DOMAIN g /\ g[Global].part = "global"
    BY <1>2, <1>5 DEF HeapOK, Global
  <2> QED BY <1>1, <1>5, <2>1, <2>2 DEF HeapOK
<1>7. \A u \in DOMAIN heap : u \in DOMAIN heap' /\ heap'[u].part = heap[u].part
  BY <1>1, <1>5
<1>8. stack' \in Seq(DOMAIN heap') /\ Len(stack') = own'
  <2>1. Len(heap) + 1 \in DOMAIN heap'
    BY <1>1, <1>2, <1>5
  <2>2. \A i \in 1..Len(stack) : stack[i] \in DOMAIN heap'
    BY <1>2, <1>7
  <2>3. stack \in Seq(DOMAIN heap')
    BY <1>2, <2>2, SeqOfOthers
  <2> QED BY <1>1, <1>4, <2>1, <2>3, AppendProperties
<1>9. RegisteredOK'
  BY <1>1, <1>2, <1>7, RegisteredKept
<1> QED BY <1>1, <1>2, <1>4, <1>6, <1>8, <1>9 DEF IInv, TypeOK

LEMMA ProgramPopKeeps ==
  ASSUME IInv, ProgramPop
  PROVE  IInv'
<1>1. /\ \A o \in Obj : ~Active(o)
      /\ own > 0 /\ stack' = Popped(1) /\ own' = own - 1
      /\ obj' = obj /\ alive' = alive /\ registered' = registered /\ heap' = heap
  BY DEF ProgramPop
<1>2. HeapOK /\ RegisteredOK /\ DOMAIN registered = Class /\ own \in Nat
  BY DEF IInv, TypeOK
<1>3. own' \in Nat
  BY <1>1, <1>2
<1>4. Len(stack) = own /\ Marks'[Len(alive')] = own' /\ ObjectsOK' /\ Chained'
  BY <1>1, <1>3, OnlyOwn
<1>5. stack' \in Seq(DOMAIN heap) /\ Len(stack') = own'
  <2>1. 1 \in 0..Len(stack)
    BY <1>1, <1>2, <1>4
  <2> QED BY <1>1, <1>4, <2>1, PoppedStack
<1>6. HeapOK' /\ RegisteredOK'
  BY <1>1, <1>2 DEF HeapOK, RegisteredOK
<1> QED BY <1>1, <1>2, <1>3, <1>4, <1>5, <1>6 DEF IInv, TypeOK
-----------------------------------------------------------------------------
(* The inductive invariant.                                                *)

LEMMA InitHolds ==
  ASSUME Init
  PROVE  IInv
<1>1. /\ stack = <<>> /\ own = 0 /\ heap = <<NewTable("global")>>
      /\ obj = [o \in Obj |-> Empty] /\ alive = <<>>
      /\ registered = [c \in Class |-> <<>>]
  BY DEF Init
<1> DEFINE x == NewTable("global")
<1>2. x \in Tables /\ x.part = "global" /\ \A k \in Key : x.field[k] = Nil
  BY NewTableFacts DEF Part
<1>3. heap = <<x>>
  BY <1>1
<1> HIDE DEF x
<1>4. heap \in Seq(Tables) /\ DOMAIN heap = {1} /\ heap[1] = x
  BY <1>2, <1>3
<1>5. HeapOK
  BY <1>2, <1>4 DEF HeapOK, Global, Nil
<1>6. RegisteredOK /\ DOMAIN registered = Class
  BY <1>1 DEF RegisteredOK
<1>7. ObjectsOK
  <2>1. Empty \in Objects
    BY DEF Empty, Objects
  <2>2. alive \in Seq(Obj) /\ DOMAIN alive = {}
    BY <1>1
  <2> QED BY <1>1, <2>1, <2>2 DEF ObjectsOK, Empty
<1>8. stack \in Seq(DOMAIN heap) /\ own \in Nat
  BY <1>1
<1>9. Len(stack) = Marks[Len(alive)]
  <2>1. Len(alive) = 0 /\ Len(stack) = 0
    BY <1>1
  <2>2. IsTops(Marks, own, alive, obj)
    BY <1>7, <1>8, MarkFacts
  <2> QED BY <1>1, <2>1, <2>2 DEF IsTops, UpTo
<1>10. Chained
  BY <1>1 DEF Chained
<1> QED BY <1>5, <1>6, <1>7, <1>8, <1>9, <1>10 DEF IInv, TypeOK

LEMMA NextKeeps ==
  ASSUME IInv, [Next]_vars
  PROVE  IInv'
<1>1. CASE ProgramPush \/ ProgramPop
  BY <1>1, ProgramPushKeeps, ProgramPopKeeps
<1>2. ASSUME NEW o \in Obj, GlobalNamespace(o) \/ NamespaceFromStack(o) \/ Destroy(o) \/ Add(o)
      PROVE  IInv'
  BY <1>2, GlobalNamespaceKeeps, NamespaceFromStackKeeps, DestroyKeeps, AddKeeps
<1>3. ASSUME NEW o \in Obj, NEW w \in Obj, Open(o, w) \/ End(o, w)
      PROVE  IInv'
  BY <1>3, BeginNamespaceKeeps, BeginTableKeeps, BeginClassKeeps, DeriveClassKeeps, EndKeeps
     DEF Open
<1>4. ASSUME NEW o \in Obj, NEW c \in Class, NEW base \in Class, DeriveClassThrows(o, c, base)
      PROVE  IInv'
  BY <1>4, DeriveClassThrowsKeeps
<1>5. CASE UNCHANGED vars
  <2>1. heap' = heap /\ registered' = registered
        /\ UNCHANGED <<stack, own, obj, alive, registered>>
    BY <1>5 DEF vars
  <2>2. HeapOK' /\ Kept(stack, heap, registered, heap', registered')
    BY <2>1 DEF IInv, TypeOK, HeapOK, Kept
  <2> QED BY <2>1, <2>2, SameStackKeeps
<1> QED BY <1>1, <1>2, <1>3, <1>4, <1>5 DEF Next

(* The heap, the registry and the objects are what the code can make them, *)
(* the stack ends where the last object's tables end, and each object in   *)
(* use has a chain of its kind, opened from a global or a user's table.    *)
THEOREM ChainInvariant == Spec => []IInv
<1>1. Init => IInv
  BY InitHolds
<1>2. IInv /\ [Next]_vars => IInv'
  BY NextKeeps
<1> QED BY <1>1, <1>2, PTL DEF Spec
-----------------------------------------------------------------------------
(* The properties.                                                         *)

LEMMA MarksAreBelow ==
  ASSUME ObjectsOK, own \in Nat
  PROVE  \A i : Below(i) = Marks[i]
BY DEF Below, Pops, Marks, Tops

(* The stack holds the program's entries and exactly what the living       *)
(* objects still pop, at every point of every chain: after a move, an end, *)
(* a destruction in any order of use, or an exception (m_stackSize and     *)
(* m_skipStackPops of Registrar).                                          *)
THEOREM StackIsBalanced == Spec => []StackBalanced
<1>1. IInv => StackBalanced
  <2>1. SUFFICES ASSUME IInv PROVE StackBalanced
    OBVIOUS
  <2>2. ObjectsOK /\ own \in Nat /\ Len(stack) = Marks[Len(alive)]
    BY <2>1 DEF IInv, TypeOK
  <2> QED BY <2>2, MarksAreBelow DEF StackBalanced
<1> QED BY <1>1, ChainInvariant, PTL

LEMMA SegmentFacts ==
  ASSUME NEW a \in Nat, NEW b \in Nat, a <= b, b <= Len(stack), stack \in Seq(DOMAIN heap),
         NEW s, s = SubSeq(stack, a + 1, b)
  PROVE  /\ s \in Seq(DOMAIN heap) /\ Len(s) = b - a /\ DOMAIN s = 1..b - a
         /\ \A j \in 1..b - a : s[j] = stack[a + j]
<1>1. a + 1 \in Int /\ b \in Int /\ \A i \in (a + 1)..b : stack[i] \in DOMAIN heap
  OBVIOUS
<1>2. /\ s \in Seq(DOMAIN heap)
      /\ Len(s) = IF a + 1 <= b THEN (b - (a + 1)) + 1 ELSE 0
      /\ \A i \in 1..(b - (a + 1)) + 1 : s[i] = stack[((a + 1) + i) - 1]
  BY <1>1, SubSeqProperties
<1>3. Len(s) = b - a
  BY <1>2
<1>4. \A j \in 1..b - a : j \in 1..(b - (a + 1)) + 1 /\ ((a + 1) + j) - 1 = a + j
  OBVIOUS
<1> QED BY <1>2, <1>3, <1>4

LEMMA TripleFacts ==
  ASSUME NEW S, NEW s \in Seq(S), NEW j \in 1..Len(s), j + 2 \in 1..Len(s)
  PROVE  SubSeq(s, j, j + 2) = <<s[j], s[j + 1], s[j + 2]>>
<1> DEFINE t == SubSeq(s, j, j + 2)
<1>1. j \in Int /\ j + 2 \in Int /\ \A i \in j..j + 2 : s[i] \in S
  OBVIOUS
<1>2. /\ t \in Seq(S) /\ Len(t) = IF j <= j + 2 THEN ((j + 2) - j) + 1 ELSE 0
      /\ \A i \in 1..((j + 2) - j) + 1 : t[i] = s[(j + i) - 1]
  BY <1>1, SubSeqProperties
<1>3. ((j + 2) - j) + 1 = 3 /\ j <= j + 2 /\ (j + 1) - 1 = j /\ (j + 2) - 1 = j + 1
      /\ (j + 3) - 1 = j + 2
  OBVIOUS
<1> HIDE DEF t
<1>4. t \in Seq(S) /\ Len(t) = 3 /\ t[1] = s[j] /\ t[2] = s[j + 1] /\ t[3] = s[j + 2]
  <2>1. 1 \in 1..3 /\ 2 \in 1..3 /\ 3 \in 1..3
    OBVIOUS
  <2> QED BY ONLY <1>2, <1>3, <2>1
<1>5. t = <<t[1], t[2], t[3]>>
  BY <1>4
<1> QED BY <1>4, <1>5 DEF t

(* What a chain has on the stack is opened as the member functions of its  *)
(* object expect.                                                          *)
LEMMA ChainIsOpened ==
  ASSUME stack \in Seq(DOMAIN heap), NEW x \in Objects, NEW a, NEW b,
         ChainAt(heap, registered, stack, x, a, b), NEW s, s = SubSeq(stack, a + 1, b)
  PROVE  /\ \A j \in DOMAIN s : Opened(s, j)
         /\ heap[Last(s)].part \in LastParts[x.kind]
<1>1. a \in Nat /\ b \in Nat /\ a + 1 <= b /\ b <= Len(stack) /\ Shape(heap, stack, x, a, b)
  <2>1. x.size \in Nat
    BY DEF Objects
  <2>2. Shape(heap, stack, x, a, b)
    BY <2>1, ChainShape
  <2> QED BY <2>2 DEF Shape
<1>2. PICK n \in Nat \ {0} : n = b - a
  BY <1>1
<1>3. /\ s \in Seq(DOMAIN heap) /\ Len(s) = n /\ DOMAIN s = 1..n
      /\ \A j \in 1..n : s[j] = stack[a + j]
  <2>1. a <= b
    BY <1>1
  <2> QED BY <1>1, <1>2, <2>1, SegmentFacts
<1>4. a + n = b /\ n \in 1..n
  BY <1>1, <1>2
<1>5. Last(s) = stack[b]
  BY <1>3, <1>4 DEF Last
<1>6. /\ heap[stack[b]].part \in LastParts[x.kind] /\ x.kind \in {"ns", "class", "table"}
      /\ heap[stack[a + 1]].part \in {"global", "user"}
      /\ \A j \in a + 2..b : Linked(heap, registered, stack, j, b)
  BY DEF ChainAt
<1>7. ASSUME NEW j \in 1..n PROVE Opened(s, j)
  <2>1. s[j] = stack[a + j]
    BY <1>3
  <2>2. CASE j = 1
    <3>1. heap[s[j]].part \in {"global", "user"}
      BY <1>6, <2>1, <2>2
    <3> QED BY <2>2, <3>1 DEF Opened
  <2>3. CASE j # 1
    <3>1. PICK p \in Int : p = a + j
      BY <1>1
    <3>2. p \in a + 2..b /\ j - 1 \in 1..n /\ a + (j - 1) = p - 1 /\ j > 1
      BY <1>1, <1>4, <2>3, <3>1
    <3>3. s[j] = stack[p] /\ s[j - 1] = stack[p - 1]
      BY <1>3, <2>1, <3>1, <3>2
    <3>4. Linked(heap, registered, stack, p, b)
      BY <1>6, <3>2
    <3>5. CASE heap[stack[p]].part \in {"ns", "tb"}
      <4>1. \E k \in Name : heap[s[j - 1]].field[k] = s[j]
        <5>1. \E k \in Name : heap[stack[p - 1]].field[k] = stack[p]
          BY ONLY <3>4, <3>5, LinkedByName
        <5> QED BY ONLY <3>3, <5>1
      <4> QED BY <3>2, <3>3, <3>5, <4>1 DEF Opened
    <3>6. CASE heap[stack[p]].part = "co"
      <4>1. p + 2 = b
        BY <3>4, <3>6 DEF Linked
      <4>2. j + 2 = n /\ j + 1 \in 1..n /\ j + 2 \in 1..n
            /\ a + (j + 1) = p + 1 /\ a + (j + 2) = p + 2
        BY ONLY <1>1, <1>2, <3>1, <4>1, j \in 1..n
      <4>3. s[j + 1] = stack[p + 1] /\ s[j + 2] = stack[p + 2]
        BY <1>3, <4>2
      <4>4. PICK c \in Class : /\ registered[c] = <<s[j], s[j + 1], s[j + 2]>>
                               /\ heap[s[j - 1]].field[c] = s[j + 2]
        BY <3>3, <3>4, <3>6, <4>3 DEF Linked
      <4>5. SubSeq(s, j, j + 2) = <<s[j], s[j + 1], s[j + 2]>>
        BY ONLY <1>3, <4>2, j \in 1..n, TripleFacts
      <4>6. heap[s[j]].part = "co"
        BY <3>3, <3>6
      <4> QED BY <1>3, <3>2, <4>2, <4>4, <4>5, <4>6 DEF Opened
    <3>7. CASE heap[stack[p]].part \in {"cl", "st"}
      <4>1. x.kind = "class"
        <5>1. CASE x.kind = "ns"
          BY <1>1, <3>2, <3>7, <5>1 DEF Shape
        <5>2. CASE x.kind = "table"
          <6>1. p \in a + 2..b - 1 \/ p = b
            BY <1>1, <3>2
          <6> QED BY <1>1, <3>7, <5>2, <6>1 DEF Shape
        <5> QED BY <1>6, <5>1, <5>2
      <4>2. /\ heap[stack[b - 2]].part = "co" /\ a + 4 <= b
            /\ \A i \in a + 2..b - 3 : heap[stack[i]].part \in {"ns", "tb"}
        BY <1>1, <4>1 DEF Shape
      <4>3. p # b - 2 /\ p \notin a + 2..b - 3
        BY <3>7, <4>2
      <4>4. j > 2 /\ n - 2 \in 1..n /\ a + (n - 2) = b - 2
        <5>1. a \in Nat /\ b \in Nat /\ a + 4 <= b
          BY <1>1, <4>2
        <5>2. /\ p \in a + 2..b /\ p # b - 2 /\ p \notin a + 2..b - 3
              /\ p = a + j /\ p \in Int
          BY <3>1, <3>2, <4>3
        <5>3. n \in Nat /\ n = b - a /\ j \in Nat
          BY <1>2
        <5>4. p = b - 1 \/ p = b
          BY ONLY <5>1, <5>2
        <5> QED BY ONLY <5>1, <5>2, <5>3, <5>4
      <4>5. heap[s[Len(s) - 2]].part = "co"
        BY <1>3, <4>2, <4>4
      <4> QED BY <3>3, <3>7, <4>4, <4>5 DEF Opened
    <3>8. CASE heap[stack[p]].part = "mt"
      <4>1. p = b /\ heap[stack[p - 1]].part = "tb"
        BY <3>4, <3>8 DEF Linked
      <4>2. j = n
        BY ONLY <1>1, <1>2, <3>1, <4>1, j \in 1..n
      <4> QED BY <1>3, <3>3, <3>8, <4>1, <4>2 DEF Opened
    <3> QED BY <3>4, <3>5, <3>6, <3>7, <3>8 DEF Linked
  <2> QED BY <2>2, <2>3
<1> QED BY <1>3, <1>5, <1>6, <1>7

(* Each object in use finds on the stack, at the places where its member   *)
(* functions index it, the tables of its own kind, each opened in the one  *)
(* before it, however the chains of several objects are interleaved.       *)
THEOREM ChainsStayOnTheirTables == Spec => []ChainsOnTheirTables
<1>1. IInv => ChainsOnTheirTables
  <2>1. SUFFICES ASSUME IInv, NEW i \in DOMAIN alive, Active(alive[i])
                 PROVE  LET s == Segment(i)
                        IN  /\ \A j \in DOMAIN s : Opened(s, j)
                            /\ heap[Last(s)].part \in LastParts[obj[alive[i]].kind]
    BY DEF ChainsOnTheirTables
  <2> DEFINE x == obj[alive[i]]
  <2>2. ObjectsOK /\ own \in Nat /\ stack \in Seq(DOMAIN heap)
    BY <2>1 DEF IInv, TypeOK
  <2>3. /\ x \in Objects /\ x.skip \in 0..1 /\ Marks[i - 1] \in Nat
    <3>1. /\ i \in 1..Len(alive) /\ Len(alive) \in Nat /\ alive[i] \in Obj
      BY <2>2, MarkFacts
    <3>2. i - 1 \in 0..Len(alive)
      BY <3>1
    <3> QED BY <2>2, <3>1, <3>2, MarkFacts DEF ObjectsOK
  <2>4. ChainAt(heap, registered, stack, x, Marks[i - 1] - x.skip, Marks[i])
    BY <2>1 DEF IInv, Chained
  <2>5. Segment(i) = SubSeq(stack, (Marks[i - 1] - x.skip) + 1, Marks[i])
    <3>1. Marks[i - 1] + (1 - x.skip) = (Marks[i - 1] - x.skip) + 1
      BY ONLY <2>3
    <3>2. Segment(i) = SubSeq(stack, Below(i - 1) + (1 - x.skip), Below(i))
      BY DEF Segment
    <3>3. Below(i - 1) = Marks[i - 1] /\ Below(i) = Marks[i]
      BY <2>2, MarksAreBelow
    <3> QED BY ONLY <3>1, <3>2, <3>3
  <2> HIDE DEF x
  <2>6. /\ \A j \in DOMAIN Segment(i) : Opened(Segment(i), j)
        /\ heap[Last(Segment(i))].part \in LastParts[x.kind]
    BY <2>2, <2>3, <2>4, <2>5, ChainIsOpened
  <2> QED BY <2>6 DEF x
<1> QED BY <1>1, ChainInvariant, PTL
-----------------------------------------------------------------------------
(* What was opened is found again.                                         *)

TablesStay ==
  \A t \in DOMAIN heap, k \in Name \union Class :
     heap[t].field[k] > 0 /\ heap'[t].field[k] # heap[t].field[k]
       => /\ k \in Name
          /\ heap'[t].field[k] = Function \/ heap'[heap'[t].field[k]].part = "tb"

(* A field that is set takes the place of nothing, or of what a new Table  *)
(* may replace.                                                            *)
LEMMA SetStays ==
  ASSUME HeapOK, NEW g, GrownHeap(g), NEW t \in DOMAIN heap, NEW k \in Name \union Class,
         NEW v \in 1..Len(g), heap' = Set(g, t, k, v),
         heap[t].field[k] = Nil \/ (k \in Name /\ g[v].part = "tb")
  PROVE  TablesStay
<1>1. /\ g \in Seq(Tables) /\ t \in DOMAIN g /\ k \in Key /\ v \in Nat \union {Function}
      /\ DOMAIN heap \subseteq DOMAIN g /\ DOMAIN g = 1..Len(g)
      /\ \A u \in DOMAIN heap : g[u] = heap[u]
  BY DEF GrownHeap, HeapOK, Key
<1>2. IsSet(heap', g, t, k, v)
  BY <1>1, SetFacts
<1>3. SUFFICES ASSUME NEW u \in DOMAIN heap, NEW l \in Name \union Class,
                      heap[u].field[l] > 0, heap'[u].field[l] # heap[u].field[l]
               PROVE  l \in Name /\ heap'[heap'[u].field[l]].part = "tb"
  BY DEF TablesStay
<1>4. l \in Key
  BY DEF Key
<1>5. heap'[u].field[l] = IF u = t /\ l = k THEN v ELSE heap[u].field[l]
  BY <1>1, <1>2, <1>4 DEF IsSet
<1>6. u = t /\ l = k /\ heap'[u].field[l] = v
  BY <1>3, <1>5
<1>7. k \in Name /\ g[v].part = "tb"
  BY <1>3, <1>6 DEF Nil
<1>8. heap'[v].part = g[v].part
  BY <1>1, <1>2 DEF IsSet
<1> QED BY <1>6, <1>7, <1>8

LEMMA BeginNamespaceStays ==
  ASSUME IInv, NEW o \in Obj, NEW w \in Obj, NEW n \in Name, BeginNamespace(o, w, n)
  PROVE  TablesStay
<1>1. Opens(o, "ns")
  BY DEF BeginNamespace
<1>2. Top(1) \in DOMAIN heap /\ HeapOK /\ Len(heap) \in Nat
  BY <1>1, SpaceOnTop DEF IInv, TypeOK, HeapOK
<1>3. CASE Found(n) = Nil
  <2> DEFINE g == Append(heap, NewTable("ns"))
  <2>1. heap' = Set(g, Top(1), n, Len(heap) + 1) /\ heap[Top(1)].field[n] = Nil
    BY <1>3 DEF BeginNamespace, Found
  <2>2. GrownHeap(g) /\ Len(g) = Len(heap) + 1
    <3>1. "ns" \in Part
      BY DEF Part
    <3> QED BY <1>2, <3>1, OneTable
  <2> HIDE DEF g
  <2>3. Len(heap) + 1 \in 1..Len(g)
    BY <1>2, <2>2
  <2> QED BY <1>2, <2>1, <2>2, <2>3, SetStays
<1>4. CASE Found(n) # Nil
  <2>1. heap' = heap
    BY <1>4 DEF BeginNamespace
  <2> QED BY <2>1 DEF TablesStay
<1> QED BY <1>3, <1>4

LEMMA BeginTableStays ==
  ASSUME IInv, NEW o \in Obj, NEW w \in Obj, NEW n \in Name, BeginTable(o, w, n)
  PROVE  TablesStay
<1> DEFINE g == heap \o <<NewTable("tb"), NewTable("mt")>>
<1>1. Opens(o, "ns") /\ heap' = Set(g, Top(1), n, Len(heap) + 1)
  BY DEF BeginTable
<1>2. Top(1) \in DOMAIN heap /\ HeapOK /\ Len(heap) \in Nat
  BY <1>1, SpaceOnTop DEF IInv, TypeOK, HeapOK
<1>3. GrownHeap(g) /\ Len(g) = Len(heap) + 2 /\ g[Len(heap) + 1].part = "tb"
  BY <1>2, TwoTables
<1> HIDE DEF g
<1>4. Len(heap) + 1 \in 1..Len(g)
  BY <1>2, <1>3
<1> QED BY <1>1, <1>2, <1>3, <1>4, SetStays

(* The tables of a new class take the place of nothing.                    *)
LEMMA NewClassStays ==
  ASSUME IInv, NEW o \in Obj, NEW c \in Class, Opens(o, "ns"), heap[Top(1)].field[c] = Nil,
         heap' = DeriveTables(c)
  PROVE  TablesStay
<1> DEFINE g == heap \o <<NewTable("co"), NewTable("cl"), NewTable("st")>>
<1>1. heap' = Set(g, Top(1), c, Len(heap) + 1 + 2)
  BY DEF DeriveTables
<1>2. Top(1) \in DOMAIN heap /\ HeapOK /\ Len(heap) \in Nat
  BY SpaceOnTop DEF IInv, TypeOK, HeapOK
<1>3. GrownHeap(g) /\ Len(g) = Len(heap) + 3
  BY <1>2, ThreeTables
<1> HIDE DEF g
<1>4. Len(heap) + 1 + 2 \in 1..Len(g)
  BY <1>2, <1>3
<1> QED BY <1>1, <1>2, <1>3, <1>4, SetStays

LEMMA BeginClassStays ==
  ASSUME IInv, NEW o \in Obj, NEW w \in Obj, NEW c \in Class, BeginClass(o, w, c)
  PROVE  TablesStay
<1>1. Opens(o, "ns")
  BY DEF BeginClass
<1>2. CASE heap[Top(1)].field[c] = Nil
  BY <1>1, <1>2, NewClassStays DEF BeginClass, DeriveTables
<1>3. CASE heap[Top(1)].field[c] # Nil
  BY <1>3 DEF BeginClass, TablesStay
<1> QED BY <1>2, <1>3

(* What is stored through an open object is a function, under a name.      *)
LEMMA AddStays ==
  ASSUME IInv, NEW o \in Obj, Add(o)
  PROVE  TablesStay
<1>1. PICK kind, ks, name : /\ Register(o, kind, ks, name) /\ name \in Key
                            /\ name \in Name \union LightKeys \/ (kind = "class" /\ ks \subseteq 1..3)
  <2>1. /\ {"converters", "properties"} \subseteq LightKeys /\ Name \union LightKeys \subseteq Key
        /\ {"__call", "__destruct"} \subseteq Key /\ {1} \subseteq 1..3 /\ {2} \subseteq 1..3
    BY DEF Key, Reserved, LightKeys
  <2>2. CASE AddConstructor(o) \/ AddDestructor(o)
    BY <2>1, <2>2 DEF AddConstructor, AddDestructor
  <2>3. CASE AddProperty(o) \/ AddConverter(o)
    BY <2>1, <2>3 DEF AddProperty, AddConverter
  <2>4. ASSUME NEW n \in Name, \/ AddToNamespace(o, n) \/ AddToTable(o, n) \/ AddToMetatable(o, n)
                               \/ AddStatic(o, n) \/ AddMethod(o, n) \/ AddConstMethod(o, n)
        PROVE  \E kind, ks : Register(o, kind, ks, n)
    BY <2>4 DEF AddToNamespace, AddToTable, AddToMetatable, AddStatic, AddMethod, AddConstMethod
  <2> QED BY <2>1, <2>2, <2>3, <2>4 DEF Add
<1> DEFINE ts == {Top(k) : k \in ks}
<1>2. HeapOK
  BY DEF IInv, TypeOK
<1>3. Filled(ts, name)
  BY <1>1, <1>2, FilledHeap DEF Register
<1>4. name \in Name \union LightKeys \/ \A t \in ts : t \in DOMAIN heap /\ heap[t].part \notin Space
  BY <1>1, FilledTables DEF Register
<1> HIDE DEF ts
<1>5. SUFFICES ASSUME NEW t \in DOMAIN heap, NEW k \in Name \union Class,
                      heap[t].field[k] > 0, heap'[t].field[k] # heap[t].field[k]
               PROVE  k \in Name /\ heap'[t].field[k] = Function
  BY DEF TablesStay
<1>6. k \in Key /\ k \notin LightKeys
  BY ChainAssumption DEF Key
<1>7. t \in ts /\ k = name /\ heap'[t].field[k] = Function
  BY <1>3, <1>5, <1>6 DEF Filled
<1>8. heap[t].part \in Space
  BY <1>2, <1>5, <1>6 DEF HeapOK
<1> QED BY <1>4, <1>6, <1>7, <1>8

LEMMA ProgramPushStays ==
  ASSUME IInv, ProgramPush
  PROVE  TablesStay
<1>1. HeapOK /\ heap \in Seq(Tables) /\ NewTable("user") \in Tables
  BY NewTableFacts DEF IInv, TypeOK, HeapOK, Part
<1>2. heap' = Append(heap, NewTable("user"))
  BY DEF ProgramPush
<1>3. \A t \in DOMAIN heap : heap'[t] = heap[t]
  BY <1>1, <1>2, AppendProperties
<1> QED BY <1>3 DEF TablesStay

(* A namespace or a class that was opened under a name stays there: later  *)
(* chains find the same table again, and only a Table, a variable or a     *)
(* function of that name takes its place.                                  *)
THEOREM Reopened == Spec => ReopenedIsSame
<1>1. ASSUME IInv, [Next]_vars PROVE TablesStay
  <2>1. CASE ProgramPush
    BY <1>1, <2>1, ProgramPushStays
  <2>2. ASSUME NEW o \in Obj, Add(o) PROVE TablesStay
    BY <1>1, <2>2, AddStays
  <2>3. ASSUME NEW o \in Obj, NEW w \in Obj, Open(o, w) PROVE TablesStay
    <3>1. ASSUME NEW c \in Class, NEW base \in Class, DeriveClass(o, w, c, base)
          PROVE  TablesStay
      BY <1>1, <3>1, NewClassStays DEF DeriveClass
    <3> QED BY <1>1, <2>3, <3>1, BeginNamespaceStays, BeginTableStays, BeginClassStays DEF Open
  <2>4. ASSUME NEW o \in Obj, NEW c \in Class, NEW base \in Class, DeriveClassThrows(o, c, base)
        PROVE  TablesStay
    BY <1>1, <2>4, NewClassStays DEF DeriveClassThrows
  <2>5. ASSUME heap' = heap PROVE TablesStay
    BY <2>5 DEF TablesStay
  <2>6. ASSUME NEW o \in Obj, GlobalNamespace(o) \/ NamespaceFromStack(o) \/ Destroy(o)
        PROVE  TablesStay
    <3>1. CASE NamespaceFromStack(o)
      <4>1. /\ stack # <<>> /\ heap' = Set(heap, Top(1), "properties", Nil)
            /\ TypeOK /\ stack \in Seq(DOMAIN heap)
        BY <1>1, <3>1 DEF NamespaceFromStack, IInv, TypeOK
      <4>2. Top(1) \in DOMAIN heap
        <5>1. Len(stack) > 0 /\ Len(stack) + 1 - 1 = Len(stack)
          BY <4>1
        <5> QED BY <4>1, <5>1 DEF Top
      <4> QED BY <4>1, <4>2, PropertiesCleared DEF TablesStay
    <3>2. CASE GlobalNamespace(o) \/ Destroy(o)
      BY <2>5, <3>2 DEF GlobalNamespace, Destroy
    <3> QED BY <2>6, <3>1, <3>2
  <2>7. ASSUME NEW o \in Obj, NEW w \in Obj, End(o, w) PROVE TablesStay
    BY <2>5, <2>7 DEF End
  <2>8. CASE ProgramPop \/ UNCHANGED vars
    BY <2>5, <2>8 DEF ProgramPop, vars
  <2> QED BY <1>1, <2>1, <2>2, <2>3, <2>4, <2>6, <2>7, <2>8 DEF Next
<1>2. IInv /\ [Next]_vars => [TablesStay]_vars
  BY <1>1
<1>3. Spec => [][TablesStay]_vars
  BY ChainInvariant, <1>2, PTL DEF Spec
<1> QED BY <1>3, PTL DEF ReopenedIsSame, TablesStay
=============================================================================
