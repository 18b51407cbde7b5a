----------------------- MODULE RegistryReferencesProofs -----------------------
(***************************************************************************)
(* Proofs, for every number of references, proxies, tables, keys and slots,*)
(* that each slot of the registry has one owner, and that the references   *)
(* and proxies therefore stand for values and places that only operations  *)
(* on themselves change.                                                   *)
(***************************************************************************)
EXTENDS RegistryReferences, Sequences, TLAPS

Objects == Item \union {Tmp}
State == [reg : [Slot -> Value \union {Free}], at : [Member -> Index]]

(* OneOwner and the types, of the registry and the members in the middle   *)
(* of an operation.                                                        *)
Owned(s) ==
  /\ s \in State
  /\ \A m \in Member : s.at[m] \in Slot => s.reg[s.at[m]] # Free
  /\ \A m, o \in Member : s.at[m] \in Slot /\ s.at[m] = s.at[o] => m = o
  /\ \A n \in Slot : s.reg[n] # Free => \E m \in Member : s.at[m] = n

HasFree(s) == \E n \in Slot : s.reg[n] = Free
HasTwo(s) == \A n \in Slot : \E q \in Slot \ {n} : s.reg[q] = Free
Same(s, t, M) == \A o \in Member \ M : t.at[o] = s.at[o]

TmpIdle == \A m \in {RefOf(Tmp), TableOf(Tmp), KeyOf(Tmp), ParentOf(Tmp)} : index[m] = NoRef

IInv == /\ Owned(Now) /\ TmpIdle
        /\ heap \in [Table -> [Key -> Value \union {Nil}]]

-----------------------------------------------------------------------------
(* The members of an object are different from each other, and from those  *)
(* of other objects.                                                       *)

LEMMA Members ==
  /\ \A r \in Ref \union {Tmp} : RefOf(r) \in Member
  /\ \A i \in Objects : {TableOf(i), KeyOf(i), ParentOf(i)} \subseteq Member
  /\ \A r, q : RefOf(r) = RefOf(q) => r = q
  /\ \A i, j : /\ TableOf(i) # KeyOf(j) /\ TableOf(i) # ParentOf(j) /\ KeyOf(i) # ParentOf(j)
               /\ RefOf(i) \notin {TableOf(j), KeyOf(j), ParentOf(j)}
               /\ TableOf(i) = TableOf(j) => i = j
               /\ KeyOf(i) = KeyOf(j) => i = j
               /\ ParentOf(i) = ParentOf(j) => i = j
BY DEF RefOf, TableOf, KeyOf, ParentOf, Member, Objects

LEMMA RoomIsTwo == Room => HasTwo(Now) /\ HasFree(Now)
BY ReferenceAssumption DEF Room, HasTwo, HasFree, Now

-----------------------------------------------------------------------------
(* Each call keeps the ownership right, given that what it overwrites owns *)
(* nothing.                                                                *)

LEMMA AcquireOwned ==
  ASSUME NEW s, Owned(s), NEW m \in Member, s.at[m] \notin Slot,
         NEW v \in Value \union {Nil}, HasFree(s)
  PROVE  /\ Owned(Acquire(s, m, v)) /\ Same(s, Acquire(s, m, v), {m})
         /\ HasTwo(s) => HasFree(Acquire(s, m, v))
<1> DEFINE t == Acquire(s, m, v)
           n == CHOOSE n \in Slot : s.reg[n] = Free
<1>0. s \in State /\ Free \notin Value /\ NoRef \notin Slot /\ RefNil \notin Slot
  BY ReferenceAssumption DEF Owned, Value
<1>1. CASE v = Nil
  <2>1. t.reg = s.reg /\ t.at = [s.at EXCEPT ![m] = RefNil] /\ t \in State
    BY <1>0, <1>1 DEF Acquire, State, Index
  <2>2. s.at \in [Member -> Index]
    BY <1>0 DEF State
  <2>3. Same(s, t, {m}) /\ t.at[m] = RefNil
    BY <2>1, <2>2 DEF Same
  <2>4. \A o \in Member : t.at[o] \in Slot => o # m /\ t.at[o] = s.at[o]
    BY <1>0, <2>3 DEF Same
  <2>5. \A q \in Slot, o \in Member : s.at[o] = q => t.at[o] = q
    BY <2>3 DEF Same
  <2>6. Owned(t)
    BY <2>1, <2>4, <2>5 DEF Owned
  <2>7. HasTwo(s) => HasFree(t)
    BY <2>1, ReferenceAssumption DEF HasTwo, HasFree
  <2> QED BY <2>3, <2>6, <2>7
<1>2. CASE v # Nil
  <2>1. n \in Slot /\ s.reg[n] = Free
    BY DEF HasFree
  <2>2. t.reg = [s.reg EXCEPT ![n] = v] /\ t.at = [s.at EXCEPT ![m] = n]
    BY <1>2 DEF Acquire
  <2>3. s.reg \in [Slot -> Value \union {Free}] /\ s.at \in [Member -> Index]
    BY <1>0 DEF State
  <2>4. t \in State
    BY <1>2, <2>1, <2>3 DEF Acquire, State, Index
  <2>5. /\ t.at[m] = n /\ t.reg[n] = v /\ v # Free /\ Same(s, t, {m})
        /\ \A q \in Slot \ {n} : t.reg[q] = s.reg[q]
    BY <1>0, <1>2, <2>1, <2>2, <2>3 DEF Same
  <2> HIDE DEF t, n
  <2>6. \A o \in Member \ {m} : t.at[o] = s.at[o] /\ s.at[o] # n
    <3>1. \A o \in Member : s.at[o] \in Slot => s.reg[s.at[o]] # Free
      BY DEF Owned
    <3> QED BY <2>1, <2>5, <3>1 DEF Same
  <2>7. \A o \in Member : t.at[o] \in Slot => t.reg[t.at[o]] # Free
    BY <2>5, <2>6 DEF Owned
  <2>8. \A o, p \in Member : t.at[o] \in Slot /\ t.at[o] = t.at[p] => o = p
    BY <2>5, <2>6 DEF Owned
  <2>9. \A q \in Slot : t.reg[q] # Free => \E o \in Member : t.at[o] = q
    BY <2>5, <2>6 DEF Owned
  <2>10. Owned(t)
    BY <2>4, <2>7, <2>8, <2>9 DEF Owned
  <2>11. HasTwo(s) => HasFree(t)
    BY <2>1, <2>5 DEF HasTwo, HasFree
  <2> QED BY <2>5, <2>10, <2>11 DEF t
<1> QED BY <1>1, <1>2

LEMMA ReleaseOwned ==
  ASSUME NEW s, Owned(s), NEW m \in Member
  PROVE  /\ Owned(Release(s, m)) /\ Same(s, Release(s, m), {m})
         /\ Release(s, m).at[m] = NoRef
         /\ HasFree(s) => HasFree(Release(s, m))
<1> DEFINE t == Release(s, m)
<1>0. s \in State /\ NoRef \notin Slot
  BY ReferenceAssumption DEF Owned
<1>1. s.reg \in [Slot -> Value \union {Free}] /\ s.at \in [Member -> Index]
  BY <1>0 DEF State
<1>2. /\ t.reg = IF s.at[m] \in Slot THEN [s.reg EXCEPT ![s.at[m]] = Free] ELSE s.reg
      /\ t.at = [s.at EXCEPT ![m] = NoRef]
  BY DEF Release
<1>3. t \in State
  BY <1>1 DEF Release, State, Index
<1>4. Same(s, t, {m}) /\ t.at[m] = NoRef
  BY <1>1, <1>2 DEF Same
<1>5. \A q \in Slot : t.reg[q] = IF q = s.at[m] THEN Free ELSE s.reg[q]
  BY <1>1, <1>2
<1>6. \A o \in Member : t.at[o] \in Slot => o # m /\ t.at[o] = s.at[o] /\ s.at[o] # s.at[m]
  BY <1>0, <1>4 DEF Same, Owned
<1>7. \A o \in Member : t.at[o] \in Slot => t.reg[t.at[o]] # Free
  BY <1>5, <1>6 DEF Owned
<1>8. \A o, p \in Member : t.at[o] \in Slot /\ t.at[o] = t.at[p] => o = p
  BY <1>6 DEF Owned
<1>9. \A q \in Slot : t.reg[q] # Free => \E o \in Member : t.at[o] = q
  BY <1>4, <1>5 DEF Same, Owned
<1>10. HasFree(s) => HasFree(t)
  BY <1>5 DEF HasFree
<1> QED BY <1>3, <1>4, <1>7, <1>8, <1>9, <1>10 DEF Owned

LEMMA TakeOwned ==
  ASSUME NEW s, Owned(s), NEW m \in Member, NEW o \in Member, m # o, s.at[m] \notin Slot
  PROVE  /\ Owned(Take(s, m, o)) /\ Same(s, Take(s, m, o), {m, o})
         /\ Take(s, m, o).at[o] = NoRef /\ Take(s, m, o).reg = s.reg
<1> DEFINE t == Take(s, m, o)
<1>0. s \in State /\ NoRef \notin Slot
  BY ReferenceAssumption DEF Owned
<1>1. s.at \in [Member -> Index]
  BY <1>0 DEF State
<1>2. /\ t.reg = s.reg /\ t \in State
      /\ t.at = [s.at EXCEPT ![m] = s.at[o], ![o] = NoRef]
  BY <1>0, <1>1 DEF Take, State, Index
<1>3. Same(s, t, {m, o}) /\ t.at[m] = s.at[o] /\ t.at[o] = NoRef
  BY <1>1, <1>2 DEF Same
<1>4. \A p \in Member : s.at[p] \in Slot => p # m
  OBVIOUS
<1>5. \A p \in Member : t.at[p] \in Slot => t.reg[t.at[p]] # Free
  BY <1>0, <1>2, <1>3 DEF Same, Owned
<1>6. \A p, q \in Member : t.at[p] \in Slot /\ t.at[p] = t.at[q] => p = q
  BY <1>0, <1>3 DEF Same, Owned
<1>7. \A n \in Slot : t.reg[n] # Free => \E p \in Member : t.at[p] = n
  BY <1>2, <1>3, <1>4 DEF Same, Owned
<1> QED BY <1>2, <1>3, <1>5, <1>6, <1>7 DEF Owned

LEMMA SwapOwned ==
  ASSUME NEW s, Owned(s), NEW m \in Member, NEW o \in Member, m # o
  PROVE  /\ Owned(Swap(s, m, o)) /\ Same(s, Swap(s, m, o), {m, o})
<1> DEFINE t == Swap(s, m, o)
<1>0. s \in State
  BY DEF Owned
<1>1. s.at \in [Member -> Index]
  BY <1>0 DEF State
<1>2. /\ t.reg = s.reg /\ t \in State
      /\ t.at = [s.at EXCEPT ![m] = s.at[o], ![o] = s.at[m]]
  BY <1>0, <1>1 DEF Swap, State, Index
<1>3. Same(s, t, {m, o}) /\ t.at[m] = s.at[o] /\ t.at[o] = s.at[m]
  BY <1>1, <1>2 DEF Same
<1>4. \A p \in Member : t.at[p] \in Slot => t.reg[t.at[p]] # Free
  BY <1>2, <1>3 DEF Same, Owned
<1>5. \A p, q \in Member : t.at[p] \in Slot /\ t.at[p] = t.at[q] => p = q
  BY <1>3 DEF Same, Owned
<1>6. \A n \in Slot : t.reg[n] # Free => \E p \in Member : t.at[p] = n
  BY <1>2, <1>3 DEF Same, Owned
<1> QED BY <1>2, <1>3, <1>4, <1>5, <1>6 DEF Owned

-----------------------------------------------------------------------------
(* The same for the operations on all members of an object.                *)

LEMMA SetKeyOwned ==
  ASSUME NEW s, Owned(s), NEW i \in Objects, s.at[KeyOf(i)] \notin Slot,
         NEW k \in Value \union {Nil}, HasFree(s)
  PROVE  /\ Owned(SetKey(s, i, k)) /\ Same(s, SetKey(s, i, k), {KeyOf(i)})
         /\ HasTwo(s) => HasFree(SetKey(s, i, k))
<1> DEFINE t == SetKey(s, i, k)
<1>0. s \in State /\ KeyOf(i) \in Member
  BY Members DEF Owned
<1>1. CASE k \in Literal
  <2>1. s.at \in [Member -> Index] /\ k \notin Slot
    BY <1>0, <1>1, ReferenceAssumption DEF State
  <2>2. t.reg = s.reg /\ t.at = [s.at EXCEPT ![KeyOf(i)] = k] /\ t \in State
    BY <1>0, <1>1, <2>1 DEF SetKey, State, Index
  <2>3. Same(s, t, {KeyOf(i)}) /\ t.at[KeyOf(i)] = k
    BY <1>0, <2>1, <2>2 DEF Same
  <2>4. \A o \in Member : t.at[o] \in Slot => o # KeyOf(i) /\ t.at[o] = s.at[o]
    BY <2>1, <2>3 DEF Same
  <2>5. \A q \in Slot, o \in Member : s.at[o] = q => t.at[o] = q
    BY <2>3 DEF Same
  <2>6. Owned(t)
    BY <2>2, <2>4, <2>5 DEF Owned
  <2> QED BY <2>2, <2>3, <2>6, ReferenceAssumption DEF HasTwo, HasFree
<1>2. CASE k \notin Literal
  <2>1. t = Acquire(s, KeyOf(i), k)
    BY <1>2 DEF SetKey
  <2> QED BY <1>0, <2>1, AcquireOwned
<1> QED BY <1>1, <1>2

LEMMA ReleaseItemOwned ==
  ASSUME NEW s, Owned(s), NEW i \in Objects
  PROVE  /\ Owned(ReleaseItem(s, i))
         /\ Same(s, ReleaseItem(s, i), {TableOf(i), KeyOf(i), ParentOf(i)})
         /\ \A m \in {TableOf(i), KeyOf(i), ParentOf(i)} : ReleaseItem(s, i).at[m] = NoRef
<1> DEFINE a == Release(s, KeyOf(i))
           b == Release(a, ParentOf(i))
           c == Release(b, TableOf(i))
<1>0. {TableOf(i), KeyOf(i), ParentOf(i)} \subseteq Member
  BY Members
<1>1. Owned(a) /\ Same(s, a, {KeyOf(i)}) /\ a.at[KeyOf(i)] = NoRef
  BY <1>0, ReleaseOwned
<1>2. Owned(b) /\ Same(a, b, {ParentOf(i)}) /\ b.at[ParentOf(i)] = NoRef
  BY <1>0, <1>1, ReleaseOwned
<1>3. Owned(c) /\ Same(b, c, {TableOf(i)}) /\ c.at[TableOf(i)] = NoRef
  BY <1>0, <1>2, ReleaseOwned
<1>4. c = ReleaseItem(s, i)
  BY DEF ReleaseItem
<1> HIDE DEF a, b, c
<1> QED BY <1>0, <1>1, <1>2, <1>3, <1>4, Members DEF Same

LEMMA TakeItemOwned ==
  ASSUME NEW s, Owned(s), NEW i \in Objects, NEW j \in Objects, i # j,
         \A m \in {TableOf(i), KeyOf(i), ParentOf(i)} : s.at[m] \notin Slot
  PROVE  /\ Owned(TakeItem(s, i, j))
         /\ Same(s, TakeItem(s, i, j),
                 {TableOf(i), KeyOf(i), ParentOf(i), TableOf(j), KeyOf(j), ParentOf(j)})
<1> DEFINE a == Take(s, TableOf(i), TableOf(j))
           b == Take(a, KeyOf(i), KeyOf(j))
           c == Take(b, ParentOf(i), ParentOf(j))
<1>0. /\ {TableOf(i), KeyOf(i), ParentOf(i), TableOf(j), KeyOf(j), ParentOf(j)} \subseteq Member
      /\ TableOf(i) # TableOf(j) /\ KeyOf(i) # KeyOf(j) /\ ParentOf(i) # ParentOf(j)
  BY Members
<1>1. Owned(a) /\ Same(s, a, {TableOf(i), TableOf(j)})
  BY <1>0, TakeOwned
<1>2. a.at[KeyOf(i)] = s.at[KeyOf(i)] /\ a.at[ParentOf(i)] = s.at[ParentOf(i)]
  BY <1>0, <1>1, Members DEF Same
<1>3. Owned(b) /\ Same(a, b, {KeyOf(i), KeyOf(j)})
  BY <1>0, <1>1, <1>2, TakeOwned
<1>4. b.at[ParentOf(i)] = a.at[ParentOf(i)]
  BY <1>0, <1>3, Members DEF Same
<1>5. Owned(c) /\ Same(b, c, {ParentOf(i), ParentOf(j)})
  BY <1>0, <1>2, <1>3, <1>4, TakeOwned
<1>6. c = TakeItem(s, i, j)
  BY DEF TakeItem
<1> HIDE DEF a, b, c
<1> QED BY <1>1, <1>3, <1>5, <1>6 DEF Same

LEMMA SwapItemOwned ==
  ASSUME NEW s, Owned(s), NEW i \in Objects, NEW j \in Objects, i # j
  PROVE  /\ Owned(SwapItem(s, i, j))
         /\ Same(s, SwapItem(s, i, j),
                 {TableOf(i), KeyOf(i), ParentOf(i), TableOf(j), KeyOf(j), ParentOf(j)})
<1> DEFINE a == Swap(s, TableOf(i), TableOf(j))
           b == Swap(a, KeyOf(i), KeyOf(j))
           c == Swap(b, ParentOf(i), ParentOf(j))
<1>0. /\ {TableOf(i), KeyOf(i), ParentOf(i), TableOf(j), KeyOf(j), ParentOf(j)} \subseteq Member
      /\ TableOf(i) # TableOf(j) /\ KeyOf(i) # KeyOf(j) /\ ParentOf(i) # ParentOf(j)
  BY Members
<1>1. Owned(a) /\ Same(s, a, {TableOf(i), TableOf(j)})
  BY <1>0, SwapOwned
<1>2. Owned(b) /\ Same(a, b, {KeyOf(i), KeyOf(j)})
  BY <1>0, <1>1, SwapOwned
<1>3. Owned(c) /\ Same(b, c, {ParentOf(i), ParentOf(j)})
  BY <1>0, <1>2, SwapOwned
<1>4. c = SwapItem(s, i, j)
  BY DEF SwapItem
<1> HIDE DEF a, b, c
<1> QED BY <1>1, <1>2, <1>3, <1>4 DEF Same

LEMMA PushedType ==
  ASSUME NEW s, Owned(s), NEW m \in Member
  PROVE  Pushed(s, m) \in Value \union {Nil}
<1>1. s.reg \in [Slot -> Value \union {Free}]
  BY DEF Owned, State
<1> QED BY <1>1, ReferenceAssumption DEF Pushed, Value, Owned

LEMMA GetType ==
  ASSUME IInv, NEW t, NEW k
  PROVE  Get(t, k) \in Value \union {Nil}
BY DEF IInv, Get

LEMMA HolderType ==
  ASSUME IInv, NEW i \in Objects
  PROVE  Holder(i) \in Value \union {Nil} /\ Element(i) \in Value \union {Nil}
<1>1. Element(i) \in Value \union {Nil}
  BY GetType DEF Element
<1>2. Root(i) \in Value \union {Nil}
  BY PushedType, Members DEF Root, IInv
<1> QED BY <1>1, <1>2, GetType DEF Holder

LEMMA ReplacedOwned ==
  ASSUME IInv, NEW r \in Ref, NEW v \in Value \union {Nil}, Room
  PROVE  /\ Owned(Replaced(r, v)) /\ Same(Now, Replaced(r, v), {RefOf(r), RefOf(Tmp)})
         /\ Replaced(r, v).at[RefOf(Tmp)] = NoRef
<1> DEFINE a == Acquire(Now, RefOf(Tmp), v)
           b == Swap(a, RefOf(r), RefOf(Tmp))
           c == Release(b, RefOf(Tmp))
<1>0. RefOf(r) \in Member /\ RefOf(Tmp) \in Member /\ RefOf(r) # RefOf(Tmp)
  BY Members, ReferenceAssumption
<1>1. Now.at[RefOf(Tmp)] \notin Slot
  BY ReferenceAssumption DEF IInv, TmpIdle, Now
<1>2. Owned(a) /\ Same(Now, a, {RefOf(Tmp)})
  BY <1>0, <1>1, AcquireOwned, RoomIsTwo DEF IInv
<1>3. Owned(b) /\ Same(a, b, {RefOf(r), RefOf(Tmp)})
  BY <1>0, <1>2, SwapOwned
<1>4. Owned(c) /\ Same(b, c, {RefOf(Tmp)}) /\ c.at[RefOf(Tmp)] = NoRef
  BY <1>0, <1>3, ReleaseOwned
<1>5. c = Replaced(r, v)
  BY DEF Replaced
<1> HIDE DEF a, b, c
<1> QED BY <1>2, <1>3, <1>4, <1>5 DEF Same

(* A copy is built in an object that owns nothing.                         *)
LEMMA CopiedOwned ==
  ASSUME IInv, NEW i \in Objects, NEW j \in Item, Room,
         index[TableOf(i)] \notin Slot, index[KeyOf(i)] \notin Slot
  PROVE  Owned(Copied(Now, i, j)) /\ Same(Now, Copied(Now, i, j), {TableOf(i), KeyOf(i)})
<1> DEFINE t == Acquire(Now, TableOf(i), Holder(j))
           k == Pushed(Now, KeyOf(j))
<1>0. j \in Objects /\ TableOf(i) \in Member /\ KeyOf(i) \in Member /\ TableOf(i) # KeyOf(i)
  BY Members DEF Objects
<1>1. Owned(t) /\ Same(Now, t, {TableOf(i)}) /\ HasFree(t)
  BY <1>0, AcquireOwned, HolderType, RoomIsTwo DEF IInv, Now
<1>2. t.at[KeyOf(i)] \notin Slot
  BY <1>0, <1>1 DEF Same, Now
<1>3. k \in Value \union {Nil}
  BY <1>0, PushedType, Members DEF IInv
<1>4. Owned(SetKey(t, i, k)) /\ Same(t, SetKey(t, i, k), {KeyOf(i)})
  BY <1>1, <1>2, <1>3, SetKeyOwned
<1>5. Copied(Now, i, j) = t \/ Copied(Now, i, j) = SetKey(t, i, k)
  BY DEF Copied
<1> HIDE DEF t, k
<1> QED BY <1>1, <1>4, <1>5 DEF Same

-----------------------------------------------------------------------------
(* The invariant.                                                          *)

LEMMA Initially == Init => IInv
<1> SUFFICES ASSUME Init PROVE IInv
  OBVIOUS
<1>1. Now \in State
  BY DEF Init, Now, State, Index
<1>2. \A m \in Member : Now.at[m] = NoRef
  BY DEF Init, Now
<1>3. \A n \in Slot : Now.reg[n] = Free
  BY DEF Init, Now
<1>4. Owned(Now)
  BY <1>1, <1>2, <1>3, ReferenceAssumption DEF Owned
<1>5. TmpIdle
  BY Members DEF Init, TmpIdle, Objects
<1>6. heap \in [Table -> [Key -> Value \union {Nil}]]
  BY DEF Init
<1> QED BY <1>4, <1>5, <1>6 DEF IInv

(* An operation that leaves the members owned, and the temporary idle,     *)
(* preserves the invariant.                                                *)
LEMMA BecomeInv ==
  ASSUME IInv, NEW s, Owned(s), Become(s), UNCHANGED heap,
         \A m \in {RefOf(Tmp), TableOf(Tmp), KeyOf(Tmp), ParentOf(Tmp)} : s.at[m] = NoRef
  PROVE  IInv'
<1>1. registry' = s.reg /\ index' = s.at /\ s \in State
  BY DEF Become, Owned
<1>2. Now' = s
  BY <1>1 DEF Now, State
<1>3. Owned(Now)'
  BY <1>2 DEF Owned
<1>4. TmpIdle'
  BY <1>1 DEF TmpIdle
<1> QED BY <1>3, <1>4 DEF IInv

(* The members of the temporary are none of those the operation changes.   *)
LEMMA TmpKept ==
  ASSUME IInv, NEW s, NEW M, Same(Now, s, M),
         NEW m \in {RefOf(Tmp), TableOf(Tmp), KeyOf(Tmp), ParentOf(Tmp)}, m \notin M
  PROVE  s.at[m] = NoRef
BY Members DEF IInv, TmpIdle, Same, Now, Objects

LEMMA TmpApart ==
  /\ \A r \in Ref : RefOf(r) \notin {RefOf(Tmp), TableOf(Tmp), KeyOf(Tmp), ParentOf(Tmp)}
  /\ \A i \in Item : \A m \in {TableOf(i), KeyOf(i), ParentOf(i)} :
       m \notin {RefOf(Tmp), TableOf(Tmp), KeyOf(Tmp), ParentOf(Tmp)}
BY Members, ReferenceAssumption

LEMMA ReplaceStep ==
  ASSUME IInv, NEW r \in Ref, NEW v \in Value \union {Nil}, Room,
         Become(Replaced(r, v)), UNCHANGED heap
  PROVE  IInv'
<1> DEFINE s == Replaced(r, v)
<1>1. Owned(s) /\ Same(Now, s, {RefOf(r), RefOf(Tmp)}) /\ s.at[RefOf(Tmp)] = NoRef
  BY ReplacedOwned
<1> HIDE DEF s
<1>2. \A m \in {TableOf(Tmp), KeyOf(Tmp), ParentOf(Tmp)} : m \notin {RefOf(r), RefOf(Tmp)}
  BY Members
<1>3. \A m \in {RefOf(Tmp), TableOf(Tmp), KeyOf(Tmp), ParentOf(Tmp)} : s.at[m] = NoRef
  BY <1>1, <1>2, TmpKept
<1> QED BY <1>1, <1>3, BecomeInv DEF s

(* LuaRef.                                                                 *)
LEMMA RefStep ==
  ASSUME IInv, NEW r \in Ref, NextRef(r)
  PROVE  IInv'
<1>0. RefOf(r) \in Member
  BY Members
<1>1. ASSUME NEW v \in Contents, AssignValue(r, v) PROVE IInv'
  BY <1>1, ReplaceStep DEF AssignValue, Contents, Value
<1>2. ASSUME NEW v \in Contents, Pop(r, v) PROVE IInv'
  <2> DEFINE a == Release(Now, RefOf(r))
             b == Acquire(a, RefOf(r), v)
  <2>1. Owned(a) /\ Same(Now, a, {RefOf(r)}) /\ a.at[RefOf(r)] = NoRef /\ HasFree(a)
    BY <1>0, <1>2, ReleaseOwned, RoomIsTwo DEF IInv, Pop
  <2>2. Owned(b) /\ Same(a, b, {RefOf(r)})
    BY <1>0, <2>1, AcquireOwned, ReferenceAssumption DEF Contents, Value
  <2>3. Become(b) /\ UNCHANGED heap
    BY <1>2 DEF Pop
  <2> HIDE DEF a, b
  <2>4. Same(Now, b, {RefOf(r)})
    BY <2>1, <2>2 DEF Same
  <2> QED BY <2>2, <2>3, <2>4, TmpKept, TmpApart, BecomeInv
<1>3. ASSUME NEW q \in Ref, CopyAssign(r, q) PROVE IInv'
  BY <1>3, ReplaceStep, PushedType, Members DEF CopyAssign, IInv
<1>4. ASSUME NEW q \in Ref, MoveAssign(r, q) PROVE IInv'
  <2> DEFINE a == Release(Now, RefOf(r))
             b == Take(a, RefOf(r), RefOf(q))
  <2>1. RefOf(q) \in Member /\ RefOf(q) # RefOf(r)
    BY <1>4, Members DEF MoveAssign
  <2>2. Owned(a) /\ Same(Now, a, {RefOf(r)}) /\ a.at[RefOf(r)] = NoRef
    BY <1>0, ReleaseOwned DEF IInv
  <2>3. Owned(b) /\ Same(a, b, {RefOf(r), RefOf(q)})
    BY <1>0, <2>1, <2>2, TakeOwned, ReferenceAssumption
  <2>4. Become(b) /\ UNCHANGED heap
    BY <1>4 DEF MoveAssign
  <2> HIDE DEF a, b
  <2>5. Same(Now, b, {RefOf(r), RefOf(q)})
    BY <2>2, <2>3 DEF Same
  <2> QED BY <2>3, <2>4, <2>5, TmpKept, TmpApart, BecomeInv
<1>5. ASSUME NEW i \in Item, AssignItem(r, i) PROVE IInv'
  BY <1>5, ReplaceStep, HolderType DEF AssignItem, Objects
<1>6. ASSUME DestroyRef(r) PROVE IInv'
  <2> DEFINE a == Release(Now, RefOf(r))
  <2>1. Owned(a) /\ Same(Now, a, {RefOf(r)})
    BY <1>0, ReleaseOwned DEF IInv
  <2>2. Become(a) /\ UNCHANGED heap
    BY <1>6 DEF DestroyRef
  <2> HIDE DEF a
  <2> QED BY <2>1, <2>2, TmpKept, TmpApart, BecomeInv
<1> QED BY <1>1, <1>2, <1>3, <1>4, <1>5, <1>6 DEF NextRef

(* TableItem.                                                              *)
LEMMA ItemStep ==
  ASSUME IInv, NEW i \in Item, NextItem(i)
  PROVE  IInv'
<1> DEFINE Mine == {TableOf(i), KeyOf(i), ParentOf(i)}
<1>0. /\ Mine \subseteq Member /\ i \in Objects /\ Owned(Now)
      /\ TableOf(i) # KeyOf(i) /\ TableOf(i) # ParentOf(i) /\ KeyOf(i) # ParentOf(i)
  BY Members DEF Objects, IInv
<1>a. Blank(i) => \A m \in Mine : Now.at[m] \notin Slot
  BY ReferenceAssumption DEF Blank, Now
<1>b. ASSUME NEW s, NEW M, Owned(s), Same(Now, s, M), Become(s), UNCHANGED heap,
             \A m \in M : m \notin {RefOf(Tmp), TableOf(Tmp), KeyOf(Tmp), ParentOf(Tmp)}
      PROVE IInv'
  BY <1>b, TmpKept, BecomeInv
<1>c. \A k \in Key : k \in Value \union {Nil}
  BY DEF Value
<1>1. ASSUME NEW r \in Ref, NEW k \in Key, IndexRef(i, r, k) PROVE IInv'
  <2> DEFINE a == SetKey(Now, i, k)
             b == Acquire(a, TableOf(i), Pushed(Now, RefOf(r)))
  <2>1. Owned(a) /\ Same(Now, a, {KeyOf(i)}) /\ HasFree(a)
    BY <1>0, <1>a, <1>c, <1>1, SetKeyOwned, RoomIsTwo DEF IndexRef
  <2>2. a.at[TableOf(i)] \notin Slot
    BY <1>0, <1>a, <1>1, <2>1 DEF Same, IndexRef
  <2>3. Pushed(Now, RefOf(r)) \in Value \union {Nil}
    BY <1>0, PushedType, Members
  <2>4. Owned(b) /\ Same(a, b, {TableOf(i)})
    BY <1>0, <2>1, <2>2, <2>3, AcquireOwned
  <2>5. Become(b) /\ UNCHANGED heap
    BY <1>1 DEF IndexRef
  <2> HIDE DEF a, b
  <2>6. Same(Now, b, Mine)
    BY <2>1, <2>4 DEF Same
  <2> QED BY <1>b, <2>4, <2>5, <2>6, TmpApart
<1>2. ASSUME NEW r \in Ref, NEW k \in Key, AdoptRef(i, r, k) PROVE IInv'
  <2> DEFINE a == SetKey(Now, i, k)
             b == Take(a, TableOf(i), RefOf(r))
  <2>1. Owned(a) /\ Same(Now, a, {KeyOf(i)})
    BY <1>0, <1>a, <1>c, <1>2, SetKeyOwned, RoomIsTwo DEF AdoptRef
  <2>2. a.at[TableOf(i)] \notin Slot
    BY <1>0, <1>a, <1>2, <2>1 DEF Same, AdoptRef
  <2>3. RefOf(r) \in Member /\ TableOf(i) # RefOf(r)
    BY Members
  <2>4. Owned(b) /\ Same(a, b, {TableOf(i), RefOf(r)})
    BY <1>0, <2>1, <2>2, <2>3, TakeOwned
  <2>5. Become(b) /\ UNCHANGED heap
    BY <1>2 DEF AdoptRef
  <2> HIDE DEF a, b
  <2>6. Same(Now, b, Mine \union {RefOf(r)})
    BY <2>1, <2>4 DEF Same
  <2> QED BY <1>b, <2>4, <2>5, <2>6, TmpApart
<1>3. ASSUME NEW j \in Item, NEW k \in Key, Child(i, j, k) PROVE IInv'
  <2> DEFINE a == SetKey(Now, i, k)
             b == Acquire(a, TableOf(i), Element(j))
  <2>1. Owned(a) /\ Same(Now, a, {KeyOf(i)}) /\ HasFree(a)
    BY <1>0, <1>a, <1>c, <1>3, SetKeyOwned, RoomIsTwo DEF Child
  <2>2. a.at[TableOf(i)] \notin Slot
    BY <1>0, <1>a, <1>3, <2>1 DEF Same, Child
  <2>3. Element(j) \in Value \union {Nil}
    BY HolderType DEF Objects
  <2>4. Owned(b) /\ Same(a, b, {TableOf(i)})
    BY <1>0, <2>1, <2>2, <2>3, AcquireOwned
  <2>5. Become(b) /\ UNCHANGED heap
    BY <1>3 DEF Child
  <2> HIDE DEF a, b
  <2>6. Same(Now, b, Mine)
    BY <2>1, <2>4 DEF Same
  <2> QED BY <1>b, <2>4, <2>5, <2>6, TmpApart
<1>4. ASSUME NEW j \in Item, NEW k \in Key, Chain(i, j, k) PROVE IInv'
  <2> DEFINE a == Take(Now, TableOf(i), TableOf(j))
             b == Take(a, ParentOf(i), KeyOf(j))
             c == SetKey(b, i, k)
  <2>0. /\ TableOf(j) \in Member /\ KeyOf(j) \in Member
        /\ {TableOf(j), KeyOf(j)} \intersect Mine = {} /\ j \in Objects
    BY <1>4, Members DEF Chain, Objects
  <2>1. Owned(a) /\ Same(Now, a, {TableOf(i), TableOf(j)}) /\ a.reg = Now.reg
    BY <1>0, <1>a, <1>4, <2>0, TakeOwned DEF Chain
  <2>2. a.at[ParentOf(i)] \notin Slot /\ a.at[KeyOf(i)] \notin Slot
    BY <1>0, <1>a, <1>4, <2>0, <2>1 DEF Same, Chain
  <2>3. Owned(b) /\ Same(a, b, {ParentOf(i), KeyOf(j)}) /\ b.reg = a.reg
    BY <1>0, <2>0, <2>1, <2>2, TakeOwned
  <2>4. b.at[KeyOf(i)] \notin Slot
    BY <1>0, <2>0, <2>2, <2>3 DEF Same
  <2>5. HasFree(b)
    BY <1>4, <2>1, <2>3, RoomIsTwo DEF HasFree, Chain
  <2>6. Owned(c) /\ Same(b, c, {KeyOf(i)})
    BY <1>0, <1>c, <2>3, <2>4, <2>5, SetKeyOwned
  <2>7. Become(c) /\ UNCHANGED heap
    BY <1>4 DEF Chain
  <2> HIDE DEF a, b, c
  <2>8. Same(Now, c, Mine \union {TableOf(j), KeyOf(j)})
    BY <2>1, <2>3, <2>6 DEF Same
  <2> QED BY <1>b, <2>6, <2>7, <2>8, TmpApart
<1>5. ASSUME NEW j \in Item, CopyItem(i, j) PROVE IInv'
  <2> DEFINE a == Copied(Now, i, j)
  <2>1. Owned(a) /\ Same(Now, a, {TableOf(i), KeyOf(i)})
    BY <1>0, <1>a, <1>5, CopiedOwned DEF CopyItem, Now
  <2>2. Become(a) /\ UNCHANGED heap
    BY <1>5 DEF CopyItem
  <2> HIDE DEF a
  <2> QED BY <1>b, <2>1, <2>2, TmpApart
<1>6. ASSUME NEW j \in Item, CopyAssignItem(i, j) PROVE IInv'
  <2> DEFINE a == Copied(Now, Tmp, j)
             b == SwapItem(a, i, Tmp)
             c == ReleaseItem(b, Tmp)
             Theirs == {TableOf(Tmp), KeyOf(Tmp), ParentOf(Tmp)}
  <2>0. Tmp \in Objects /\ i # Tmp
    BY ReferenceAssumption DEF Objects
  <2>1. Owned(a) /\ Same(Now, a, {TableOf(Tmp), KeyOf(Tmp)})
    BY <1>6, <2>0, CopiedOwned, ReferenceAssumption DEF CopyAssignItem, IInv, TmpIdle
  <2>2. Owned(b) /\ Same(a, b, Mine \union Theirs)
    BY <1>0, <2>0, <2>1, SwapItemOwned DEF Same
  <2>3. Owned(c) /\ Same(b, c, Theirs) /\ \A m \in Theirs : c.at[m] = NoRef
    BY <2>0, <2>2, ReleaseItemOwned
  <2>4. Become(c) /\ UNCHANGED heap
    BY <1>6 DEF CopyAssignItem
  <2> HIDE DEF a, b, c
  <2>5. Same(Now, c, Mine \union Theirs)
    BY <2>1, <2>2, <2>3 DEF Same
  <2>6. RefOf(Tmp) \notin Mine \union Theirs
    BY Members
  <2>7. c.at[RefOf(Tmp)] = NoRef
    BY <2>5, <2>6, TmpKept
  <2> QED BY <2>3, <2>4, <2>7, BecomeInv
<1>7. ASSUME NEW j \in Item, MoveAssignItem(i, j) PROVE IInv'
  <2> DEFINE a == ReleaseItem(Now, i)
             b == TakeItem(a, i, j)
             Theirs == {TableOf(j), KeyOf(j), ParentOf(j)}
  <2>0. j \in Objects /\ i # j
    BY <1>7 DEF MoveAssignItem, Objects
  <2>1. Owned(a) /\ Same(Now, a, Mine) /\ \A m \in Mine : a.at[m] = NoRef
    BY <1>0, ReleaseItemOwned
  <2>2. \A m \in Mine : a.at[m] \notin Slot
    BY <2>1, ReferenceAssumption
  <2>3. Owned(b) /\ Same(a, b, Mine \union Theirs)
    BY <1>0, <2>0, <2>1, <2>2, TakeItemOwned DEF Same
  <2>4. Become(b) /\ UNCHANGED heap
    BY <1>7 DEF MoveAssignItem
  <2> HIDE DEF a, b
  <2>5. Same(Now, b, Mine \union Theirs)
    BY <2>1, <2>3 DEF Same
  <2> QED BY <1>b, <2>3, <2>4, <2>5, TmpApart
<1>8. ASSUME NEW v \in Contents, Write(i, v) PROVE IInv'
  <2>1. Holder(i) \in Table /\ Pushed(Now, KeyOf(i)) \in Key
    BY <1>8 DEF Write, HasElement
  <2>2. heap' = [heap EXCEPT ![Holder(i)][Pushed(Now, KeyOf(i))] = v]
        /\ UNCHANGED <<registry, index>>
    BY <1>8 DEF Write, SetField
  <2>3. v \in Value \union {Nil}
    BY DEF Contents, Value
  <2>4. heap' \in [Table -> [Key -> Value \union {Nil}]]
    BY <2>1, <2>2, <2>3 DEF IInv
  <2> QED BY <2>2, <2>4 DEF IInv, Now, Owned, TmpIdle
<1>9. ASSUME DestroyItem(i) PROVE IInv'
  <2> DEFINE a == ReleaseItem(Now, i)
  <2>1. Owned(a) /\ Same(Now, a, Mine)
    BY <1>0, ReleaseItemOwned
  <2>2. Become(a) /\ UNCHANGED heap
    BY <1>9 DEF DestroyItem
  <2> HIDE DEF a
  <2> QED BY <1>b, <2>1, <2>2, TmpApart
<1> QED BY <1>1, <1>2, <1>3, <1>4, <1>5, <1>6, <1>7, <1>8, <1>9 DEF NextItem

LEMMA Inductive == IInv /\ [Next]_vars => IInv'
<1> SUFFICES ASSUME IInv, [Next]_vars PROVE IInv'
  OBVIOUS
<1>1. ASSUME NEW r \in Ref, NextRef(r) PROVE IInv'
  BY <1>1, RefStep
<1>2. ASSUME NEW i \in Item, NextItem(i) PROVE IInv'
  BY <1>2, ItemStep
<1>3. ASSUME NEW t \in Table, NEW k \in Key, NEW v \in Contents, Script(t, k, v) PROVE IInv'
  <2>1. heap' = [heap EXCEPT ![t][k] = v] /\ UNCHANGED <<registry, index>>
    BY <1>3 DEF Script, SetField
  <2>2. v \in Value \union {Nil}
    BY DEF Contents, Value
  <2>3. heap' \in [Table -> [Key -> Value \union {Nil}]]
    BY <2>1, <2>2 DEF IInv
  <2> QED BY <2>1, <2>3 DEF IInv, Now, Owned, TmpIdle
<1>4. ASSUME UNCHANGED vars PROVE IInv'
  BY <1>4 DEF vars, IInv, Now, Owned, TmpIdle
<1> QED BY <1>1, <1>2, <1>3, <1>4 DEF Next

(* The invariant holds in every reachable state.                           *)
LEMMA Invariant == Spec => []IInv
<1>1. Init => IInv
  BY Initially
<1>2. IInv /\ [Next]_vars => IInv'
  BY Inductive
<1> QED BY <1>1, <1>2, PTL DEF Spec

(* Members hold indices and slots hold values: nil never takes a slot, and *)
(* what is pinned is what a table or a key is.                             *)
THEOREM ReferencesTypeCorrect == Spec => []RTypeOK
<1>1. IInv => RTypeOK
  BY DEF IInv, RTypeOK, Owned, State, Now
<1> QED BY <1>1, Invariant, PTL

(* However LuaRefs and proxies are copied, moved, swapped, adopted and     *)
(* chained (LuaRef.h), each slot in use belongs to one member of one       *)
(* object, and no object holds a slot that was given back.                 *)
THEOREM SlotsOwned == Spec => []OneOwner
<1>1. IInv => OneOwner
  BY DEF IInv, OneOwner, NotDangling, NotShared, NotLeaked, Owned, Now
<1> QED BY <1>1, Invariant, PTL
-----------------------------------------------------------------------------
(* What a member holds: nothing, or a value. Ownership makes it independent*)
(* of what the others do with their slots.                                 *)
Absent == <<>>
Held(s, m) == IF s.at[m] = NoRef THEN Absent ELSE <<Pushed(s, m)>>
Datum(x) == IF x = Absent THEN Nil ELSE x[1]
Stays(s, t, M) == \A o \in Member \ M : Held(t, o) = Held(s, o)

LEMMA Absence == \A x : <<x>> # Absent /\ <<x>>[1] = x /\ Datum(<<x>>) = x /\ Datum(Absent) = Nil
BY DEF Absent, Datum

LEMMA HeldPushed ==
  ASSUME NEW s, NEW m
  PROVE  /\ Pushed(s, m) = Datum(Held(s, m))
         /\ s.at[m] = NoRef <=> Held(s, m) = Absent
<1>1. CASE s.at[m] = NoRef
  BY <1>1, ReferenceAssumption, Absence DEF Pushed, Held
<1>2. CASE s.at[m] # NoRef
  BY <1>2, Absence DEF Held
<1> QED BY <1>1, <1>2

LEMMA HeldStays ==
  ASSUME NEW s, NEW t, NEW M, Same(s, t, M),
         \A o \in Member \ M : s.at[o] \in Slot => t.reg[s.at[o]] = s.reg[s.at[o]]
  PROVE  Stays(s, t, M)
<1> SUFFICES ASSUME NEW o \in Member \ M PROVE Held(t, o) = Held(s, o)
  BY DEF Stays
<1>1. t.at[o] = s.at[o]
  BY DEF Same
<1>2. Pushed(t, o) = Pushed(s, o)
  BY <1>1 DEF Pushed
<1> QED BY <1>1, <1>2 DEF Held

(* The four calls.                                                         *)
LEMMA AcquireHeld ==
  ASSUME NEW s, Owned(s), NEW m \in Member, s.at[m] \notin Slot,
         NEW v \in Value \union {Nil}, HasFree(s)
  PROVE  Held(Acquire(s, m, v), m) = <<v>> /\ Stays(s, Acquire(s, m, v), {m})
<1> DEFINE t == Acquire(s, m, v)
           n == CHOOSE n \in Slot : s.reg[n] = Free
<1>1. /\ Same(s, t, {m}) /\ s.reg \in [Slot -> Value \union {Free}]
      /\ s.at \in [Member -> Index]
  BY AcquireOwned DEF Owned, State
<1>2. CASE v = Nil
  <2>1. t.reg = s.reg /\ t.at = [s.at EXCEPT ![m] = RefNil]
    BY <1>2 DEF Acquire
  <2>2. t.at[m] = RefNil /\ RefNil # NoRef /\ RefNil \notin Slot /\ RefNil \notin Literal
    BY <1>1, <2>1, ReferenceAssumption
  <2>3. Held(t, m) = <<v>>
    BY <1>2, <2>2 DEF Held, Pushed
  <2> QED BY <1>1, <2>1, <2>3, HeldStays
<1>3. CASE v # Nil
  <2>1. n \in Slot /\ s.reg[n] = Free
    BY DEF HasFree
  <2>2. t.reg = [s.reg EXCEPT ![n] = v] /\ t.at = [s.at EXCEPT ![m] = n]
    BY <1>3 DEF Acquire
  <2> HIDE DEF n
  <2>3. t.at[m] = n /\ t.reg[n] = v /\ n # NoRef
    BY <1>1, <2>1, <2>2, ReferenceAssumption
  <2> HIDE DEF t
  <2>4. Held(t, m) = <<v>>
    <3>1. Pushed(t, m) = v
      BY <2>1, <2>3, ReferenceAssumption DEF Pushed
    <3> QED BY <2>3, <3>1 DEF Held
  <2>5. \A o \in Member \ {m} : s.at[o] \in Slot => t.reg[s.at[o]] = s.reg[s.at[o]]
    <3>1. \A o \in Member : s.at[o] \in Slot => s.at[o] # n
      BY <2>1 DEF Owned
    <3> QED BY <1>1, <2>2, <3>1
  <2> QED BY <1>1, <2>4, <2>5, HeldStays DEF t
<1> QED BY <1>2, <1>3

LEMMA ReleaseHeld ==
  ASSUME NEW s, Owned(s), NEW m \in Member
  PROVE  Held(Release(s, m), m) = Absent /\ Stays(s, Release(s, m), {m})
<1> DEFINE t == Release(s, m)
<1>1. /\ Same(s, t, {m}) /\ t.at[m] = NoRef /\ s.reg \in [Slot -> Value \union {Free}]
  BY ReleaseOwned DEF Owned, State
<1>2. t.reg = IF s.at[m] \in Slot THEN [s.reg EXCEPT ![s.at[m]] = Free] ELSE s.reg
  BY DEF Release
<1> HIDE DEF t
<1>3. \A o \in Member \ {m} : s.at[o] \in Slot => t.reg[s.at[o]] = s.reg[s.at[o]]
  <2>1. \A o \in Member \ {m} : s.at[o] \in Slot => s.at[o] # s.at[m]
    BY DEF Owned
  <2> QED BY <1>1, <1>2, <2>1
<1>4. Held(t, m) = Absent
  BY <1>1 DEF Held
<1> QED BY <1>1, <1>3, <1>4, HeldStays DEF t

LEMMA TakeHeld ==
  ASSUME NEW s, Owned(s), NEW m \in Member, NEW o \in Member, m # o, s.at[m] \notin Slot
  PROVE  /\ Held(Take(s, m, o), m) = Held(s, o) /\ Held(Take(s, m, o), o) = Absent
         /\ Stays(s, Take(s, m, o), {m, o})
<1> DEFINE t == Take(s, m, o)
<1>0. Same(s, t, {m, o}) /\ t.at[o] = NoRef /\ t.reg = s.reg
  BY TakeOwned
<1>1. Same(s, t, {m, o}) /\ t.at[o] = NoRef /\ t.reg = s.reg /\ s.at \in [Member -> Index]
  BY <1>0 DEF Owned, State
<1>2. t.at[m] = s.at[o]
  BY <1>1 DEF Take
<1> HIDE DEF t
<1>3. Pushed(t, m) = Pushed(s, o)
  BY <1>1, <1>2 DEF Pushed
<1>4. Held(t, m) = Held(s, o) /\ Held(t, o) = Absent
  BY <1>1, <1>2, <1>3 DEF Held
<1> QED BY <1>1, <1>4, HeldStays DEF t

LEMMA SwapHeld ==
  ASSUME NEW s, Owned(s), NEW m \in Member, NEW o \in Member, m # o
  PROVE  /\ Held(Swap(s, m, o), m) = Held(s, o) /\ Held(Swap(s, m, o), o) = Held(s, m)
         /\ Stays(s, Swap(s, m, o), {m, o})
<1> DEFINE t == Swap(s, m, o)
<1>1. /\ Same(s, t, {m, o}) /\ t.reg = s.reg /\ s.at \in [Member -> Index]
  BY SwapOwned DEF Owned, State, Swap
<1>2. t.at[m] = s.at[o] /\ t.at[o] = s.at[m]
  BY <1>1 DEF Swap
<1> HIDE DEF t
<1>3. Pushed(t, m) = Pushed(s, o) /\ Pushed(t, o) = Pushed(s, m)
  BY <1>1, <1>2 DEF Pushed
<1>4. Held(t, m) = Held(s, o) /\ Held(t, o) = Held(s, m)
  BY <1>2, <1>3 DEF Held
<1> QED BY <1>1, <1>4, HeldStays DEF t

(* The operations on all members of an object.                             *)
LEMMA SetKeyHeld ==
  ASSUME NEW s, Owned(s), NEW i \in Objects, s.at[KeyOf(i)] \notin Slot,
         NEW k \in Value \union {Nil}, HasFree(s)
  PROVE  Held(SetKey(s, i, k), KeyOf(i)) = <<k>> /\ Stays(s, SetKey(s, i, k), {KeyOf(i)})
<1> DEFINE t == SetKey(s, i, k)
<1>0. KeyOf(i) \in Member
  BY Members
<1>1. CASE k \in Literal
  <2>1. /\ Same(s, t, {KeyOf(i)}) /\ t.reg = s.reg
        /\ t.at = [s.at EXCEPT ![KeyOf(i)] = k] /\ s.at \in [Member -> Index]
    BY <1>1, SetKeyOwned DEF SetKey, Owned, State
  <2>2. t.at[KeyOf(i)] = k /\ k # NoRef /\ k \notin Slot
    BY <1>0, <1>1, <2>1, ReferenceAssumption
  <2> HIDE DEF t
  <2>3. Held(t, KeyOf(i)) = <<k>>
    BY <1>1, <2>2 DEF Held, Pushed
  <2> QED BY <2>1, <2>3, HeldStays DEF t
<1>2. CASE k \notin Literal
  BY <1>0, <1>2, AcquireHeld DEF SetKey
<1> QED BY <1>1, <1>2

LEMMA ReleaseItemHeld ==
  ASSUME NEW s, Owned(s), NEW i \in Objects
  PROVE  /\ Stays(s, ReleaseItem(s, i), {TableOf(i), KeyOf(i), ParentOf(i)})
         /\ \A m \in {TableOf(i), KeyOf(i), ParentOf(i)} : Held(ReleaseItem(s, i), m) = Absent
<1> DEFINE a == Release(s, KeyOf(i))
           b == Release(a, ParentOf(i))
           c == Release(b, TableOf(i))
<1>0. {TableOf(i), KeyOf(i), ParentOf(i)} \subseteq Member
  BY Members
<1>1. Owned(a) /\ Stays(s, a, {KeyOf(i)})
  BY <1>0, ReleaseOwned, ReleaseHeld
<1>2. Owned(b) /\ Stays(a, b, {ParentOf(i)})
  BY <1>0, <1>1, ReleaseOwned, ReleaseHeld
<1>3. Stays(b, c, {TableOf(i)})
  BY <1>0, <1>2, ReleaseHeld
<1>4. c = ReleaseItem(s, i) /\ \A m \in {TableOf(i), KeyOf(i), ParentOf(i)} : c.at[m] = NoRef
  BY ReleaseItemOwned DEF ReleaseItem
<1> HIDE DEF a, b, c
<1>5. \A m \in {TableOf(i), KeyOf(i), ParentOf(i)} : Held(c, m) = Absent
  BY <1>4 DEF Held
<1> QED BY <1>1, <1>2, <1>3, <1>4, <1>5 DEF Stays

LEMMA TakeItemHeld ==
  ASSUME NEW s, Owned(s), NEW i \in Objects, NEW j \in Objects, i # j,
         \A m \in {TableOf(i), KeyOf(i), ParentOf(i)} : s.at[m] \notin Slot
  PROVE  /\ Held(TakeItem(s, i, j), TableOf(i)) = Held(s, TableOf(j))
         /\ Held(TakeItem(s, i, j), KeyOf(i)) = Held(s, KeyOf(j))
         /\ Held(TakeItem(s, i, j), ParentOf(i)) = Held(s, ParentOf(j))
         /\ \A m \in {TableOf(j), KeyOf(j), ParentOf(j)} : Held(TakeItem(s, i, j), m) = Absent
         /\ Stays(s, TakeItem(s, i, j),
                  {TableOf(i), KeyOf(i), ParentOf(i), TableOf(j), KeyOf(j), ParentOf(j)})
<1> DEFINE a == Take(s, TableOf(i), TableOf(j))
           b == Take(a, KeyOf(i), KeyOf(j))
           c == Take(b, ParentOf(i), ParentOf(j))
<1>0. /\ {TableOf(i), KeyOf(i), ParentOf(i), TableOf(j), KeyOf(j), ParentOf(j)} \subseteq Member
      /\ TableOf(i) # TableOf(j) /\ KeyOf(i) # KeyOf(j) /\ ParentOf(i) # ParentOf(j)
  BY Members
<1>1. /\ Owned(a) /\ Same(s, a, {TableOf(i), TableOf(j)}) /\ Stays(s, a, {TableOf(i), TableOf(j)})
      /\ Held(a, TableOf(i)) = Held(s, TableOf(j)) /\ Held(a, TableOf(j)) = Absent
  BY <1>0, TakeOwned, TakeHeld
<1>2. a.at[KeyOf(i)] = s.at[KeyOf(i)] /\ a.at[ParentOf(i)] = s.at[ParentOf(i)]
  BY <1>0, <1>1, Members DEF Same
<1>3. /\ Owned(b) /\ Same(a, b, {KeyOf(i), KeyOf(j)}) /\ Stays(a, b, {KeyOf(i), KeyOf(j)})
      /\ Held(b, KeyOf(i)) = Held(a, KeyOf(j)) /\ Held(b, KeyOf(j)) = Absent
  <2>1. KeyOf(i) \in Member /\ KeyOf(j) \in Member /\ KeyOf(i) # KeyOf(j)
    BY <1>0
  <2>2. a.at[KeyOf(i)] \notin Slot
    BY <1>2
  <2>3. Owned(b) /\ Same(a, b, {KeyOf(i), KeyOf(j)})
    BY ONLY <1>1, <2>1, <2>2, TakeOwned
  <2>4. /\ Held(b, KeyOf(i)) = Held(a, KeyOf(j)) /\ Held(b, KeyOf(j)) = Absent
        /\ Stays(a, b, {KeyOf(i), KeyOf(j)})
    BY ONLY <1>1, <2>1, <2>2, TakeHeld
  <2> QED BY <2>3, <2>4
<1>4. b.at[ParentOf(i)] = a.at[ParentOf(i)]
  BY <1>0, <1>3, Members DEF Same
<1>5. /\ Stays(b, c, {ParentOf(i), ParentOf(j)})
      /\ Held(c, ParentOf(i)) = Held(b, ParentOf(j)) /\ Held(c, ParentOf(j)) = Absent
  BY <1>0, <1>2, <1>3, <1>4, TakeHeld
<1>6. c = TakeItem(s, i, j)
  BY DEF TakeItem
<1> HIDE DEF a, b, c
<1> QED BY <1>0, <1>1, <1>3, <1>5, <1>6, Members DEF Stays

LEMMA SwapItemHeld ==
  ASSUME NEW s, Owned(s), NEW i \in Objects, NEW j \in Objects, i # j
  PROVE  /\ Held(SwapItem(s, i, j), TableOf(i)) = Held(s, TableOf(j))
         /\ Held(SwapItem(s, i, j), KeyOf(i)) = Held(s, KeyOf(j))
         /\ Held(SwapItem(s, i, j), ParentOf(i)) = Held(s, ParentOf(j))
         /\ Stays(s, SwapItem(s, i, j),
                  {TableOf(i), KeyOf(i), ParentOf(i), TableOf(j), KeyOf(j), ParentOf(j)})
<1> DEFINE a == Swap(s, TableOf(i), TableOf(j))
           b == Swap(a, KeyOf(i), KeyOf(j))
           c == Swap(b, ParentOf(i), ParentOf(j))
<1>0. /\ {TableOf(i), KeyOf(i), ParentOf(i), TableOf(j), KeyOf(j), ParentOf(j)} \subseteq Member
      /\ TableOf(i) # TableOf(j) /\ KeyOf(i) # KeyOf(j) /\ ParentOf(i) # ParentOf(j)
  BY Members
<1>1. /\ Owned(a) /\ Stays(s, a, {TableOf(i), TableOf(j)})
      /\ Held(a, TableOf(i)) = Held(s, TableOf(j))
  BY <1>0, SwapOwned, SwapHeld
<1>2. /\ Owned(b) /\ Stays(a, b, {KeyOf(i), KeyOf(j)}) /\ Held(b, KeyOf(i)) = Held(a, KeyOf(j))
  BY <1>0, <1>1, SwapOwned, SwapHeld
<1>3. /\ Stays(b, c, {ParentOf(i), ParentOf(j)})
      /\ Held(c, ParentOf(i)) = Held(b, ParentOf(j))
  BY <1>0, <1>2, SwapHeld
<1>4. c = SwapItem(s, i, j)
  BY DEF SwapItem
<1> HIDE DEF a, b, c
<1> QED BY <1>0, <1>1, <1>2, <1>3, <1>4, Members DEF Stays
-----------------------------------------------------------------------------
(* What the objects stand for, from what their members hold.               *)
Values == [r \in Ref |-> Pushed(Now, RefOf(r))]
Places == [i \in Item |-> PlaceOf(i)]
Proxy(s, i) ==
  [table |-> Held(s, TableOf(i)), key |-> Held(s, KeyOf(i)), parent |-> Held(s, ParentOf(i))]
PlaceAt(x) ==
  [root |-> Datum(x.table),
   path |-> IF x.parent # Absent THEN <<Datum(x.parent), Datum(x.key)>>
            ELSE IF x.key = Absent THEN <<>> ELSE <<Datum(x.key)>>]

(* Keys are keys, a chained proxy has one, and one without stands for nil. *)
Named(x) == x = Absent \/ \E k \in Key : x = <<k>>
Fits(x) == /\ Named(x.key) /\ Named(x.parent)
           /\ x.parent # Absent => x.key # Absent
           /\ x.key = Absent => Datum(x.table) = Nil
ItemsFit == \A i \in Item : Fits(Proxy(Now, i))
VInv == IInv /\ ItemsFit

LEMMA PlaceNow ==
  ASSUME NEW i, Fits(Proxy(Now, i))
  PROVE  PlaceOf(i) = PlaceAt(Proxy(Now, i))
<1> DEFINE x == Proxy(Now, i)
<1>1. x.table = Held(Now, TableOf(i)) /\ x.key = Held(Now, KeyOf(i)) /\ x.parent = Held(Now, ParentOf(i))
  BY DEF Proxy
<1>2. \A m : Pushed(Now, m) = Datum(Held(Now, m)) /\ (index[m] = NoRef <=> Held(Now, m) = Absent)
  <2>1. TAKE m
  <2>2. Now.at[m] = index[m]
    BY DEF Now
  <2> QED BY <2>2, HeldPushed
<1> HIDE DEF x
<1>3. CASE Blank(i)
  <2>1. x.table = Absent /\ x.key = Absent /\ x.parent = Absent
    BY <1>1, <1>2, <1>3 DEF Blank
  <2> QED BY <1>3, <2>1, Absence DEF PlaceOf, PlaceAt, x
<1>4. CASE ~Blank(i)
  <2>1. Root(i) = Datum(x.table) /\ (Chained(i) <=> x.parent # Absent)
    BY <1>1, <1>2 DEF Root, Chained
  <2>2. CASE Chained(i)
    <3>1. index[KeyOf(i)] # NoRef
      BY <1>1, <1>2, <2>1, <2>2 DEF Fits, x
    <3> QED BY <1>1, <1>2, <1>4, <2>1, <2>2, <3>1 DEF PlaceOf, PlaceAt, x
  <2>3. CASE ~Chained(i)
    BY <1>1, <1>2, <1>4, <2>1, <2>3 DEF PlaceOf, PlaceAt, x
  <2> QED BY <2>2, <2>3
<1> QED BY <1>3, <1>4

LEMMA PlaceNext ==
  ASSUME NEW i, Fits(Proxy(Now', i))
  PROVE  PlaceOf(i)' = PlaceAt(Proxy(Now', i))
<1> DEFINE x == Proxy(Now', i)
<1>1. /\ x.table = Held(Now', TableOf(i)) /\ x.key = Held(Now', KeyOf(i))
      /\ x.parent = Held(Now', ParentOf(i))
  BY DEF Proxy
<1>2. \A m : Pushed(Now', m) = Datum(Held(Now', m)) /\ (index'[m] = NoRef <=> Held(Now', m) = Absent)
  <2>1. TAKE m
  <2>2. Now'.at[m] = index'[m]
    BY DEF Now
  <2> QED BY <2>2, HeldPushed
<1> HIDE DEF x
<1>3. CASE Blank(i)'
  <2>1. x.table = Absent /\ x.key = Absent /\ x.parent = Absent
    BY <1>1, <1>2, <1>3 DEF Blank
  <2> QED BY <1>3, <2>1, Absence DEF PlaceOf, PlaceAt, x
<1>4. CASE ~Blank(i)'
  <2>1. Root(i)' = Datum(x.table) /\ (Chained(i)' <=> x.parent # Absent)
    BY <1>1, <1>2 DEF Root, Chained
  <2>2. CASE Chained(i)'
    <3>1. index'[KeyOf(i)] # NoRef
      BY <1>1, <1>2, <2>1, <2>2 DEF Fits, x
    <3> QED BY <1>1, <1>2, <1>4, <2>1, <2>2, <3>1 DEF PlaceOf, PlaceAt, x
  <2>3. CASE ~Chained(i)'
    BY <1>1, <1>2, <1>4, <2>1, <2>3 DEF PlaceOf, PlaceAt, x
  <2> QED BY <2>2, <2>3
<1> QED BY <1>3, <1>4

LEMMA ValueType ==
  ASSUME NEW s, Owned(s), NEW m \in Member
  PROVE  Datum(Held(s, m)) \in Value \union {Nil}
BY HeldPushed, PushedType

LEMMA Becomes ==
  ASSUME NEW s, Owned(s), Become(s)
  PROVE  Now' = s
BY DEF Become, Owned, Now, State

(* What a step leaves alone.                                               *)
LEMMA OthersKept ==
  ASSUME VInv, NEW s, Now' = s, NEW M, Stays(Now, s, M)
  PROVE  /\ \A q \in Ref : RefOf(q) \notin M => Values'[q] = Values[q]
         /\ \A j \in Item : {TableOf(j), KeyOf(j), ParentOf(j)} \intersect M = {} =>
              /\ Places'[j] = Places[j] /\ Proxy(s, j) = Proxy(Now, j) /\ Fits(Proxy(s, j))
<1>1. ASSUME NEW q \in Ref, RefOf(q) \notin M PROVE Values'[q] = Values[q]
  <2>1. RefOf(q) \in Member \ M
    BY <1>1, Members
  <2>2. Held(s, RefOf(q)) = Held(Now, RefOf(q))
    BY <2>1 DEF Stays
  <2>3. Values'[q] = Pushed(s, RefOf(q)) /\ Values[q] = Pushed(Now, RefOf(q))
    BY DEF Values
  <2> QED BY <2>2, <2>3, HeldPushed
<1>2. ASSUME NEW j \in Item, {TableOf(j), KeyOf(j), ParentOf(j)} \intersect M = {}
      PROVE  Places'[j] = Places[j] /\ Proxy(s, j) = Proxy(Now, j) /\ Fits(Proxy(s, j))
  <2>1. {TableOf(j), KeyOf(j), ParentOf(j)} \subseteq Member \ M
    BY <1>2, Members DEF Objects
  <2>2. Proxy(s, j) = Proxy(Now, j)
    BY <2>1 DEF Stays, Proxy
  <2>3. Fits(Proxy(Now, j)) /\ Fits(Proxy(Now', j))
    BY <2>2 DEF VInv, ItemsFit
  <2>4. Places'[j] = PlaceAt(Proxy(s, j)) /\ Places[j] = PlaceAt(Proxy(Now, j))
    BY <2>3, PlaceNow, PlaceNext DEF Places
  <2> QED BY <2>2, <2>3, <2>4
<1> QED BY <1>1, <1>2

LEMMA PlacesNext ==
  ASSUME VInv, NEW i \in Item, NEW s, Now' = s, Fits(Proxy(s, i))
  PROVE  Places'[i] = PlaceAt(Proxy(s, i)) /\ Places[i] = PlaceAt(Proxy(Now, i))
BY PlaceNow, PlaceNext DEF Places, VInv, ItemsFit

LEMMA ValuesNext ==
  ASSUME NEW r \in Ref, NEW s, Now' = s
  PROVE  Values'[r] = Datum(Held(s, RefOf(r))) /\ Values[r] = Datum(Held(Now, RefOf(r)))
<1>1. Values'[r] = Pushed(s, RefOf(r)) /\ Values[r] = Pushed(Now, RefOf(r))
  BY DEF Values
<1> QED BY <1>1, HeldPushed

LEMMA FunctionsAre ==
  /\ Values = [r \in Ref |-> Values[r]] /\ Values' = [r \in Ref |-> Values'[r]]
  /\ Places = [i \in Item |-> Places[i]] /\ Places' = [i \in Item |-> Places'[i]]
BY DEF Values, Places
LEMMA FitsNext ==
  ASSUME NEW s, Now' = s, \A j \in Item : Fits(Proxy(s, j))
  PROVE  ItemsFit'
BY DEF ItemsFit, Fits, Named, Proxy
-----------------------------------------------------------------------------
(* A step keeps the proxies fit, and is one of ReferenceValues.            *)
VStep == ItemsFit' /\ Abstract!RNext
Parts(i) == {TableOf(i), KeyOf(i), ParentOf(i)}

LEMMA Apart ==
  /\ \A q, r \in Ref \union {Tmp} : q # r => RefOf(q) # RefOf(r)
  /\ \A r, i : RefOf(r) \notin Parts(i)
  /\ \A i, j : i # j => Parts(i) \intersect Parts(j) = {}
  /\ Tmp \notin Ref \union Item
BY Members, ReferenceAssumption DEF Parts

(* One reference gets another value.                                       *)
LEMMA RefAssigned ==
  ASSUME VInv, NEW r \in Ref, NEW s, Owned(s), Become(s), UNCHANGED heap,
         Stays(Now, s, {RefOf(r), RefOf(Tmp)})
  PROVE  VStep
<1>1. Now' = s
  BY Becomes
<1>2. /\ \A q \in Ref \ {r} : RefOf(q) \notin {RefOf(r), RefOf(Tmp)}
      /\ \A j \in Item : Parts(j) \intersect {RefOf(r), RefOf(Tmp)} = {}
  <2>1. \A q \in Ref \ {r} : RefOf(q) # RefOf(r) /\ RefOf(q) # RefOf(Tmp)
    BY Apart
  <2> QED BY <2>1, Apart
<1>3. /\ \A q \in Ref \ {r} : Values'[q] = Values[q]
      /\ \A j \in Item : Places'[j] = Places[j] /\ Fits(Proxy(s, j))
  BY <1>1, <1>2, OthersKept DEF Parts
<1>4. Places' = Places
  BY <1>3, FunctionsAre
<1>5. Values'[r] \in Value \union {Nil}
  BY <1>1, ValuesNext, ValueType, Members
<1>6. Abstract!Assigned(r)
  BY <1>3, <1>4, <1>5 DEF Abstract!Assigned, Abstract!Value, Value, Values, Places
<1>7. ItemsFit'
  BY <1>1, <1>3, FitsNext
<1> QED BY <1>6, <1>7 DEF VStep, Abstract!RNext

(* One proxy gets another place, an element or none.                       *)
LEMMA ItemPlaced ==
  ASSUME VInv, NEW i \in Item, NEW s, Owned(s), Become(s), UNCHANGED heap,
         NEW M, Stays(Now, s, M), \A q \in Ref : RefOf(q) \notin M,
         \A j \in Item \ {i} : Parts(j) \intersect M = {},
         Fits(Proxy(s, i)), Proxy(s, i).parent = Absent
  PROVE  VStep
<1>1. Now' = s
  BY Becomes
<1>2. /\ \A q \in Ref : Values'[q] = Values[q]
      /\ \A j \in Item \ {i} : Places'[j] = Places[j] /\ Fits(Proxy(s, j))
  BY <1>1, OthersKept DEF Parts
<1>3. Values' = Values
  BY <1>2, FunctionsAre
<1>4. Places'[i] = PlaceAt(Proxy(s, i))
  BY <1>1, PlacesNext
<1>5. Datum(Proxy(s, i).table) \in Value \union {Nil}
  <2>1. TableOf(i) \in Member
    BY Members DEF Objects
  <2> QED BY <2>1, ValueType DEF Proxy
<1>6. Places'[i].root \in Value \union {Nil}
  BY <1>4, <1>5 DEF PlaceAt
<1>7. Places'[i].path \in {<<>>} \union {<<k>> : k \in Key}
  <2>1. Places'[i].path = IF Proxy(s, i).key = Absent THEN <<>> ELSE <<Datum(Proxy(s, i).key)>>
    BY <1>4 DEF PlaceAt
  <2>2. CASE Proxy(s, i).key = Absent
    BY <2>1, <2>2
  <2>3. CASE Proxy(s, i).key # Absent
    <3>1. PICK k \in Key : Proxy(s, i).key = <<k>>
      BY <2>3 DEF Fits, Named
    <3>2. Places'[i].path = <<k>>
      BY <2>1, <2>3, <3>1, Absence
    <3> QED BY <3>2
  <2> QED BY <2>2, <2>3
<1>8. Abstract!Placed(i)
  BY <1>2, <1>3, <1>6, <1>7
     DEF Abstract!Placed, Abstract!OthersStay, Abstract!Value, Value, Values, Places
<1>9. ItemsFit'
  BY <1>1, <1>2, FitsNext
<1> QED BY <1>8, <1>9 DEF VStep, Abstract!RNext

(* An element changes.                                                     *)
LEMMA HeapWritten ==
  ASSUME VInv, NEW t \in Table, NEW k \in Key, NEW v, heap' = [heap EXCEPT ![t][k] = v],
         UNCHANGED <<registry, index>>
  PROVE  VStep
<1>1. Now' = Now
  BY DEF Now
<1>2. Stays(Now, Now, {})
  BY DEF Stays
<1>3. /\ \A q \in Ref : Values'[q] = Values[q]
      /\ \A j \in Item : Places'[j] = Places[j] /\ Fits(Proxy(Now, j))
  BY <1>1, <1>2, OthersKept
<1>4. Values' = Values /\ Places' = Places
  BY <1>3, FunctionsAre
<1>5. heap' = [heap EXCEPT ![t][k] = heap'[t][k]]
  BY DEF VInv, IInv
<1>6. Abstract!Written
  BY <1>4, <1>5 DEF Abstract!Written, Values, Places
<1>7. ItemsFit'
  BY <1>1, <1>3, FitsNext
<1> QED BY <1>6, <1>7 DEF VStep, Abstract!RNext
-----------------------------------------------------------------------------
(* LuaRef.                                                                 *)
LEMMA ReplacedValue ==
  ASSUME VInv, NEW r \in Ref, NEW v \in Value \union {Nil}, Room,
         Become(Replaced(r, v)), UNCHANGED heap
  PROVE  VStep
<1> DEFINE a == Acquire(Now, RefOf(Tmp), v)
           b == Swap(a, RefOf(r), RefOf(Tmp))
           c == Release(b, RefOf(Tmp))
<1>0. RefOf(r) \in Member /\ RefOf(Tmp) \in Member /\ RefOf(r) # RefOf(Tmp)
  BY Members, ReferenceAssumption
<1>1. Now.at[RefOf(Tmp)] \notin Slot /\ IInv
  BY ReferenceAssumption DEF VInv, IInv, TmpIdle, Now
<1>2. Owned(a) /\ Stays(Now, a, {RefOf(Tmp)})
  BY <1>0, <1>1, AcquireOwned, AcquireHeld, RoomIsTwo DEF IInv
<1>3. Owned(b) /\ Stays(a, b, {RefOf(r), RefOf(Tmp)})
  BY <1>0, <1>2, SwapOwned, SwapHeld
<1>4. Owned(c) /\ Stays(b, c, {RefOf(Tmp)})
  BY <1>0, <1>3, ReleaseOwned, ReleaseHeld
<1>5. c = Replaced(r, v)
  BY DEF Replaced
<1> HIDE DEF a, b, c
<1>6. Stays(Now, c, {RefOf(r), RefOf(Tmp)})
  BY <1>2, <1>3, <1>4 DEF Stays
<1> QED BY <1>4, <1>5, <1>6, RefAssigned

LEMMA PopValue == ASSUME VInv, NEW r \in Ref, NEW v \in Contents, Pop(r, v) PROVE VStep
<1> DEFINE a == Release(Now, RefOf(r))
           b == Acquire(a, RefOf(r), v)
<1>0. RefOf(r) \in Member /\ IInv
  BY Members DEF VInv
<1>1. /\ Owned(a) /\ a.at[RefOf(r)] = NoRef /\ HasFree(a) /\ Stays(Now, a, {RefOf(r)})
  BY <1>0, ReleaseOwned, ReleaseHeld, RoomIsTwo DEF IInv, Pop
<1>2. Owned(b) /\ Stays(a, b, {RefOf(r)})
  BY <1>0, <1>1, AcquireOwned, AcquireHeld, ReferenceAssumption DEF Contents, Value
<1>3. Become(b) /\ UNCHANGED heap
  BY DEF Pop
<1> HIDE DEF a, b
<1>4. Stays(Now, b, {RefOf(r), RefOf(Tmp)})
  BY <1>1, <1>2 DEF Stays
<1> QED BY <1>2, <1>3, <1>4, RefAssigned

LEMMA DestroyValue == ASSUME VInv, NEW r \in Ref, DestroyRef(r) PROVE VStep
<1> DEFINE a == Release(Now, RefOf(r))
<1>0. RefOf(r) \in Member /\ IInv
  BY Members DEF VInv
<1>1. Owned(a) /\ Stays(Now, a, {RefOf(r)})
  BY <1>0, ReleaseOwned, ReleaseHeld DEF IInv
<1>2. Become(a) /\ UNCHANGED heap
  BY DEF DestroyRef
<1> HIDE DEF a
<1>3. Stays(Now, a, {RefOf(r), RefOf(Tmp)})
  BY <1>1 DEF Stays
<1> QED BY <1>1, <1>2, <1>3, RefAssigned

LEMMA MoveValue ==
  ASSUME VInv, NEW r \in Ref, NEW q \in Ref, MoveAssign(r, q)
  PROVE  VStep
<1> DEFINE a == Release(Now, RefOf(r))
           b == Take(a, RefOf(r), RefOf(q))
<1>0. RefOf(r) \in Member /\ RefOf(q) \in Member /\ RefOf(q) # RefOf(r) /\ r # q /\ IInv
  BY Members DEF VInv, MoveAssign
<1>1. Owned(a) /\ a.at[RefOf(r)] = NoRef /\ Stays(Now, a, {RefOf(r)})
  BY <1>0, ReleaseOwned, ReleaseHeld DEF IInv
<1>2. /\ Owned(b) /\ Stays(a, b, {RefOf(r), RefOf(q)})
      /\ Held(b, RefOf(r)) = Held(a, RefOf(q)) /\ Held(b, RefOf(q)) = Absent
  BY <1>0, <1>1, TakeOwned, TakeHeld, ReferenceAssumption
<1>3. Become(b) /\ UNCHANGED heap
  BY DEF MoveAssign
<1> HIDE DEF a, b
<1>4. Stays(Now, b, {RefOf(r), RefOf(q)}) /\ Held(b, RefOf(r)) = Held(Now, RefOf(q))
  BY <1>0, <1>1, <1>2 DEF Stays
<1>5. Now' = b
  BY <1>2, <1>3, Becomes
<1>6. /\ \A p \in Ref \ {r, q} : RefOf(p) \notin {RefOf(r), RefOf(q)}
      /\ \A j \in Item : Parts(j) \intersect {RefOf(r), RefOf(q)} = {}
  BY Apart
<1>7. /\ \A p \in Ref \ {r, q} : Values'[p] = Values[p]
      /\ \A j \in Item : Places'[j] = Places[j] /\ Fits(Proxy(b, j))
  BY <1>4, <1>5, <1>6, OthersKept DEF Parts
<1>8. Values'[r] = Values[q] /\ Values'[q] = Nil
  BY <1>2, <1>4, <1>5, ValuesNext, Absence
<1>9. Values' = [Values EXCEPT ![r] = Values[q], ![q] = Nil]
  BY <1>0, <1>7, <1>8, FunctionsAre
<1>10. Places' = Places
  BY <1>7, FunctionsAre
<1>11. Abstract!Moved(r, q)
  BY <1>3, <1>9, <1>10 DEF Abstract!Moved, Values, Places
<1>12. ItemsFit'
  BY <1>5, <1>7, FitsNext
<1> QED BY <1>11, <1>12 DEF VStep, Abstract!RNext

LEMMA RefValues == ASSUME VInv, NEW r \in Ref, NextRef(r) PROVE VStep
<1>0. IInv /\ \A v \in Contents : v \in Value \union {Nil}
  BY DEF VInv, Contents, Value
<1>1. ASSUME NEW v \in Contents, AssignValue(r, v) PROVE VStep
  BY <1>0, <1>1, ReplacedValue DEF AssignValue
<1>2. ASSUME NEW q \in Ref, CopyAssign(r, q) PROVE VStep
  <2>1. Pushed(Now, RefOf(q)) \in Value \union {Nil}
    BY <1>0, PushedType, Members DEF IInv
  <2> QED BY <1>2, <2>1, ReplacedValue DEF CopyAssign
<1>3. ASSUME NEW i \in Item, AssignItem(r, i) PROVE VStep
  <2>1. Element(i) \in Value \union {Nil}
    BY <1>0, HolderType DEF Objects
  <2> QED BY <1>3, <2>1, ReplacedValue DEF AssignItem
<1> QED BY <1>1, <1>2, <1>3, PopValue, MoveValue, DestroyValue DEF NextRef
-----------------------------------------------------------------------------
(* TableItem.                                                              *)
LEMMA ItemFacts ==
  ASSUME VInv, NEW i \in Item
  PROVE  /\ IInv /\ Owned(Now) /\ Parts(i) \subseteq Member /\ i \in Objects /\ Fits(Proxy(Now, i))
         /\ TableOf(i) # KeyOf(i) /\ TableOf(i) # ParentOf(i) /\ KeyOf(i) # ParentOf(i)
         /\ TableOf(i) \in Parts(i) /\ KeyOf(i) \in Parts(i) /\ ParentOf(i) \in Parts(i)
         /\ Blank(i) => \A m \in Parts(i) : Now.at[m] \notin Slot /\ Held(Now, m) = Absent
<1>1. Blank(i) => \A m \in Parts(i) : Now.at[m] = NoRef
  BY DEF Blank, Now, Parts
<1>2. Blank(i) => \A m \in Parts(i) : Held(Now, m) = Absent
  BY <1>1 DEF Held
<1> QED BY <1>1, <1>2, Members, ReferenceAssumption DEF VInv, ItemsFit, IInv, Parts, Objects

(* A proxy for the element k of the value v.                               *)
LEMMA IndexPlaced ==
  ASSUME VInv, NEW i \in Item, NEW k \in Key, NEW v \in Value \union {Nil}, Blank(i), Room,
         Become(Acquire(SetKey(Now, i, k), TableOf(i), v)), UNCHANGED heap
  PROVE  VStep
<1> DEFINE a == SetKey(Now, i, k)
           b == Acquire(a, TableOf(i), v)
<1>0. k \in Value \union {Nil} /\ Now.at[KeyOf(i)] \notin Slot /\ Now.at[TableOf(i)] \notin Slot
  BY ItemFacts DEF Value
<1>1. /\ Owned(a) /\ Same(Now, a, {KeyOf(i)}) /\ HasFree(a)
      /\ Held(a, KeyOf(i)) = <<k>> /\ Stays(Now, a, {KeyOf(i)})
  BY <1>0, ItemFacts, SetKeyOwned, SetKeyHeld, RoomIsTwo
<1>2. a.at[TableOf(i)] \notin Slot /\ TableOf(i) \in Member
  BY <1>0, <1>1, ItemFacts DEF Same, Now
<1>3. /\ Owned(b) /\ Stays(a, b, {TableOf(i)}) /\ Held(b, TableOf(i)) = <<v>>
  BY <1>1, <1>2, AcquireOwned, AcquireHeld
<1> HIDE DEF a, b
<1>4. Stays(Now, b, Parts(i))
  BY <1>1, <1>3, ItemFacts DEF Stays
<1>5. Held(b, KeyOf(i)) = <<k>> /\ Held(b, ParentOf(i)) = Absent
  BY <1>1, <1>3, ItemFacts DEF Stays
<1>6. Fits(Proxy(b, i)) /\ Proxy(b, i).parent = Absent
  BY <1>5, Absence DEF Fits, Proxy, Named
<1>7. /\ \A q \in Ref : RefOf(q) \notin Parts(i)
      /\ \A j \in Item \ {i} : Parts(j) \intersect Parts(i) = {}
  BY Apart
<1> QED BY <1>3, <1>4, <1>6, <1>7, ItemPlaced DEF a, b

LEMMA DestroyPlaced == ASSUME VInv, NEW i \in Item, DestroyItem(i) PROVE VStep
<1> DEFINE a == ReleaseItem(Now, i)
<1>1. /\ Owned(a) /\ Stays(Now, a, Parts(i)) /\ \A m \in Parts(i) : Held(a, m) = Absent
  BY ItemFacts, ReleaseItemOwned, ReleaseItemHeld DEF Parts
<1>2. Become(a) /\ UNCHANGED heap
  BY DEF DestroyItem
<1> HIDE DEF a
<1>3. Fits(Proxy(a, i)) /\ Proxy(a, i).parent = Absent
  BY <1>1, Absence DEF Fits, Proxy, Named, Parts
<1>4. /\ \A q \in Ref : RefOf(q) \notin Parts(i)
      /\ \A j \in Item \ {i} : Parts(j) \intersect Parts(i) = {}
  BY Apart
<1> QED BY <1>1, <1>2, <1>3, <1>4, ItemPlaced

(* A copy: the holder of j, and its key.                                   *)
LEMMA CopiedHeld ==
  ASSUME VInv, NEW i \in Objects, NEW j \in Item, Room,
         index[TableOf(i)] \notin Slot, index[KeyOf(i)] = NoRef
  PROVE  /\ Owned(Copied(Now, i, j)) /\ Stays(Now, Copied(Now, i, j), {TableOf(i), KeyOf(i)})
         /\ Held(Copied(Now, i, j), TableOf(i)) = <<Holder(j)>>
         /\ Held(Copied(Now, i, j), KeyOf(i)) = Held(Now, KeyOf(j))
<1> DEFINE t == Acquire(Now, TableOf(i), Holder(j))
           k == Pushed(Now, KeyOf(j))
<1>0. /\ IInv /\ j \in Objects /\ TableOf(i) \in Member /\ KeyOf(i) \in Member
      /\ TableOf(i) # KeyOf(i) /\ Owned(Now) /\ NoRef \notin Slot
      /\ Now.at[TableOf(i)] \notin Slot /\ Now.at[KeyOf(i)] = NoRef /\ HasTwo(Now) /\ HasFree(Now)
  BY Members, ItemFacts, RoomIsTwo, ReferenceAssumption DEF Objects, Now
<1>1. /\ Owned(t) /\ Same(Now, t, {TableOf(i)}) /\ HasFree(t)
      /\ Held(t, TableOf(i)) = <<Holder(j)>> /\ Stays(Now, t, {TableOf(i)})
  BY <1>0, AcquireOwned, AcquireHeld, HolderType
<1>2. t.at[KeyOf(i)] = NoRef
  BY <1>0, <1>1 DEF Same
<1>3. k \in Value \union {Nil}
  BY <1>0, PushedType, Members
<1>4. /\ Owned(SetKey(t, i, k)) /\ Stays(t, SetKey(t, i, k), {KeyOf(i)})
      /\ Held(SetKey(t, i, k), KeyOf(i)) = <<k>>
  BY <1>0, <1>1, <1>2, <1>3, SetKeyOwned, SetKeyHeld
<1>5. Copied(Now, i, j) = IF index[KeyOf(j)] = NoRef THEN t ELSE SetKey(t, i, k)
  BY DEF Copied
<1>6. Held(Now, KeyOf(j)) = IF index[KeyOf(j)] = NoRef THEN Absent ELSE <<k>>
  BY DEF Held, Now
<1>7. Held(t, KeyOf(i)) = Absent
  BY <1>2 DEF Held
<1> HIDE DEF t, k
<1>8. CASE index[KeyOf(j)] = NoRef
  BY <1>0, <1>1, <1>5, <1>6, <1>7, <1>8 DEF Stays
<1>9. CASE index[KeyOf(j)] # NoRef
  BY <1>0, <1>1, <1>4, <1>5, <1>6, <1>9 DEF Stays
<1> QED BY <1>8, <1>9

(* What the copy is of fits in any object.                                 *)
LEMMA CopyFits ==
  ASSUME VInv, NEW j \in Item, NEW x, x.table = <<Holder(j)>>, x.key = Held(Now, KeyOf(j)),
         x.parent = Absent
  PROVE  Fits(x)
<1>1. Fits(Proxy(Now, j)) /\ Proxy(Now, j).key = x.key
  BY ItemFacts DEF Proxy
<1>2. ASSUME x.key = Absent PROVE Holder(j) = Nil
  <2>1. Held(Now, ParentOf(j)) = Absent /\ Datum(Held(Now, TableOf(j))) = Nil
    BY <1>1, <1>2 DEF Fits, Proxy
  <2>2. Now.at[ParentOf(j)] = NoRef /\ Pushed(Now, TableOf(j)) = Nil
    BY <2>1, HeldPushed
  <2> QED BY <2>2 DEF Holder, Chained, Root, Now
<1> QED BY <1>1, <1>2, Absence DEF Fits, Named

LEMMA CopyPlaced == ASSUME VInv, NEW i \in Item, NEW j \in Item, CopyItem(i, j) PROVE VStep
<1> DEFINE a == Copied(Now, i, j)
<1>1. Blank(i) /\ Room /\ Become(a) /\ UNCHANGED heap
  BY DEF CopyItem
<1>2. /\ index[TableOf(i)] \notin Slot /\ index[KeyOf(i)] = NoRef
      /\ Held(Now, ParentOf(i)) = Absent
  BY <1>1, ReferenceAssumption, ItemFacts DEF Blank
<1>3. /\ Owned(a) /\ Stays(Now, a, {TableOf(i), KeyOf(i)})
      /\ Held(a, TableOf(i)) = <<Holder(j)>> /\ Held(a, KeyOf(i)) = Held(Now, KeyOf(j))
  BY <1>1, <1>2, ItemFacts, CopiedHeld
<1> HIDE DEF a
<1>4. Held(a, ParentOf(i)) = Absent /\ Stays(Now, a, Parts(i))
  BY <1>2, <1>3, ItemFacts DEF Stays
<1>5. Fits(Proxy(a, i)) /\ Proxy(a, i).parent = Absent
  BY <1>3, <1>4, CopyFits DEF Proxy
<1>6. /\ \A q \in Ref : RefOf(q) \notin Parts(i)
      /\ \A p \in Item \ {i} : Parts(p) \intersect Parts(i) = {}
  BY Apart
<1> QED BY <1>1, <1>3, <1>4, <1>5, <1>6, ItemPlaced

LEMMA CopyAssignPlaced ==
  ASSUME VInv, NEW i \in Item, NEW j \in Item, CopyAssignItem(i, j)
  PROVE  VStep
<1> DEFINE a == Copied(Now, Tmp, j)
           b == SwapItem(a, i, Tmp)
           c == ReleaseItem(b, Tmp)
<1>1. Room /\ Become(c) /\ UNCHANGED heap
  BY DEF CopyAssignItem
<1>2. /\ Tmp \in Objects /\ i # Tmp /\ i \in Objects
      /\ index[TableOf(Tmp)] \notin Slot /\ index[KeyOf(Tmp)] = NoRef
      /\ Held(Now, ParentOf(Tmp)) = Absent /\ Parts(Tmp) \subseteq Member
      /\ ParentOf(Tmp) \notin {TableOf(Tmp), KeyOf(Tmp)} /\ ParentOf(Tmp) \in Parts(Tmp)
  BY ReferenceAssumption, ItemFacts, Members, Apart
     DEF Objects, VInv, IInv, TmpIdle, Held, Now, Parts
<1>3. /\ Owned(a) /\ Stays(Now, a, {TableOf(Tmp), KeyOf(Tmp)})
      /\ Held(a, TableOf(Tmp)) = <<Holder(j)>> /\ Held(a, KeyOf(Tmp)) = Held(Now, KeyOf(j))
  BY <1>1, <1>2, CopiedHeld
<1>4. Held(a, ParentOf(Tmp)) = Absent
  BY <1>2, <1>3 DEF Stays
<1>5. /\ Owned(b) /\ Stays(a, b, Parts(i) \union Parts(Tmp))
      /\ Held(b, TableOf(i)) = Held(a, TableOf(Tmp)) /\ Held(b, KeyOf(i)) = Held(a, KeyOf(Tmp))
      /\ Held(b, ParentOf(i)) = Held(a, ParentOf(Tmp))
  <2>1. Parts(i) \union Parts(Tmp) = {TableOf(i), KeyOf(i), ParentOf(i),
                                      TableOf(Tmp), KeyOf(Tmp), ParentOf(Tmp)}
    BY DEF Parts
  <2> QED BY <1>2, <1>3, <2>1, SwapItemOwned, SwapItemHeld
<1>6. Owned(c) /\ Stays(b, c, Parts(Tmp))
  BY <1>2, <1>5, ReleaseItemOwned, ReleaseItemHeld DEF Parts
<1> HIDE DEF a, b, c
<1>7. Parts(i) \intersect Parts(Tmp) = {} /\ Parts(i) \subseteq Member
  BY <1>2, Apart, ItemFacts
<1>8. /\ Held(c, TableOf(i)) = <<Holder(j)>> /\ Held(c, KeyOf(i)) = Held(Now, KeyOf(j))
      /\ Held(c, ParentOf(i)) = Absent
  BY <1>3, <1>4, <1>5, <1>6, <1>7, ItemFacts DEF Stays
<1>9. Stays(Now, c, Parts(i) \union Parts(Tmp))
  BY <1>3, <1>5, <1>6 DEF Stays, Parts
<1>10. Fits(Proxy(c, i)) /\ Proxy(c, i).parent = Absent
  BY <1>8, CopyFits DEF Proxy
<1>11. /\ \A q \in Ref : RefOf(q) \notin Parts(i) \union Parts(Tmp)
       /\ \A p \in Item \ {i} : Parts(p) \intersect (Parts(i) \union Parts(Tmp)) = {}
  <2>1. \A p \in Item \ {i} : p # i /\ p # Tmp
    BY Apart
  <2>2. \A p \in Item \ {i} : Parts(p) \intersect Parts(i) = {} /\ Parts(p) \intersect Parts(Tmp) = {}
    BY <2>1, Apart
  <2> QED BY <2>2, Apart
<1> QED BY <1>1, <1>6, <1>9, <1>10, <1>11, ItemPlaced

(* Two objects get places: i from another object, which may be j.          *)
LEMMA TwoPlaced ==
  ASSUME VInv, NEW i \in Item, NEW j \in Item, NEW s, Owned(s), Become(s), UNCHANGED heap,
         Stays(Now, s, Parts(i) \union Parts(j)), Fits(Proxy(s, i)), Fits(Proxy(s, j))
  PROVE  /\ ItemsFit' /\ Values' = Values
         /\ \A p \in Item \ {i, j} : Places'[p] = Places[p]
         /\ Places'[i] = PlaceAt(Proxy(s, i)) /\ Places'[j] = PlaceAt(Proxy(s, j))
<1>1. Now' = s
  BY Becomes
<1>2. /\ \A q \in Ref : RefOf(q) \notin Parts(i) \union Parts(j)
      /\ \A p \in Item \ {i, j} : Parts(p) \intersect (Parts(i) \union Parts(j)) = {}
  <2>1. \A p \in Item \ {i, j} : Parts(p) \intersect Parts(i) = {} /\ Parts(p) \intersect Parts(j) = {}
    BY Apart
  <2> QED BY <2>1, Apart
<1>3. /\ \A q \in Ref : Values'[q] = Values[q]
      /\ \A p \in Item \ {i, j} : Places'[p] = Places[p] /\ Fits(Proxy(s, p))
  BY <1>1, <1>2, OthersKept DEF Parts
<1>4. Values' = Values
  BY <1>3, FunctionsAre
<1>5. Places'[i] = PlaceAt(Proxy(s, i)) /\ Places'[j] = PlaceAt(Proxy(s, j))
  BY <1>1, PlacesNext
<1>6. ItemsFit'
  BY <1>1, <1>3, FitsNext
<1> QED BY <1>3, <1>4, <1>5, <1>6

LEMMA NothingFits ==
  ASSUME NEW x, x.table = Absent, x.key = Absent, x.parent = Absent
  PROVE  Fits(x) /\ PlaceAt(x) = Abstract!Nowhere
BY Absence DEF Fits, Named, PlaceAt, Abstract!Nowhere

LEMMA MovePlaced ==
  ASSUME VInv, NEW i \in Item, NEW j \in Item, MoveAssignItem(i, j)
  PROVE  VStep
<1> DEFINE a == ReleaseItem(Now, i)
           b == TakeItem(a, i, j)
<1>1. i # j /\ Become(b) /\ UNCHANGED heap
  BY DEF MoveAssignItem
<1>2. /\ Owned(a) /\ Stays(Now, a, Parts(i)) /\ \A m \in Parts(i) : a.at[m] = NoRef
  BY ItemFacts, ReleaseItemOwned, ReleaseItemHeld DEF Parts
<1>3. \A m \in Parts(i) : a.at[m] \notin Slot
  BY <1>2, ReferenceAssumption
<1>4. /\ Owned(b) /\ Stays(a, b, Parts(i) \union Parts(j))
      /\ Held(b, TableOf(i)) = Held(a, TableOf(j)) /\ Held(b, KeyOf(i)) = Held(a, KeyOf(j))
      /\ Held(b, ParentOf(i)) = Held(a, ParentOf(j)) /\ \A m \in Parts(j) : Held(b, m) = Absent
  <2>1. Parts(i) \union Parts(j) = {TableOf(i), KeyOf(i), ParentOf(i),
                                    TableOf(j), KeyOf(j), ParentOf(j)}
    BY DEF Parts
  <2>2. i \in Objects /\ j \in Objects
    BY ItemFacts
  <2>3. \A m \in {TableOf(i), KeyOf(i), ParentOf(i)} : a.at[m] \notin Slot
    BY <1>3 DEF Parts
  <2>4. Owned(b)
    BY <1>1, <1>2, <2>2, <2>3, TakeItemOwned
  <2>5. \A m \in Parts(j) : Held(b, m) = Absent
    BY <1>1, <1>2, <2>2, <2>3, TakeItemHeld DEF Parts
  <2> QED BY <1>1, <1>2, <2>1, <2>2, <2>3, <2>4, <2>5, TakeItemHeld
<1> HIDE DEF a, b
<1>5. Parts(j) \subseteq Member \ Parts(i)
  BY <1>1, Apart, ItemFacts
<1>6. /\ Held(b, TableOf(i)) = Held(Now, TableOf(j)) /\ Held(b, KeyOf(i)) = Held(Now, KeyOf(j))
      /\ Held(b, ParentOf(i)) = Held(Now, ParentOf(j))
  BY <1>2, <1>4, <1>5, ItemFacts DEF Stays
<1>7. Proxy(b, i) = Proxy(Now, j) /\ Fits(Proxy(b, i))
  BY <1>6, ItemFacts DEF Proxy
<1>8. Fits(Proxy(b, j)) /\ PlaceAt(Proxy(b, j)) = Abstract!Nowhere
  BY <1>4, ItemFacts, NothingFits DEF Proxy
<1>9. Stays(Now, b, Parts(i) \union Parts(j))
  BY <1>2, <1>4 DEF Stays
<1>10. /\ ItemsFit' /\ Values' = Values
       /\ \A p \in Item \ {i, j} : Places'[p] = Places[p]
       /\ Places'[i] = PlaceAt(Proxy(Now, j)) /\ Places'[j] = Abstract!Nowhere
  BY <1>1, <1>4, <1>7, <1>8, <1>9, TwoPlaced
<1>11. Places[j] = PlaceAt(Proxy(Now, j))
  BY ItemFacts, PlaceNow DEF Places
<1>12. Abstract!PlaceMoved(i, j)
  BY <1>1, <1>10, <1>11 DEF Abstract!PlaceMoved, Abstract!OthersStay, Values, Places
<1> QED BY <1>10, <1>12 DEF VStep, Abstract!RNext

LEMMA AdoptPlaced ==
  ASSUME VInv, NEW i \in Item, NEW r \in Ref, NEW k \in Key, AdoptRef(i, r, k)
  PROVE  VStep
<1> DEFINE a == SetKey(Now, i, k)
           b == Take(a, TableOf(i), RefOf(r))
<1>0. /\ Blank(i) /\ Room /\ Become(b) /\ UNCHANGED heap
      /\ RefOf(r) \in Member /\ RefOf(r) \notin Parts(i) /\ TableOf(i) # RefOf(r)
      /\ k \in Value \union {Nil}
      /\ Now.at[KeyOf(i)] \notin Slot /\ Now.at[TableOf(i)] \notin Slot
  BY Members, Apart, ItemFacts DEF AdoptRef, Value
<1>1. /\ Owned(a) /\ Same(Now, a, {KeyOf(i)})
      /\ Held(a, KeyOf(i)) = <<k>> /\ Stays(Now, a, {KeyOf(i)})
  BY <1>0, ItemFacts, SetKeyOwned, SetKeyHeld, RoomIsTwo
<1>2. a.at[TableOf(i)] \notin Slot /\ TableOf(i) \in Member
  BY <1>0, <1>1, ItemFacts DEF Same
<1>3. /\ Owned(b) /\ Stays(a, b, {TableOf(i), RefOf(r)})
      /\ Held(b, TableOf(i)) = Held(a, RefOf(r)) /\ Held(b, RefOf(r)) = Absent
  BY <1>0, <1>1, <1>2, TakeOwned, TakeHeld
<1> HIDE DEF a, b
<1>4. Stays(Now, b, Parts(i) \union {RefOf(r)})
  BY <1>1, <1>3, ItemFacts DEF Stays
<1>5. /\ Held(b, TableOf(i)) = Held(Now, RefOf(r)) /\ Held(b, KeyOf(i)) = <<k>>
      /\ Held(b, ParentOf(i)) = Absent
  BY <1>0, <1>1, <1>3, ItemFacts DEF Stays
<1>6. Fits(Proxy(b, i))
  BY <1>5, Absence DEF Fits, Proxy, Named
<1>7. Now' = b
  BY <1>0, <1>3, Becomes
<1>8. /\ \A q \in Ref \ {r} : RefOf(q) \notin Parts(i) \union {RefOf(r)}
      /\ \A j \in Item \ {i} : Parts(j) \intersect (Parts(i) \union {RefOf(r)}) = {}
  <2>1. \A j \in Item \ {i} : Parts(j) \intersect Parts(i) = {} /\ RefOf(r) \notin Parts(j)
    BY Apart
  <2>2. \A q \in Ref \ {r} : RefOf(q) # RefOf(r)
    BY Apart
  <2> QED BY <2>1, <2>2, Apart
<1>9. /\ \A q \in Ref \ {r} : Values'[q] = Values[q]
      /\ \A j \in Item \ {i} : Places'[j] = Places[j] /\ Fits(Proxy(b, j))
  BY <1>4, <1>7, <1>8, OthersKept DEF Parts
<1>10. Values'[r] = Nil
  BY <1>3, <1>7, ValuesNext, Absence
<1>11. Values' = [Values EXCEPT ![r] = Nil]
  BY <1>9, <1>10, FunctionsAre
<1>12. Places'[i] = [root |-> Values[r], path |-> <<k>>]
  <2>1. Values[r] = Datum(Held(Now, RefOf(r)))
    BY <1>7, ValuesNext
  <2>2. Places'[i] = PlaceAt(Proxy(b, i))
    BY <1>6, <1>7, PlacesNext
  <2> QED BY <1>5, <2>1, <2>2, Absence DEF PlaceAt, Proxy
<1>13. Abstract!Adopted(i, r)
  BY <1>0, <1>9, <1>11, <1>12 DEF Abstract!Adopted, Abstract!OthersStay, Values, Places
<1>14. ItemsFit'
  BY <1>6, <1>7, <1>9, FitsNext
<1> QED BY <1>13, <1>14 DEF VStep, Abstract!RNext

(* What a chained proxy and the one it came from hold afterwards.          *)
LEMMA ChainHeld ==
  ASSUME VInv, NEW i \in Item, NEW j \in Item, NEW k \in Key, Chain(i, j, k)
  PROVE  /\ Owned(Now') /\ Become(Now') /\ Stays(Now, Now', Parts(i) \union Parts(j))
         /\ Proxy(Now', i) = [table |-> Proxy(Now, j).table, key |-> <<k>>,
                              parent |-> Proxy(Now, j).key]
         /\ Proxy(Now', j) = [table |-> Absent, key |-> Absent, parent |-> Absent]
<1> DEFINE a == Take(Now, TableOf(i), TableOf(j))
           b == Take(a, ParentOf(i), KeyOf(j))
           c == SetKey(b, i, k)
<1>0. /\ i # j /\ Blank(i) /\ Room /\ Become(c) /\ UNCHANGED heap /\ index[ParentOf(j)] = NoRef
      /\ k \in Value \union {Nil} /\ \A m \in Parts(i) : Now.at[m] \notin Slot
  BY ItemFacts DEF Chain, CanChain, Chained, Value
<1>00. /\ TableOf(i) # TableOf(j) /\ ParentOf(i) # KeyOf(j) /\ KeyOf(i) # KeyOf(j)
       /\ ParentOf(i) # TableOf(i) /\ ParentOf(i) # TableOf(j) /\ KeyOf(i) # TableOf(j)
       /\ KeyOf(j) # TableOf(i) /\ KeyOf(j) # TableOf(j) /\ KeyOf(i) # TableOf(i)
       /\ KeyOf(i) # ParentOf(i) /\ ParentOf(j) # TableOf(i) /\ ParentOf(j) # TableOf(j)
       /\ ParentOf(j) # KeyOf(j) /\ ParentOf(j) # ParentOf(i) /\ ParentOf(j) # KeyOf(i)
       /\ Parts(i) \subseteq Member /\ Parts(j) \subseteq Member
  BY <1>0, Members, ItemFacts
<1>1. /\ Owned(a) /\ Same(Now, a, {TableOf(i), TableOf(j)})
      /\ Stays(Now, a, {TableOf(i), TableOf(j)}) /\ a.reg = Now.reg
      /\ Held(a, TableOf(i)) = Held(Now, TableOf(j)) /\ Held(a, TableOf(j)) = Absent
  <2>1. /\ TableOf(i) \in Member /\ TableOf(j) \in Member /\ TableOf(i) # TableOf(j)
        /\ Now.at[TableOf(i)] \notin Slot /\ Owned(Now)
    BY <1>0, <1>00, ItemFacts
  <2>2. Owned(a) /\ Same(Now, a, {TableOf(i), TableOf(j)}) /\ a.reg = Now.reg
    BY ONLY <2>1, TakeOwned
  <2>3. /\ Stays(Now, a, {TableOf(i), TableOf(j)})
        /\ Held(a, TableOf(i)) = Held(Now, TableOf(j)) /\ Held(a, TableOf(j)) = Absent
    BY ONLY <2>1, TakeHeld
  <2> QED BY <2>2, <2>3
<1>2. a.at[ParentOf(i)] \notin Slot /\ a.at[KeyOf(i)] \notin Slot
  BY <1>0, <1>00, <1>1, ItemFacts DEF Same
<1>3. /\ Owned(b) /\ Same(a, b, {ParentOf(i), KeyOf(j)})
      /\ Stays(a, b, {ParentOf(i), KeyOf(j)}) /\ b.reg = a.reg
      /\ Held(b, ParentOf(i)) = Held(a, KeyOf(j)) /\ Held(b, KeyOf(j)) = Absent
  <2>1. /\ ParentOf(i) \in Member /\ KeyOf(j) \in Member /\ ParentOf(i) # KeyOf(j)
        /\ a.at[ParentOf(i)] \notin Slot
    BY <1>00, <1>2, ItemFacts
  <2>2. Owned(b) /\ Same(a, b, {ParentOf(i), KeyOf(j)}) /\ b.reg = a.reg
    BY ONLY <1>1, <2>1, TakeOwned
  <2>3. /\ Held(b, ParentOf(i)) = Held(a, KeyOf(j)) /\ Held(b, KeyOf(j)) = Absent
        /\ Stays(a, b, {ParentOf(i), KeyOf(j)})
    BY ONLY <1>1, <2>1, TakeHeld
  <2> QED BY <2>2, <2>3
<1>4. b.at[KeyOf(i)] \notin Slot
  BY <1>00, <1>2, <1>3, ItemFacts DEF Same
<1>5. HasTwo(b)
  BY <1>0, <1>1, <1>3, RoomIsTwo DEF HasTwo
<1>6. HasFree(b)
  BY <1>5, ReferenceAssumption DEF HasTwo, HasFree
<1>7. /\ Owned(c) /\ Stays(b, c, {KeyOf(i)}) /\ Held(c, KeyOf(i)) = <<k>>
  BY <1>0, <1>3, <1>4, <1>5, <1>6, SetKeyOwned, SetKeyHeld, ItemFacts
<1> HIDE DEF a, b, c
<1>8. Now' = c
  BY <1>0, <1>7, Becomes
<1>9. Stays(Now, c, Parts(i) \union Parts(j))
  BY <1>1, <1>3, <1>7 DEF Stays, Parts
<1>10. /\ Held(c, TableOf(i)) = Held(Now, TableOf(j)) /\ Held(c, ParentOf(i)) = Held(Now, KeyOf(j))
       /\ Held(c, TableOf(j)) = Absent /\ Held(c, KeyOf(j)) = Absent
  <2>1. /\ Held(b, TableOf(i)) = Held(a, TableOf(i)) /\ Held(b, TableOf(j)) = Held(a, TableOf(j))
        /\ Held(a, KeyOf(j)) = Held(Now, KeyOf(j))
    BY <1>00, <1>1, <1>3, ItemFacts DEF Stays
  <2>2. /\ Held(c, TableOf(i)) = Held(b, TableOf(i)) /\ Held(c, TableOf(j)) = Held(b, TableOf(j))
        /\ Held(c, ParentOf(i)) = Held(b, ParentOf(i)) /\ Held(c, KeyOf(j)) = Held(b, KeyOf(j))
    BY <1>00, <1>7, ItemFacts DEF Stays
  <2> QED BY <1>1, <1>3, <2>1, <2>2
<1>11. Held(c, ParentOf(j)) = Absent
  <2>1. Held(Now, ParentOf(j)) = Absent
    BY <1>0 DEF Held, Now
  <2>2. /\ Held(a, ParentOf(j)) = Held(Now, ParentOf(j)) /\ Held(b, ParentOf(j)) = Held(a, ParentOf(j))
        /\ Held(c, ParentOf(j)) = Held(b, ParentOf(j))
    BY <1>00, <1>1, <1>3, <1>7, ItemFacts DEF Stays
  <2> QED BY <2>1, <2>2
<1> QED BY <1>0, <1>7, <1>8, <1>9, <1>10, <1>11 DEF Proxy

LEMMA ChainPlaced ==
  ASSUME VInv, NEW i \in Item, NEW j \in Item, NEW k \in Key, Chain(i, j, k)
  PROVE  VStep
<1> DEFINE x == Proxy(Now, j)
           y == Proxy(Now', i)
           z == Proxy(Now', j)
<1>1. /\ Owned(Now') /\ Become(Now') /\ Stays(Now, Now', Parts(i) \union Parts(j))
      /\ y = [table |-> x.table, key |-> <<k>>, parent |-> x.key]
      /\ z = [table |-> Absent, key |-> Absent, parent |-> Absent]
  BY ChainHeld
<1>2. i # j /\ UNCHANGED heap /\ index[ParentOf(j)] = NoRef
  BY DEF Chain, CanChain, Chained
<1>3. Fits(x) /\ Places[j] = PlaceAt(x)
  BY ItemFacts, PlaceNow DEF Places
<1>4. x.parent = Absent
  BY <1>2 DEF Proxy, Held, Now
<1> HIDE DEF x, y, z
<1>5. Fits(y)
  BY <1>1, <1>3, Absence DEF Fits, Named
<1>6. Fits(z) /\ PlaceAt(z) = Abstract!Nowhere
  BY <1>1, NothingFits
<1>7. PlaceAt(y) = [PlaceAt(x) EXCEPT !.path = Append(@, k)]
  <2>1. CASE x.key = Absent
    <3>1. PlaceAt(y) = [root |-> Datum(x.table), path |-> <<k>>]
      BY <1>1, <2>1, Absence DEF PlaceAt
    <3>2. PlaceAt(x) = [root |-> Datum(x.table), path |-> <<>>]
      BY <1>4, <2>1 DEF PlaceAt
    <3> QED BY <3>1, <3>2
  <2>2. CASE x.key # Absent
    <3>1. PlaceAt(y) = [root |-> Datum(x.table), path |-> <<Datum(x.key), k>>]
      BY <1>1, <2>2, Absence DEF PlaceAt
    <3>2. PlaceAt(x) = [root |-> Datum(x.table), path |-> <<Datum(x.key)>>]
      BY <1>4, <2>2 DEF PlaceAt
    <3> QED BY <3>1, <3>2
  <2> QED BY <2>1, <2>2
<1>8. /\ ItemsFit' /\ Values' = Values
      /\ \A p \in Item \ {i, j} : Places'[p] = Places[p]
      /\ Places'[i] = PlaceAt(y) /\ Places'[j] = PlaceAt(z)
  BY <1>1, <1>2, <1>5, <1>6, TwoPlaced DEF y, z
<1>9. Abstract!Continued(i, j)
  <2>1. Places'[i] = [Places[j] EXCEPT !.path = Append(@, k)] /\ Places'[j] = Abstract!Nowhere
    BY <1>3, <1>6, <1>7, <1>8
  <2> QED BY <1>2, <1>8, <2>1 DEF Abstract!Continued, Abstract!OthersStay, Values, Places
<1> QED BY <1>8, <1>9 DEF VStep, Abstract!RNext

LEMMA ItemPlaces == ASSUME VInv, NEW i \in Item, NextItem(i) PROVE VStep
<1>0. IInv /\ Owned(Now) /\ i \in Objects
  BY ItemFacts
<1>1. ASSUME NEW r \in Ref, NEW k \in Key, IndexRef(i, r, k) PROVE VStep
  <2>1. Pushed(Now, RefOf(r)) \in Value \union {Nil}
    BY <1>0, PushedType, Members
  <2> QED BY <1>1, <2>1, IndexPlaced DEF IndexRef
<1>2. ASSUME NEW j \in Item, NEW k \in Key, Child(i, j, k) PROVE VStep
  <2>1. Element(j) \in Value \union {Nil}
    BY <1>0, HolderType DEF Objects
  <2> QED BY <1>2, <2>1, IndexPlaced DEF Child
<1>3. ASSUME NEW v \in Contents, Write(i, v) PROVE VStep
  <2>1. Holder(i) \in Table /\ Pushed(Now, KeyOf(i)) \in Key
    BY <1>3 DEF Write, HasElement
  <2>2. heap' = [heap EXCEPT ![Holder(i)][Pushed(Now, KeyOf(i))] = v] /\ UNCHANGED <<registry, index>>
    BY <1>3 DEF Write, SetField
  <2> QED BY <2>1, <2>2, HeapWritten
<1> QED BY <1>1, <1>2, <1>3, AdoptPlaced, ChainPlaced, CopyPlaced, CopyAssignPlaced, MovePlaced,
           DestroyPlaced DEF NextItem
-----------------------------------------------------------------------------
(* The refinement.                                                         *)
LEMMA Starts == Init => VInv /\ Abstract!RInit
<1> SUFFICES ASSUME Init PROVE VInv /\ Abstract!RInit
  OBVIOUS
<1>1. IInv
  BY Initially
<1>2. \A m \in Member : Now.at[m] = NoRef
  BY DEF Init, Now
<1>3. \A m \in Member : Held(Now, m) = Absent /\ Pushed(Now, m) = Nil
  BY <1>2, Absence, HeldPushed DEF Held
<1>4. \A i \in Item : /\ Proxy(Now, i).table = Absent /\ Proxy(Now, i).key = Absent
                      /\ Proxy(Now, i).parent = Absent
  <2>1. \A i \in Item : Parts(i) \subseteq Member
    BY Members DEF Parts, Objects
  <2> QED BY <1>3, <2>1 DEF Proxy, Parts
<1>5. \A i \in Item : Fits(Proxy(Now, i)) /\ PlaceAt(Proxy(Now, i)) = Abstract!Nowhere
  BY <1>4, NothingFits
<1>6. Values = [r \in Ref |-> Nil]
  BY <1>3, Members DEF Values
<1>7. Places = [i \in Item |-> Abstract!Nowhere]
  BY <1>5, PlaceNow DEF Places
<1>8. heap \in [Table -> [Key -> Abstract!Value]]
  BY DEF Init, Abstract!Value
<1>9. Abstract!RInit
  BY <1>6, <1>7, <1>8 DEF Abstract!RInit, Values, Places
<1> QED BY <1>1, <1>5, <1>9 DEF VInv, ItemsFit

LEMMA Steps ==
  VInv /\ [Next]_vars => VInv' /\ [Abstract!RNext]_<<Values, Places, heap>>
<1> SUFFICES ASSUME VInv, [Next]_vars
             PROVE  VInv' /\ [Abstract!RNext]_<<Values, Places, heap>>
  OBVIOUS
<1>1. IInv'
  BY Inductive DEF VInv
<1>2. CASE Next
  <2>1. ASSUME NEW t \in Table, NEW k \in Key, NEW v \in Contents, Script(t, k, v) PROVE VStep
    BY <2>1, HeapWritten DEF Script, SetField
  <2>2. VStep
    BY <1>2, <2>1, RefValues, ItemPlaces DEF Next
  <2> QED BY <1>1, <2>2 DEF VStep, VInv
<1>3. CASE UNCHANGED vars
  <2>1. UNCHANGED <<registry, index, heap>>
    BY <1>3 DEF vars
  <2>2. Now' = Now /\ Stays(Now, Now, {})
    BY <2>1 DEF Now, Stays
  <2>3. /\ \A q \in Ref : Values'[q] = Values[q]
        /\ \A j \in Item : Places'[j] = Places[j] /\ Fits(Proxy(Now, j))
    BY <2>2, OthersKept
  <2>4. Values' = Values /\ Places' = Places
    BY <2>3, FunctionsAre
  <2>5. ItemsFit'
    BY <2>2, <2>3, FitsNext
  <2> QED BY <1>1, <2>1, <2>4, <2>5 DEF VInv
<1> QED BY <1>2, <1>3

(* Whatever the program does with its references and proxies, each stands  *)
(* for what it was given last, and no operation on one changes another.    *)
THEOREM RefinesValues == Spec => ImplementsValues
<1>1. Init => VInv /\ Abstract!RInit
  BY Starts
<1>2. VInv /\ [Next]_vars => VInv' /\ [Abstract!RNext]_<<Values, Places, heap>>
  BY Steps
<1> QED BY <1>1, <1>2, PTL DEF Spec, ImplementsValues, Abstract!RSpec, Values, Places
-----------------------------------------------------------------------------
(* A put-off lookup finds what an immediate one would.                     *)
ChainFinds ==
  \A i, j \in Item, k \in Key :
    Chain(i, j, k) => Holder(i)' = Element(j) /\ Element(i)' = Get(Element(j), k)

LEMMA Finds ==
  ASSUME VInv, NEW i \in Item, NEW j \in Item, NEW k \in Key, Chain(i, j, k)
  PROVE  Holder(i)' = Element(j) /\ Element(i)' = Get(Element(j), k)
<1> DEFINE t == Held(Now, TableOf(j))
           a == Held(Now, KeyOf(j))
<1>1. /\ Held(Now', TableOf(i)) = t /\ Held(Now', KeyOf(i)) = <<k>>
      /\ Held(Now', ParentOf(i)) = a
  BY ChainHeld DEF Proxy
<1>2. heap' = heap /\ ~Chained(j)
  BY DEF Chain, CanChain
<1>3. a = Absent => Datum(t) = Nil
  BY ItemFacts DEF Fits, Proxy
<1>4. Root(j) = Datum(t) /\ Pushed(Now, KeyOf(j)) = Datum(a)
  BY HeldPushed DEF Root
<1>5. Element(j) = Get(Datum(t), Datum(a))
  BY <1>2, <1>4 DEF Element, Holder
<1>6. /\ Root(i)' = Datum(t) /\ Pushed(Now', KeyOf(i)) = k
      /\ Pushed(Now', ParentOf(i)) = Datum(a)
  BY <1>1, HeldPushed, Absence DEF Root
<1>7. Chained(i)' <=> a # Absent
  <2>1. Chained(i)' <=> Now'.at[ParentOf(i)] # NoRef
    BY DEF Chained, Now
  <2> QED BY <1>1, <2>1, HeldPushed
<1> HIDE DEF t, a
<1>8. Holder(i)' = Element(j)
  <2>1. CASE a = Absent
    <3>1. Holder(i)' = Nil
      BY <1>3, <1>6, <1>7, <2>1 DEF Holder
    <3>2. Datum(a) \notin Key
      BY <2>1, Absence, ReferenceAssumption
    <3> QED BY <1>5, <3>1, <3>2 DEF Get
  <2>2. CASE a # Absent
    BY <1>2, <1>5, <1>6, <1>7, <2>2 DEF Holder, Get
  <2> QED BY <2>1, <2>2
<1>9. Element(i)' = Get(Element(j), k)
  BY <1>2, <1>6, <1>8 DEF Element, Get
<1> QED BY <1>8, <1>9

(* t[a][b] names the same element whether t[a] is looked up at once or     *)
(* when the element is used.                                               *)
THEOREM ChainedIsChild == Spec => ChainIsChild
<1>1. Init => VInv
  BY Starts
<1>2. VInv /\ [Next]_vars => VInv'
  BY Steps
<1>3. VInv /\ [Next]_vars => [ChainFinds]_vars
  BY Finds DEF ChainFinds
<1> QED BY <1>1, <1>2, <1>3, PTL DEF Spec, ChainIsChild, ChainFinds
=============================================================================
