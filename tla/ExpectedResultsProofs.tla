------------------------ MODULE ExpectedResultsProofs ------------------------
(***************************************************************************)
(* For any types, values and number of Expected variables: a variable has  *)
(* the object its flag names, an object is missing only if a constructor   *)
(* of that kind throws, and each fault has the cause SafeWithoutThrow      *)
(* names.  Each object is destroyed once, but for the default value that   *)
(* another was built over, and flag and storage implement Outcomes.        *)
(***************************************************************************)
EXTENDS ExpectedResults, TLAPS

(* A box between operations: no variable, or a flag and what it names.     *)
BoxOf == [valid : Kind \union {"none"}, object : Object \union {Gone}, live : Int,
          under : {0, 1}]
Excused(kind) ==
  ~type.trivial /\ \E how \in {"copy", "move"} : <<kind, how>> \in type.throws
Sound(b) ==
  /\ b \in BoxOf
  /\ b.valid = "none" => b = None
  /\ b.valid # "none" => \/ b.object # Gone /\ b.object[1] = b.valid
                         \/ b.object = Gone /\ Excused(b.valid)

IInv ==
  /\ type \in Type /\ SafeWithoutThrow
  /\ box \in [Handle -> BoxOf]
  /\ \A h \in Handle : Sound(box[h])

LEMMA Boxwise == IInv => BoxTypeOK /\ HoldsWhatItSays /\ SafeWithoutThrow
<1> SUFFICES ASSUME IInv PROVE BoxTypeOK /\ HoldsWhatItSays /\ SafeWithoutThrow
  OBVIOUS
<1>1. BoxTypeOK
  BY DEF IInv, BoxTypeOK, BoxOf, Sound, Exists
<1>2. HoldsWhatItSays
  BY DEF IInv, HoldsWhatItSays, Sound, Exists, Whole, Excused
<1> QED BY <1>1, <1>2 DEF IInv

(* What the three helpers make of a box.                                   *)
LEMMA SoundBoxes ==
  ASSUME NEW b, Sound(b), b.object # Gone
  PROVE  /\ b \in BoxOf /\ b.object \in Object /\ b.valid \in Kind
         /\ b.object = <<b.valid, Content(b)>> /\ Content(b) \in Datum
<1>1. b \in BoxOf /\ b.object \in Object
  BY Zenon DEF Sound, BoxOf, Kind
<1>2. b.valid # "none"
  BY DEF Sound, None
<1> QED BY <1>1, <1>2 DEF Sound, BoxOf, Object, Content, Kind

LEMMA Constructed ==
  ASSUME NEW b \in BoxOf, NEW kind \in Kind, NEW d \in Datum, NEW fails \in BOOLEAN,
         fails => Excused(kind)
  PROVE  /\ Sound(Construct(b, kind, d, fails))
         /\ Construct(b, kind, d, fails) \in BoxOf
<1>1. kind # "none"
  BY DEF Kind
<1>2. Construct(b, kind, d, fails) \in BoxOf
  BY DEF Construct, BoxOf, Object
<1>3. CASE fails
  BY <1>1, <1>2, <1>3 DEF Construct, Sound
<1>4. CASE ~fails
  <2>1. Construct(b, kind, d, fails).object = <<kind, d>>
    BY <1>4 DEF Construct
  <2>2. Construct(b, kind, d, fails).valid = kind
    BY DEF Construct
  <2>3. <<kind, d>> # Gone /\ <<kind, d>>[1] = kind
    BY DEF Gone
  <2> QED BY <1>1, <1>2, <2>1, <2>2, <2>3 DEF Sound
<1> QED BY <1>2, <1>3, <1>4

LEMMA Destroyed ==
  ASSUME NEW b \in BoxOf
  PROVE  Destroy(b) \in BoxOf
  BY DEF Destroy, BoxOf
LEMMA EmptyBox == Empty \in BoxOf /\ Base \in BoxOf
<1>1. "value" \in Kind /\ Gone \in Object \union {Gone}
  BY DEF Kind
<1> QED BY <1>1 DEF Empty, Base, BoxOf

LEMMA LeftBehind ==
  ASSUME NEW b, Sound(b), b.object # Gone
  PROVE  /\ Sound(MovedFrom(b)) /\ MovedFrom(b) \in BoxOf
         /\ MovedFrom(b).object # Gone
<1>1. /\ b \in BoxOf /\ b.object = <<b.valid, Content(b)>> /\ b.valid \in Kind
  BY SoundBoxes
<1>2. MovedFrom(b) = [valid |-> b.valid, object |-> <<b.valid, Moved>>, live |-> b.live,
                      under |-> b.under]
  BY <1>1 DEF MovedFrom, BoxOf
<1>3. Moved \in Datum
  BY DEF Datum
<1>4. <<b.valid, Moved>> # Gone /\ b.valid # "none"
  BY <1>1 DEF Gone, Kind
<1> QED BY <1>1, <1>2, <1>3, <1>4 DEF Sound, BoxOf, Object

(* A constructor that may fail is excused, unless the type is trivial.     *)
LEMMA FailsExcused ==
  ASSUME NEW kind, NEW how \in {"copy", "move"}, NEW fails \in Fails(kind, how)
  PROVE  /\ fails \in BOOLEAN
         /\ fails => <<kind, how>> \in type.throws /\ type.throws # {}
         /\ fails /\ ~type.trivial => Excused(kind)
  BY DEF Fails, Excused
-----------------------------------------------------------------------------
(* A step that changes no more than boxes, and leaves them sound.          *)
LEMMA BoxStep ==
  ASSUME IInv, NEW b, Boxes(b), b \in [Handle -> BoxOf], \A h \in Handle : Sound(b[h])
  PROVE  IInv'
<1>1. box' = b /\ type' = type /\ fault' = fault
  BY DEF Boxes
<1>2. \A h \in Handle : Sound(box[h])'
  BY <1>1 DEF Sound, Excused
<1>3. type' \in Type /\ SafeWithoutThrow'
  BY <1>1 DEF IInv, SafeWithoutThrow
<1> QED BY <1>1, <1>2, <1>3 DEF IInv

(* A step that ends the program, with the cause it takes.                  *)
LEMMA FaultStep ==
  ASSUME IInv, NEW f, Fault(f),
         f = "terminated" => \/ type.trivial /\ type.throws # {}
                             \/ \E kind \in Kind : <<kind, "move">> \in type.throws,
         f = "undefined" => ~type.trivial /\ type.throws # {},
         f = "self-assigned" => ~type.trivial
  PROVE  IInv'
<1>1. box' = box /\ type' = type /\ fault' = f
  BY DEF Fault
<1>2. \A h \in Handle : Sound(box[h])'
  BY <1>1 DEF IInv, Sound, Excused
<1>3. SafeWithoutThrow'
  BY <1>1 DEF SafeWithoutThrow
<1> QED BY <1>1, <1>2, <1>3 DEF IInv

LEMMA Terminates ==
  ASSUME IInv, Terminate,
         \/ type.trivial /\ type.throws # {}
         \/ \E kind \in Kind : <<kind, "move">> \in type.throws
  PROVE  IInv'
  BY FaultStep DEF Terminate
LEMMA Undefines ==
  ASSUME IInv, Undefined, ~type.trivial, type.throws # {}
  PROVE  IInv'
  BY FaultStep DEF Undefined
LEMMA AssignsItself == ASSUME IInv, SelfAssigned, ~type.trivial PROVE IInv'
  BY FaultStep DEF SelfAssigned
-----------------------------------------------------------------------------

(* A step that changes one box, or two.                                    *)
LEMMA OneBox ==
  ASSUME IInv, NEW h \in Handle, NEW b, b \in BoxOf, Sound(b),
         Boxes([box EXCEPT ![h] = b])
  PROVE  IInv'
<1>1. [box EXCEPT ![h] = b] \in [Handle -> BoxOf]
  BY DEF IInv
<1>2. \A k \in Handle : Sound([box EXCEPT ![h] = b][k])
  BY DEF IInv
<1> QED BY <1>1, <1>2, BoxStep

LEMMA TwoBoxes ==
  ASSUME IInv, NEW h \in Handle, NEW g \in Handle,
         NEW b, b \in BoxOf, Sound(b), NEW c, c \in BoxOf, Sound(c),
         Boxes([box EXCEPT ![h] = b, ![g] = c])
  PROVE  IInv'
<1>1. [box EXCEPT ![h] = b, ![g] = c] \in [Handle -> BoxOf]
  BY DEF IInv
<1>2. \A k \in Handle : Sound([box EXCEPT ![h] = b, ![g] = c][k])
  BY DEF IInv
<1> QED BY <1>1, <1>2, BoxStep

LEMMA NoBox == ASSUME IInv, Thrown PROVE IInv'
  BY BoxStep DEF Thrown, IInv

LEMMA WholeBox ==
  ASSUME IInv, NEW h \in Handle, Whole(h)
  PROVE  /\ box[h] \in BoxOf /\ Sound(box[h]) /\ box[h].object # Gone
         /\ box[h].valid \in Kind /\ Content(box[h]) \in Datum
         /\ Sound(MovedFrom(box[h])) /\ MovedFrom(box[h]) \in BoxOf
<1>1. box[h] \in BoxOf /\ Sound(box[h]) /\ box[h].object # Gone
  BY DEF IInv, Whole
<1> QED BY <1>1, SoundBoxes, LeftBehind

(* Construction in the storage of a box that was destroyed.                *)
LEMMA AssignedSound ==
  ASSUME NEW b \in BoxOf, NEW kind \in Kind, NEW d \in Datum, NEW fails \in BOOLEAN,
         fails => Excused(kind)
  PROVE  Assigned(b, kind, d, fails) \in BoxOf /\ Sound(Assigned(b, kind, d, fails))
  BY Destroyed, Constructed DEF Assigned
LEMMA NewSound ==
  ASSUME NEW kind \in Kind, NEW d \in Datum, NEW b \in {Empty, Base}
  PROVE  Construct(b, kind, d, FALSE) \in BoxOf /\ Sound(Construct(b, kind, d, FALSE))
  BY EmptyBox, Constructed
-----------------------------------------------------------------------------

(* One lemma per group of actions.                                         *)
LEMMA EscapesSafe == ASSUME IInv, Escapes, type.throws # {} PROVE IInv'
  BY Terminates, NoBox DEF Escapes

LEMMA NewSafe ==
  ASSUME IInv, NEW h \in Handle, NEW kind \in Kind, NEW d \in Datum, New(h, kind, d)
  PROVE  IInv'
<1> DEFINE b == Construct(Empty, kind, d, FALSE)
<1>1. PICK fails \in Fails(kind, "copy") :
        IF fails THEN Escapes ELSE Boxes([box EXCEPT ![h] = b])
  BY DEF New
<1>2. CASE fails
  BY <1>1, <1>2, FailsExcused, EscapesSafe
<1>3. CASE ~fails
  <2>1. Boxes([box EXCEPT ![h] = b])
    BY <1>1, <1>3
  <2>2. b \in BoxOf /\ Sound(b)
    BY NewSound
  <2> HIDE DEF b
  <2> QED BY <2>1, <2>2, OneBox
<1> QED BY <1>2, <1>3, <1>1, FailsExcused

LEMMA NewDefaultSafe == ASSUME IInv, NEW h \in Handle, NewDefault(h) PROVE IInv'
<1> DEFINE b == Construct(Empty, "value", Default, FALSE)
<1>1. "value" \in Kind /\ Default \in Datum
  BY DEF Kind, Datum
<1>2. b \in BoxOf /\ Sound(b)
  BY <1>1, NewSound
<1>3. Boxes([box EXCEPT ![h] = b])
  BY DEF NewDefault
<1> HIDE DEF b
<1> QED BY <1>2, <1>3, OneBox

LEMMA CopyNewSafe ==
  ASSUME IInv, NEW h \in Handle, NEW g \in Handle, CopyNew(h, g) \/ MoveNew(h, g)
  PROVE  IInv'
<1> DEFINE b == Construct(Base, box[g].valid, Content(box[g]), FALSE)
           left == MovedFrom(box[g])
<1>1. Whole(g)
  BY DEF CopyNew, MoveNew
<1>2. b \in BoxOf /\ Sound(b) /\ left \in BoxOf /\ Sound(left)
  BY <1>1, WholeBox, NewSound
<1>3. CASE CopyNew(h, g)
  <2>1. PICK fails \in Fails(box[g].valid, "copy") :
          IF fails THEN Escapes ELSE Boxes([box EXCEPT ![h] = b])
    BY <1>3 DEF CopyNew
  <2> HIDE DEF b
  <2>2. CASE fails
    BY <2>1, <2>2, FailsExcused, EscapesSafe
  <2>3. CASE ~fails
    BY <2>1, <2>3, <1>2, OneBox
  <2> QED BY <2>1, <2>2, <2>3, FailsExcused
<1>4. CASE MoveNew(h, g)
  <2>1. PICK fails \in Fails(box[g].valid, "move") :
          IF fails THEN Terminate ELSE Boxes([box EXCEPT ![h] = b, ![g] = MovedFrom(box[g])])
    BY <1>4 DEF MoveNew
  <2>2. CASE fails
    BY <2>1, <2>2, <1>1, WholeBox, FailsExcused, Terminates
  <2>3. CASE ~fails
    <3>1. h # g
      BY <1>4 DEF MoveNew, Whole
    <3>2. Boxes([box EXCEPT ![h] = b, ![g] = left])
      BY <2>1, <2>3, <3>1 DEF IInv
    <3> HIDE DEF b, left
    <3> QED BY <3>2, <1>2, TwoBoxes
  <2> QED BY <2>1, <2>2, <2>3, FailsExcused
<1> QED BY <1>3, <1>4

LEMMA ConvertNewSafe ==
  ASSUME IInv, NEW h \in Handle, NEW kind \in Kind, NEW d \in Datum, ConvertNew(h, kind, d)
  PROVE  IInv'
<1> DEFINE b == Construct(Base, kind, d, FALSE)
<1>1. PICK fails \in Fails(kind, "copy") :
        CASE ~fails -> Boxes([box EXCEPT ![h] = b])
          [] fails /\ type.trivial -> Terminate
          [] OTHER -> Undefined
  BY DEF ConvertNew
<1>2. fails \in BOOLEAN /\ (fails => type.throws # {})
  BY FailsExcused
<1>3. CASE fails
  BY <1>1, <1>2, <1>3, Terminates, Undefines
<1>4. CASE ~fails
  <2>1. b \in BoxOf /\ Sound(b)
    BY NewSound
  <2>2. Boxes([box EXCEPT ![h] = b])
    BY <1>1, <1>4
  <2> HIDE DEF b
  <2> QED BY <2>1, <2>2, OneBox
<1> QED BY <1>2, <1>3, <1>4
-----------------------------------------------------------------------------
LEMMA AssignSafe ==
  ASSUME IInv, NEW h \in Handle, NEW kind \in Kind, NEW d \in Datum,
         NEW how \in {"copy", "move"}, NEW fails \in Fails(kind, how), Whole(h),
         IF fails /\ type.trivial THEN Terminate
         ELSE Boxes([box EXCEPT ![h] = Assigned(@, kind, d, fails)])
  PROVE  IInv'
<1> DEFINE b == Assigned(box[h], kind, d, fails)
<1>1. /\ fails \in BOOLEAN
      /\ fails => type.throws # {}
      /\ fails /\ ~type.trivial => Excused(kind)
  BY FailsExcused
<1>2. CASE fails /\ type.trivial
  BY <1>1, <1>2, Terminates
<1>3. CASE ~(fails /\ type.trivial)
  <2>1. b \in BoxOf /\ Sound(b)
    BY <1>1, <1>3, WholeBox, AssignedSound
  <2>2. Boxes([box EXCEPT ![h] = b])
    BY <1>3
  <2> HIDE DEF b
  <2> QED BY <2>1, <2>2, OneBox
<1> QED BY <1>2, <1>3

LEMMA AssignmentsSafe ==
  ASSUME IInv, NEW h \in Handle
  PROVE  /\ \A kind \in Kind, d \in Datum : Assign(h, kind, d) => IInv'
         /\ \A g \in Handle : CopyAssign(h, g) => IInv'
<1>1. ASSUME NEW kind \in Kind, NEW d \in Datum, Assign(h, kind, d) PROVE IInv'
  BY <1>1, AssignSafe DEF Assign
<1>2. ASSUME NEW g \in Handle, CopyAssign(h, g) PROVE IInv'
  <2>1. CASE SelfAssigned /\ ~type.trivial
    BY <2>1, AssignsItself
  <2>2. CASE \E fails \in Fails(box[g].valid, "copy") :
               IF fails /\ type.trivial THEN Terminate
               ELSE Boxes([box EXCEPT ![h] = Assigned(@, box[g].valid, Content(box[g]), fails)])
    <3>1. Whole(h) /\ Whole(g)
      BY <1>2 DEF CopyAssign
    <3>2. box[g].valid \in Kind /\ Content(box[g]) \in Datum
      BY <3>1, WholeBox
    <3> QED BY <2>2, <3>1, <3>2, AssignSafe
  <2> QED BY <1>2, <2>1, <2>2 DEF CopyAssign
<1> QED BY <1>1, <1>2

LEMMA MoveAssignSafe ==
  ASSUME IInv, NEW h \in Handle, NEW g \in Handle, MoveAssign(h, g)
  PROVE  IInv'
<1> DEFINE b == Assigned(box[h], box[g].valid, Content(box[g]), FALSE)
           left == MovedFrom(box[g])
<1>1. Whole(h) /\ Whole(g)
  BY DEF MoveAssign
<1>2. b \in BoxOf /\ Sound(b) /\ left \in BoxOf /\ Sound(left) /\ box[g].valid \in Kind
  BY <1>1, WholeBox, AssignedSound
<1>3. CASE SelfAssigned /\ ~type.trivial
  BY <1>3, AssignsItself
<1>4. ASSUME NEW fails \in Fails(box[g].valid, "move"), fails, Terminate PROVE IInv'
  BY <1>2, <1>4, FailsExcused, Terminates
<1>5. CASE Boxes([box EXCEPT ![h] = b, ![g] = left])
  <2> HIDE DEF b, left
  <2> QED BY <1>5, <1>2, TwoBoxes
<1>6. \/ SelfAssigned /\ ~type.trivial
      \/ \E fails \in Fails(box[g].valid, "move") :
           IF fails THEN Terminate ELSE Boxes([box EXCEPT ![h] = b, ![g] = left])
  BY DEF MoveAssign
<1> HIDE DEF b, left
<1> QED BY <1>3, <1>4, <1>5, <1>6, FailsExcused
-----------------------------------------------------------------------------

(* Two of the same kind exchange their objects, wholly or in part.         *)
LEMMA SwapSameSafe ==
  ASSUME IInv, NEW h \in Handle, NEW g \in Handle, SwapSame(h, g)
  PROVE  IInv'
<1> DEFINE a == box[h]
           b == box[g]
           ab == [a EXCEPT !.object = b.object]
           ba == [b EXCEPT !.object = a.object]
<1>1. Whole(h) /\ Whole(g) /\ a.valid = b.valid
  BY DEF SwapSame
<1>2. /\ a \in BoxOf /\ Sound(a) /\ a.object # Gone
      /\ b \in BoxOf /\ Sound(b) /\ b.object # Gone
      /\ MovedFrom(a) \in BoxOf /\ Sound(MovedFrom(a))
      /\ MovedFrom(b) \in BoxOf /\ Sound(MovedFrom(b))
  BY <1>1, WholeBox
<1>3. a.valid \in Kind /\ a.object[1] = a.valid /\ b.object[1] = a.valid
  BY <1>1, <1>2, SoundBoxes DEF Sound, None
<1>4. ab \in BoxOf /\ ba \in BoxOf
  BY <1>2 DEF BoxOf
<1>5. ab.object = b.object /\ ab.valid = a.valid /\ ba.object = a.object /\ ba.valid = a.valid
  BY <1>1, <1>2 DEF BoxOf
<1>6. a.valid # "none"
  BY <1>3 DEF Kind
<1>7. Sound(ab) /\ Sound(ba)
  BY <1>2, <1>3, <1>4, <1>5, <1>6 DEF Sound
<1>8. \/ Thrown
      \/ Boxes([box EXCEPT ![h] = MovedFrom(a)])
      \/ Boxes([box EXCEPT ![h] = ab, ![g] = MovedFrom(b)])
      \/ Boxes([box EXCEPT ![h] = ab, ![g] = ba])
  BY DEF SwapSame
<1> HIDE DEF a, b, ab, ba
<1> QED BY <1>2, <1>4, <1>7, <1>8, NoBox, OneBox, TwoBoxes

(* A value and an error: each step leaves both sound.                      *)
LEMMA SwapMixedSafe ==
  ASSUME IInv, NEW v \in Handle, NEW e \in Handle, SwapMixed(v, e)
  PROVE  IInv'
<1>1. Whole(v) /\ Whole(e) /\ box[v].valid = "value" /\ box[e].valid = "error" /\ v # e
  BY DEF SwapMixed
<1>2. PICK first \in Fails("error", "move"), third \in Fails("error", "move"),
           second \in Fails("value", "move") :
        LET failed == CASE first -> 1 [] ~first /\ second -> 2
                        [] ~first /\ ~second /\ third -> 3 [] OTHER -> 0
        IN  CASE failed = 1 -> Thrown
              [] failed \in {2, 3} /\ type.trivial -> Terminate
              [] OTHER -> Boxes(SwapSteps(v, e, failed))
  BY DEF SwapMixed
<1>3. /\ first \in BOOLEAN /\ second \in BOOLEAN /\ third \in BOOLEAN
      /\ first \/ second \/ third => type.throws # {}
      /\ second /\ ~type.trivial => Excused("value")
      /\ third /\ ~type.trivial => Excused("error")
  BY FailsExcused
<1> DEFINE failed == CASE first -> 1 [] ~first /\ second -> 2
                       [] ~first /\ ~second /\ third -> 3 [] OTHER -> 0
           toValue == Assigned(MovedFrom(box[e]), "value", Content(box[v]), failed = 2)
           toError == Assigned(MovedFrom(box[v]), "error", Content(box[e]), failed = 3)
<1>4. /\ failed \in {0, 1, 2, 3}
      /\ failed = 2 => second
      /\ failed = 3 => third
  BY <1>3
<1>5. CASE failed = 1
  <2>1. Thrown
    BY <1>2, <1>5
  <2> QED BY <2>1, NoBox
<1>6. CASE failed \in {2, 3} /\ type.trivial
  <2>1. Terminate
    BY <1>2, <1>6
  <2> QED BY <1>3, <1>4, <1>6, <2>1, Terminates
<1>7. CASE failed # 1 /\ ~(failed \in {2, 3} /\ type.trivial)
  <2>1. Boxes(SwapSteps(v, e, failed))
    BY <1>2, <1>7
  <2>2. "value" \in Kind /\ "error" \in Kind
    BY DEF Kind
  <2>3. /\ (failed = 2) \in BOOLEAN /\ (failed = 2 => Excused("value"))
        /\ (failed = 3) \in BOOLEAN /\ (failed = 3 => Excused("error"))
    BY <1>3, <1>4, <1>7
  <2>4. /\ MovedFrom(box[e]) \in BoxOf /\ Content(box[v]) \in Datum
        /\ MovedFrom(box[v]) \in BoxOf /\ Content(box[e]) \in Datum
    BY <1>1, WholeBox
  <2> HIDE DEF failed
  <2>5. toValue \in BoxOf /\ Sound(toValue)
    BY <2>2, <2>3, <2>4, AssignedSound
  <2>6. toError \in BoxOf /\ Sound(toError)
    BY <2>2, <2>3, <2>4, AssignedSound
  <2>7. SwapSteps(v, e, failed) =
          [box EXCEPT ![e] = toValue, ![v] = IF failed = 2 THEN box[v] ELSE toError]
    BY <1>1 DEF SwapSteps, IInv
  <2> HIDE DEF toValue, toError
  <2> DEFINE last == IF failed = 2 THEN box[v] ELSE toError
  <2>8. last \in BoxOf /\ Sound(last)
    BY <2>6, <1>1, WholeBox
  <2>9. Boxes([box EXCEPT ![e] = toValue, ![v] = last])
    BY <2>1, <2>7
  <2> HIDE DEF last
  <2> QED BY <2>5, <2>8, <2>9, TwoBoxes
<1> QED BY <1>4, <1>5, <1>6, <1>7

LEMMA AccessSafe ==
  ASSUME IInv, NEW h \in Handle, FailedAccess(h) \/ Take(h)
  PROVE  IInv'
<1>1. Whole(h) /\ (Thrown \/ Boxes([box EXCEPT ![h] = MovedFrom(@)]))
  BY DEF FailedAccess, Take
<1> DEFINE b == MovedFrom(box[h])
<1>2. b \in BoxOf /\ Sound(b)
  BY <1>1, WholeBox
<1>3. Thrown \/ Boxes([box EXCEPT ![h] = b])
  BY <1>1
<1> HIDE DEF b
<1> QED BY <1>2, <1>3, OneBox, NoBox

LEMMA UncheckedSafe ==
  ASSUME IInv, NEW h \in Handle, NEW kind \in Kind, Unchecked(h, kind)
  PROVE  IInv'
<1>1. Whole(h) /\ (\/ Fault("unchecked") \/ Thrown
                  \/ Boxes([box EXCEPT ![h] = MovedFrom(@)]))
  BY DEF Unchecked
<1> DEFINE b == MovedFrom(box[h])
<1>2. b \in BoxOf /\ Sound(b)
  BY <1>1, WholeBox
<1>3. Fault("unchecked") \/ Thrown \/ Boxes([box EXCEPT ![h] = b])
  BY <1>1
<1> HIDE DEF b
<1>4. CASE Fault("unchecked")
  BY <1>4, FaultStep
<1> QED BY <1>2, <1>3, <1>4, OneBox, NoBox

(* Storage is without its object only where a constructor threw.           *)
LEMMA DropSafe ==
  ASSUME IInv, NEW h \in Handle, Drop(h) \/ Touch(h)
  PROVE  IInv'
<1>1. CASE Drop(h)
  <2>1. None \in BoxOf /\ Sound(None)
    BY DEF None, BoxOf, Sound
  <2> QED BY <1>1, <2>1, OneBox DEF Drop
<1>2. CASE Touch(h)
  <2>1. Excused(box[h].valid)
    BY <1>2 DEF Touch, IInv, Sound, Exists, Whole
  <2>2. type.throws # {} /\ ~type.trivial
    BY <2>1 DEF Excused
  <2> QED BY <1>2, <2>2, Undefines DEF Touch
<1> QED BY <1>1, <1>2
-----------------------------------------------------------------------------
LEMMA Start == Init => IInv
<1> SUFFICES ASSUME Init PROVE IInv
  OBVIOUS
<1>1. None \in BoxOf /\ Sound(None)
  BY DEF None, BoxOf, Sound
<1> QED BY <1>1 DEF Init, IInv, SafeWithoutThrow

LEMMA Steps == IInv /\ [Next]_vars => IInv'
<1> SUFFICES ASSUME IInv, [Next]_vars PROVE IInv'
  OBVIOUS
<1>1. \A kind \in Kind : Data(kind) \subseteq Datum
  BY DEF Data, Datum, Kind
<1>2. ASSUME NEW h \in Handle, NEW kind \in Kind, NEW d \in Data(kind),
             New(h, kind, d) \/ ConvertNew(h, kind, d) \/ Assign(h, kind, d)
      PROVE  IInv'
  BY <1>1, <1>2, NewSafe, ConvertNewSafe, AssignmentsSafe
<1>3. ASSUME NEW h \in Handle, NEW g \in Handle,
             \/ CopyNew(h, g) \/ MoveNew(h, g) \/ CopyAssign(h, g) \/ MoveAssign(h, g)
             \/ SwapSame(h, g) \/ SwapMixed(h, g)
      PROVE  IInv'
  BY <1>3, CopyNewSafe, AssignmentsSafe, MoveAssignSafe, SwapSameSafe, SwapMixedSafe
<1>4. ASSUME NEW h \in Handle,
             \/ NewDefault(h) \/ FailedAccess(h) \/ Take(h) \/ Drop(h) \/ Touch(h)
      PROVE  IInv'
  BY <1>4, NewDefaultSafe, AccessSafe, DropSafe
<1>6. ASSUME NEW h \in Handle, NEW kind \in Kind, Unchecked(h, kind) PROVE IInv'
  BY <1>6, UncheckedSafe
<1>5. CASE UNCHANGED vars
  BY <1>5 DEF vars, IInv, SafeWithoutThrow, Sound, Excused
<1> QED BY <1>2, <1>3, <1>4, <1>5, <1>6 DEF Next

(* Every reachable state of every program with results: the type of the    *)
(* boxes, the object under the flag, and the cause of each fault.          *)
THEOREM ResultsInvariant == Spec => []IInv
  BY Start, Steps, PTL DEF Spec

(* A box holds what its flag says.                                         *)
THEOREM FlagIsRight == Spec => []HoldsWhatItSays
  BY ResultsInvariant, Boxwise, PTL

(* Constructors that do not throw lead to no fault but the assignment of a *)
(* result to itself and the unchecked use of the wrong kind; std::terminate*)
(* takes a trivial type whose constructors throw, or a move that throws.   *)
THEOREM NoFaultWithoutThrow == Spec => []SafeWithoutThrow
  BY ResultsInvariant, Boxwise, PTL

(* The types of the variables.                                             *)
THEOREM BoxesTyped == Spec => []BoxTypeOK
  BY ResultsInvariant, Boxwise, PTL
-----------------------------------------------------------------------------
(* How many objects a box counts, and what it stands for in Outcomes.      *)
Buried(b) == b.under \in (IF BuriesDefault THEN {0, 1} ELSE {0})
Counted(b) ==
  b.valid # "none" =>
    b.live = (IF b.object = Gone THEN 0 ELSE 1) + b.under /\ Buried(b)
Stands(b) ==
  CASE b.valid = "none" -> <<"none">> [] b.valid # "none" /\ b.object # Gone -> <<b.valid, Content(b)>>
    [] OTHER -> Gone
Outs == [h \in Handle |-> Outcome(h)]
AllCounted == \A h \in Handle : Counted(box[h])
CInv == IInv /\ AllCounted

(* What a step may do to the outcomes.                                     *)
Kept == AllCounted' /\ (Sum!Next \/ Outs' = Outs)

LEMMA OutsAre == Outs = [h \in Handle |-> Stands(box[h])]
  BY DEF Outs, Outcome, Stands, Whole, Exists
LEMMA OutsNext == Outs' = [h \in Handle |-> Stands(box'[h])]
  BY DEF Outs, Outcome, Stands, Whole, Exists, Content

LEMMA CountsBalance == CInv => Balanced
  BY DEF CInv, AllCounted, Counted, Buried, Balanced, Exists, Whole

(* Steps that change no box, one box, or two.                              *)
LEMMA SameKept ==
  ASSUME CInv, box' = box, type' = type
  PROVE  Kept
<1>1. AllCounted'
  BY DEF CInv, AllCounted, Counted, Buried, BuriesDefault
<1>2. Outs' = Outs
  BY OutsAre, OutsNext
<1> QED BY <1>1, <1>2 DEF Kept

LEMMA OneKept ==
  ASSUME CInv, NEW h \in Handle, NEW b, Counted(b), Boxes([box EXCEPT ![h] = b])
  PROVE  AllCounted' /\ Outs' = [Outs EXCEPT ![h] = Stands(b)]
<1>1. box' = [box EXCEPT ![h] = b] /\ type' = type /\ box \in [Handle -> BoxOf]
  BY DEF Boxes, CInv, IInv
<1>2. \A k \in Handle : box'[k] = IF k = h THEN b ELSE box[k]
  BY <1>1
<1>3. AllCounted'
  BY <1>1, <1>2 DEF CInv, AllCounted, Counted, Buried, BuriesDefault
<1>4. Outs' = [Outs EXCEPT ![h] = Stands(b)]
  BY <1>2, OutsAre, OutsNext
<1> QED BY <1>3, <1>4

LEMMA TwoKept ==
  ASSUME CInv, NEW h \in Handle, NEW g \in Handle, NEW b, Counted(b), NEW c, Counted(c),
         Boxes([box EXCEPT ![h] = b, ![g] = c])
  PROVE  AllCounted' /\ Outs' = [Outs EXCEPT ![h] = Stands(b), ![g] = Stands(c)]
<1>1. /\ box' = [box EXCEPT ![h] = b, ![g] = c] /\ type' = type
      /\ box \in [Handle -> BoxOf]
  BY DEF Boxes, CInv, IInv
<1>2. \A k \in Handle : box'[k] = IF k = g THEN c ELSE IF k = h THEN b ELSE box[k]
  BY <1>1
<1>3. AllCounted'
  BY <1>1, <1>2 DEF CInv, AllCounted, Counted, Buried, BuriesDefault
<1>4. Outs' = [Outs EXCEPT ![h] = Stands(b), ![g] = Stands(c)]
  BY <1>2, OutsAre, OutsNext
<1> QED BY <1>3, <1>4

(* What stands for a box that was constructed, assigned or moved from.     *)
LEMMA StandsConstructed ==
  ASSUME NEW kind \in Kind, NEW d \in Datum, NEW b \in BoxOf, NEW fails \in BOOLEAN
  PROVE  /\ Stands(Construct(b, kind, d, fails)) = IF fails THEN Gone ELSE <<kind, d>>
         /\ b.live = b.under /\ Buried(b) => Counted(Construct(b, kind, d, fails))
<1> DEFINE c == Construct(b, kind, d, fails)
<1>1. /\ c.valid = kind /\ c.object = (IF fails THEN Gone ELSE <<kind, d>>)
      /\ c.live = (IF fails THEN b.live ELSE b.live + 1) /\ c.under = b.under
      /\ b.live \in Int /\ b.under \in Int
  BY DEF Construct, BoxOf
<1>2. kind # "none" /\ <<kind, d>> # Gone /\ <<kind, d>>[2] = d
  BY DEF Kind, Gone
<1> HIDE DEF c
<1>3. Stands(c) = IF fails THEN Gone ELSE <<kind, d>>
  BY <1>1, <1>2 DEF Stands, Content
<1>4. b.live = b.under /\ Buried(b) => Counted(c)
  BY <1>1, <1>2 DEF Counted, Buried
<1> QED BY <1>3, <1>4 DEF c

LEMMA StandsNew ==
  ASSUME NEW kind \in Kind, NEW d \in Datum, NEW b \in {Empty, Base}
  PROVE  /\ Stands(Construct(b, kind, d, FALSE)) = <<kind, d>>
         /\ Counted(Construct(b, kind, d, FALSE))
<1>1. b \in BoxOf
  BY EmptyBox
<1>2. b.live = b.under /\ Buried(b)
  BY DEF Empty, Base, Buried
<1> QED BY <1>1, <1>2, StandsConstructed

LEMMA StandsAssigned ==
  ASSUME NEW b, Sound(b), Counted(b), b.object # Gone,
         NEW kind \in Kind, NEW d \in Datum, NEW fails \in BOOLEAN
  PROVE  /\ Stands(Assigned(b, kind, d, fails)) = IF fails THEN Gone ELSE <<kind, d>>
         /\ Counted(Assigned(b, kind, d, fails))
<1>1. b \in BoxOf /\ b.valid \in Kind
  BY SoundBoxes
<1>2. /\ Destroy(b).live = b.live - 1 /\ Destroy(b).under = b.under
      /\ b.live \in Int /\ b.under \in Int
  BY <1>1 DEF Destroy, BoxOf
<1>3. b.live = 1 + b.under /\ Buried(b)
  BY <1>1 DEF Counted, Kind
<1>4. Destroy(b).live = Destroy(b).under /\ Buried(Destroy(b))
  BY <1>2, <1>3 DEF Buried
<1> QED BY <1>1, <1>4, Destroyed, StandsConstructed DEF Assigned

LEMMA StandsMoved ==
  ASSUME NEW b, Sound(b), Counted(b), b.object # Gone
  PROVE  /\ Stands(b) = <<b.valid, Content(b)>>
         /\ Stands(MovedFrom(b)) = <<b.valid, Moved>>
         /\ Counted(MovedFrom(b)) /\ MovedFrom(b).object # Gone
<1>1. /\ b \in BoxOf /\ b.object = <<b.valid, Content(b)>> /\ b.valid \in Kind
  BY SoundBoxes
<1>2. MovedFrom(b) = [valid |-> b.valid, object |-> <<b.valid, Moved>>, live |-> b.live,
                      under |-> b.under]
  BY <1>1 DEF MovedFrom, BoxOf
<1>3. /\ MovedFrom(b).valid = b.valid /\ MovedFrom(b).live = b.live
      /\ MovedFrom(b).under = b.under
      /\ MovedFrom(b).object = <<b.valid, Moved>>
  BY <1>2
<1>4. <<b.valid, Moved>> # Gone /\ b.valid # "none" /\ <<b.valid, Moved>>[2] = Moved
  BY <1>1 DEF Gone, Kind
<1>5. Stands(b) = <<b.valid, Content(b)>>
  BY <1>4 DEF Stands
<1>6. Stands(MovedFrom(b)) = <<b.valid, Moved>>
  BY <1>3, <1>4 DEF Stands, Content
<1>7. Counted(MovedFrom(b))
  BY <1>3, <1>4 DEF Counted, Buried
<1> QED BY <1>3, <1>4, <1>5, <1>6, <1>7

LEMMA WholeStands ==
  ASSUME CInv, NEW h \in Handle, Whole(h)
  PROVE  /\ Sound(box[h]) /\ Counted(box[h]) /\ box[h].object # Gone
         /\ box[h].valid \in Kind /\ Content(box[h]) \in Datum
         /\ Outs[h] = <<box[h].valid, Content(box[h])>> /\ Outs[h] = Stands(box[h])
         /\ Stands(MovedFrom(box[h])) = Sum!Left(Outs[h])
         /\ Counted(MovedFrom(box[h])) /\ h \in Sum!Held
<1>1. /\ Sound(box[h]) /\ box[h].object # Gone /\ box[h].valid \in Kind
      /\ Content(box[h]) \in Datum /\ Counted(box[h])
  BY WholeBox DEF CInv, AllCounted
<1>2. Outs[h] = <<box[h].valid, Content(box[h])>> /\ Outs[h] = Stands(box[h])
  BY <1>1, StandsMoved, OutsAre
<1>3. Outs[h] \in Sum!Result /\ Sum!Left(Outs[h]) = <<box[h].valid, Moved>>
  BY <1>1, <1>2 DEF Sum!Result, Sum!Kind, Kind, Sum!Left
<1>4. h \in Sum!Held
  BY <1>3 DEF Sum!Held, Outs
<1> QED BY <1>1, <1>2, <1>3, <1>4, StandsMoved
-----------------------------------------------------------------------------
(* The steps of Outcomes, in terms of Outs.                                *)
LEMMA AbstractSet ==
  ASSUME NEW h \in Handle, NEW kind \in Kind, NEW d \in Datum,
         Outs' = [Outs EXCEPT ![h] = <<kind, d>>]
  PROVE  Sum!Next
<1>1. <<kind, d>> \in Sum!Result
  BY DEF Sum!Result, Sum!Kind, Kind
<1>2. Sum!Set(h)
  BY <1>1 DEF Sum!Set, Outs
<1> QED BY <1>2 DEF Sum!Next

LEMMA AbstractDiscard ==
  ASSUME NEW h \in Handle, Outs' = [Outs EXCEPT ![h] = <<"none">>]
  PROVE  Sum!Next
  BY DEF Sum!Next, Sum!Discard, Outs

LEMMA AbstractOne ==
  ASSUME NEW h \in Sum!Held,
         \/ Outs' = [Outs EXCEPT ![h] = Sum!Left(Outs[h])]
         \/ Outs' = [Outs EXCEPT ![h] = Gone]
  PROVE  Sum!Next
<1>1. h \in Handle
  BY DEF Sum!Held
<1>2. Sum!Leave(h) \/ Sum!Spoil(h)
  BY <1>1 DEF Sum!Leave, Sum!Spoil, Outs
<1> QED BY <1>2 DEF Sum!Next

LEMMA AbstractFrom ==
  ASSUME NEW h \in Handle, NEW g \in Sum!Held, h # g,
         \/ Outs' = [Outs EXCEPT ![h] = Outs[g]]
         \/ Outs' = [Outs EXCEPT ![h] = Outs[g], ![g] = Sum!Left(Outs[g])]
  PROVE  Sum!Next
<1>1. Sum!Copy(h, g) \/ Sum!Transfer(h, g)
  BY DEF Sum!Copy, Sum!Transfer, Outs
<1> QED BY <1>1 DEF Sum!Next

LEMMA AbstractTwo ==
  ASSUME NEW h \in Sum!Held, NEW g \in Sum!Held, h # g,
         \/ Outs' = [Outs EXCEPT ![h] = Outs[g], ![g] = Outs[h]]
         \/ Outs' = [Outs EXCEPT ![h] = Gone, ![g] = Outs[h]]
  PROVE  Sum!Next
<1>1. Sum!Swap(h, g) \/ Sum!SpoilTaken(h, g)
  BY DEF Sum!Swap, Sum!SpoilTaken, Outs
<1> QED BY <1>1 DEF Sum!Next
-----------------------------------------------------------------------------
(* Construction.                                                           *)
LEMMA FaultKept == ASSUME CInv, NEW f, Fault(f) PROVE Kept
  BY SameKept DEF Fault
LEMMA ThrownKept == ASSUME CInv, Thrown PROVE Kept
  BY SameKept DEF Thrown, Boxes
LEMMA EscapesKept == ASSUME CInv, Escapes PROVE Kept
  BY FaultKept, ThrownKept DEF Escapes, Terminate

LEMMA SetKept ==
  ASSUME CInv, NEW h \in Handle, NEW kind \in Kind, NEW d \in Datum, NEW b, Counted(b),
         Stands(b) = <<kind, d>>, Boxes([box EXCEPT ![h] = b])
  PROVE  Kept
  BY OneKept, AbstractSet DEF Kept

LEMMA NewKept ==
  ASSUME CInv, NEW h \in Handle, NEW kind \in Kind, NEW d \in Datum, New(h, kind, d)
  PROVE  Kept
<1> DEFINE b == Construct(Empty, kind, d, FALSE)
<1>1. Escapes \/ Boxes([box EXCEPT ![h] = b])
  BY DEF New
<1>2. Stands(b) = <<kind, d>> /\ Counted(b)
  BY StandsNew
<1> HIDE DEF b
<1> QED BY <1>1, <1>2, EscapesKept, SetKept

LEMMA NewDefaultKept == ASSUME CInv, NEW h \in Handle, NewDefault(h) PROVE Kept
<1> DEFINE b == Construct(Empty, "value", Default, FALSE)
<1>1. "value" \in Kind /\ Default \in Datum
  BY DEF Kind, Datum
<1>2. Stands(b) = <<"value", Default>> /\ Counted(b)
  BY <1>1, StandsNew
<1>3. Boxes([box EXCEPT ![h] = b])
  BY DEF NewDefault
<1> HIDE DEF b
<1> QED BY <1>1, <1>2, <1>3, SetKept

LEMMA ConvertNewKept ==
  ASSUME CInv, NEW h \in Handle, NEW kind \in Kind, NEW d \in Datum, ConvertNew(h, kind, d)
  PROVE  Kept
<1> DEFINE b == Construct(Base, kind, d, FALSE)
<1>1. Fault("terminated") \/ Fault("undefined") \/ Boxes([box EXCEPT ![h] = b])
  BY DEF ConvertNew, Terminate, Undefined
<1>2. Stands(b) = <<kind, d>> /\ Counted(b)
  BY StandsNew
<1> HIDE DEF b
<1> QED BY <1>1, <1>2, FaultKept, SetKept

LEMMA CopyNewKept ==
  ASSUME CInv, NEW h \in Handle, NEW g \in Handle, CopyNew(h, g) \/ MoveNew(h, g)
  PROVE  Kept
<1> DEFINE b == Construct(Base, box[g].valid, Content(box[g]), FALSE)
           left == MovedFrom(box[g])
<1>1. Whole(g) /\ h # g
  BY DEF CopyNew, MoveNew, Whole
<1>2. \/ Escapes \/ Fault("terminated")
      \/ Boxes([box EXCEPT ![h] = b]) \/ Boxes([box EXCEPT ![h] = b, ![g] = left])
  BY <1>1 DEF CopyNew, MoveNew, Terminate, CInv, IInv
<1>3. /\ g \in Sum!Held /\ Stands(left) = Sum!Left(Outs[g]) /\ Counted(left)
      /\ Stands(b) = Outs[g] /\ Counted(b)
  BY <1>1, WholeStands, StandsNew
<1> HIDE DEF b, left
<1>4. CASE Boxes([box EXCEPT ![h] = b])
  BY <1>1, <1>3, <1>4, OneKept, AbstractFrom DEF Kept
<1>5. CASE Boxes([box EXCEPT ![h] = b, ![g] = left])
  BY <1>1, <1>3, <1>5, TwoKept, AbstractFrom DEF Kept
<1> QED BY <1>2, <1>4, <1>5, EscapesKept, FaultKept
-----------------------------------------------------------------------------
(* Assignment, exchange and access.                                        *)
LEMMA AssignedKept ==
  ASSUME CInv, NEW h \in Handle, Whole(h), NEW kind \in Kind, NEW d \in Datum,
         NEW fails \in BOOLEAN, Boxes([box EXCEPT ![h] = Assigned(@, kind, d, fails)])
  PROVE  /\ AllCounted'
         /\ Outs' = [Outs EXCEPT ![h] = IF fails THEN Gone ELSE <<kind, d>>]
<1> DEFINE b == Assigned(box[h], kind, d, fails)
<1>1. Stands(b) = (IF fails THEN Gone ELSE <<kind, d>>) /\ Counted(b)
  BY WholeStands, StandsAssigned
<1>2. Boxes([box EXCEPT ![h] = b])
  OBVIOUS
<1> HIDE DEF b
<1> QED BY <1>1, <1>2, OneKept

LEMMA AssignKept ==
  ASSUME CInv, NEW h \in Handle, NEW kind \in Kind, NEW d \in Datum, Assign(h, kind, d)
  PROVE  Kept
<1>1. Whole(h) /\ h \in Sum!Held
  BY WholeStands DEF Assign
<1>2. PICK fails \in BOOLEAN :
        Fault("terminated") \/ Boxes([box EXCEPT ![h] = Assigned(@, kind, d, fails)])
  BY DEF Assign, Terminate, Fails
<1>3. CASE Fault("terminated")
  BY <1>3, FaultKept
<1>4. CASE Boxes([box EXCEPT ![h] = Assigned(@, kind, d, fails)])
  <2>1. AllCounted' /\ Outs' = [Outs EXCEPT ![h] = IF fails THEN Gone ELSE <<kind, d>>]
    BY <1>1, <1>4, AssignedKept
  <2> QED BY <1>1, <2>1, AbstractOne, AbstractSet DEF Kept
<1> QED BY <1>2, <1>3, <1>4

LEMMA SetsItself ==
  ASSUME NEW h \in Handle, Outs' = [Outs EXCEPT ![h] = Outs[h]]
  PROVE  Outs' = Outs
<1>1. Outs = [k \in Handle |-> Outs[k]]
  BY DEF Outs
<1> QED BY <1>1

(* To give a place an outcome, and then another, is to give the other.     *)
LEMMA Twice ==
  ASSUME NEW f, NEW S, f = [k \in S |-> f[k]], NEW h \in S, NEW x, NEW y
  PROVE  [f EXCEPT ![h] = x, ![h] = y] = [f EXCEPT ![h] = y]
  OBVIOUS
LEMMA Leaves ==
  ASSUME NEW h \in Handle, NEW x, NEW y
  PROVE  [Outs EXCEPT ![h] = x, ![h] = y] = [Outs EXCEPT ![h] = y]
<1>1. Outs = [k \in Handle |-> Outs[k]]
  BY DEF Outs
<1> QED BY <1>1, Twice

LEMMA CopyAssignKept ==
  ASSUME CInv, NEW h \in Handle, NEW g \in Handle, CopyAssign(h, g)
  PROVE  Kept
<1>1. Whole(h) /\ Whole(g)
  BY DEF CopyAssign
<1>2. /\ h \in Sum!Held /\ g \in Sum!Held /\ Outs[g] = <<box[g].valid, Content(box[g])>>
      /\ box[g].valid \in Kind /\ Content(box[g]) \in Datum
  BY <1>1, WholeStands
<1>3. PICK fails \in BOOLEAN :
        \/ Fault("terminated") \/ Fault("self-assigned")
        \/ Boxes([box EXCEPT ![h] = Assigned(@, box[g].valid, Content(box[g]), fails)])
  BY DEF CopyAssign, Terminate, SelfAssigned, Fails
<1>4. CASE Boxes([box EXCEPT ![h] = Assigned(@, box[g].valid, Content(box[g]), fails)])
  <2>1. AllCounted' /\ Outs' = [Outs EXCEPT ![h] = IF fails THEN Gone ELSE Outs[g]]
    BY <1>1, <1>2, <1>4, AssignedKept
  <2>2. CASE fails
    BY <1>2, <2>1, <2>2, AbstractOne DEF Kept
  <2>3. CASE ~fails /\ h # g
    BY <1>2, <2>1, <2>3, AbstractFrom DEF Kept
  <2>4. CASE ~fails /\ h = g
    BY <2>1, <2>4, SetsItself DEF Kept
  <2> QED BY <2>2, <2>3, <2>4
<1> QED BY <1>3, <1>4, FaultKept

LEMMA MoveAssignKept ==
  ASSUME CInv, NEW h \in Handle, NEW g \in Handle, MoveAssign(h, g)
  PROVE  Kept
<1> DEFINE b == Assigned(box[h], box[g].valid, Content(box[g]), FALSE)
           left == MovedFrom(box[g])
<1>1. Whole(h) /\ Whole(g)
  BY DEF MoveAssign
<1>2. \/ Fault("terminated") \/ Fault("self-assigned")
      \/ Boxes([box EXCEPT ![h] = b, ![g] = left])
  BY DEF MoveAssign, Terminate, SelfAssigned
<1>3. /\ g \in Sum!Held /\ Stands(left) = Sum!Left(Outs[g]) /\ Counted(left)
      /\ Stands(b) = Outs[g] /\ Counted(b)
  BY <1>1, WholeStands, StandsAssigned
<1> HIDE DEF b, left
<1>4. CASE Boxes([box EXCEPT ![h] = b, ![g] = left])
  <2>1. AllCounted' /\ Outs' = [Outs EXCEPT ![h] = Outs[g], ![g] = Sum!Left(Outs[g])]
    BY <1>3, <1>4, TwoKept
  <2>2. CASE h # g
    BY <1>3, <2>1, <2>2, AbstractFrom DEF Kept
  <2>3. CASE h = g
    <3>1. Outs' = [Outs EXCEPT ![g] = Sum!Left(Outs[g])]
      BY <2>1, <2>3, Leaves
    <3> QED BY <1>3, <2>1, <3>1, AbstractOne DEF Kept
  <2> QED BY <2>2, <2>3
<1> QED BY <1>2, <1>4, FaultKept

LEMMA LeaveKept ==
  ASSUME CInv, NEW h \in Handle, Whole(h), Boxes([box EXCEPT ![h] = MovedFrom(box[h])])
  PROVE  Kept
<1> DEFINE left == MovedFrom(box[h])
<1>1. /\ h \in Sum!Held /\ Counted(left)
      /\ Stands(left) = Sum!Left(Outs[h])
  BY WholeStands
<1>2. Boxes([box EXCEPT ![h] = left])
  OBVIOUS
<1> HIDE DEF left
<1> QED BY <1>1, <1>2, OneKept, AbstractOne DEF Kept

LEMMA SwapSameKept ==
  ASSUME CInv, NEW h \in Handle, NEW g \in Handle, SwapSame(h, g)
  PROVE  Kept
<1> DEFINE a == box[h]
           b == box[g]
           ab == [a EXCEPT !.object = b.object]
           ba == [b EXCEPT !.object = a.object]
           left == MovedFrom(b)
<1>1. Whole(h) /\ Whole(g) /\ a.valid = b.valid
  BY DEF SwapSame
<1>2. /\ Counted(a) /\ a.object # Gone /\ a.valid \in Kind /\ Outs[h] = <<a.valid, Content(a)>>
      /\ Counted(b) /\ b.object # Gone /\ b.valid \in Kind /\ Outs[g] = <<b.valid, Content(b)>>
      /\ h \in Sum!Held /\ g \in Sum!Held
      /\ Counted(left) /\ Stands(left) = Sum!Left(Outs[g])
  BY <1>1, WholeStands
<1>3. a \in BoxOf /\ b \in BoxOf
  BY DEF CInv, IInv
<1>4. /\ ab.object = b.object /\ ab.valid = a.valid /\ ab.live = a.live /\ ab.under = a.under
      /\ ba.object = a.object /\ ba.valid = b.valid /\ ba.live = b.live /\ ba.under = b.under
  BY <1>3 DEF BoxOf
<1>5. a.valid # "none" /\ b.valid # "none"
  BY <1>2 DEF Kind
<1>6. Stands(ab) = Outs[g] /\ Stands(ba) = Outs[h]
  BY <1>1, <1>2, <1>4, <1>5 DEF Stands, Content
<1>7. Counted(ab) /\ Counted(ba)
  BY <1>2, <1>4 DEF Counted, Buried, Kind
<1>8. \/ Thrown
      \/ Boxes([box EXCEPT ![h] = MovedFrom(box[h])])
      \/ Boxes([box EXCEPT ![h] = ab, ![g] = left])
      \/ Boxes([box EXCEPT ![h] = ab, ![g] = ba])
  BY DEF SwapSame
<1> HIDE DEF a, b, ab, ba, left
<1>9. CASE Boxes([box EXCEPT ![h] = ab, ![g] = left])
  <2>1. AllCounted' /\ Outs' = [Outs EXCEPT ![h] = Outs[g], ![g] = Sum!Left(Outs[g])]
    BY <1>2, <1>6, <1>7, <1>9, TwoKept
  <2>2. CASE h # g
    BY <1>2, <2>1, <2>2, AbstractFrom DEF Kept
  <2>3. CASE h = g
    <3>1. Outs' = [Outs EXCEPT ![g] = Sum!Left(Outs[g])]
      BY <2>1, <2>3, Leaves
    <3> QED BY <1>2, <2>1, <3>1, AbstractOne DEF Kept
  <2> QED BY <2>2, <2>3
<1>10. CASE Boxes([box EXCEPT ![h] = ab, ![g] = ba])
  <2>1. AllCounted' /\ Outs' = [Outs EXCEPT ![h] = Outs[g], ![g] = Outs[h]]
    BY <1>6, <1>7, <1>10, TwoKept
  <2>2. CASE h # g
    BY <1>2, <2>1, <2>2, AbstractTwo DEF Kept
  <2>3. CASE h = g
    <3>1. Outs' = [Outs EXCEPT ![h] = Outs[h]]
      BY <2>1, <2>3, Leaves
    <3> QED BY <2>1, <3>1, SetsItself DEF Kept
  <2> QED BY <2>2, <2>3
<1> QED BY <1>1, <1>8, <1>9, <1>10, ThrownKept, LeaveKept

(* Two ways to write the same function.                                    *)
LEMMA OutsSame ==
  ASSUME NEW v \in Handle, NEW e \in Handle, NEW x, v # e
  PROVE  [Outs EXCEPT ![e] = x, ![v] = Outs[v]] = [Outs EXCEPT ![e] = x]
<1>1. Outs = [h \in Handle |-> Outs[h]]
  BY DEF Outs
<1>2. PICK f : f = Outs
  OBVIOUS
<1> QED BY ONLY <1>1, <1>2, v \in Handle, e \in Handle, v # e
LEMMA OutsSwapped ==
  ASSUME NEW v \in Handle, NEW e \in Handle, NEW x, NEW y, v # e
  PROVE  [Outs EXCEPT ![e] = x, ![v] = y] = [Outs EXCEPT ![v] = y, ![e] = x]
<1>1. Outs = [h \in Handle |-> Outs[h]]
  BY DEF Outs
<1> QED BY ONLY <1>1, v \in Handle, e \in Handle, v # e

LEMMA SwapMixedKept ==
  ASSUME CInv, NEW v \in Handle, NEW e \in Handle, SwapMixed(v, e)
  PROVE  Kept
<1>1. Whole(v) /\ Whole(e) /\ box[v].valid = "value" /\ box[e].valid = "error" /\ v # e
  BY DEF SwapMixed
<1>2. PICK failed \in {0, 2, 3} :
        Thrown \/ Fault("terminated") \/ Boxes(SwapSteps(v, e, failed))
  BY DEF SwapMixed, Terminate
<1> DEFINE toValue == Assigned(MovedFrom(box[e]), "value", Content(box[v]), failed = 2)
           toError == Assigned(MovedFrom(box[v]), "error", Content(box[e]), failed = 3)
           last == IF failed = 2 THEN box[v] ELSE toError
<1>3. "value" \in Kind /\ "error" \in Kind
  BY DEF Kind
<1>4. /\ Outs[v] = <<"value", Content(box[v])>> /\ Content(box[v]) \in Datum
      /\ Outs[e] = <<"error", Content(box[e])>> /\ Content(box[e]) \in Datum
      /\ Outs[v] = Stands(box[v]) /\ Counted(box[v])
      /\ v \in Sum!Held /\ e \in Sum!Held
  BY <1>1, WholeStands
<1>5. /\ Sound(MovedFrom(box[v])) /\ Counted(MovedFrom(box[v])) /\ MovedFrom(box[v]).object # Gone
      /\ Sound(MovedFrom(box[e])) /\ Counted(MovedFrom(box[e])) /\ MovedFrom(box[e]).object # Gone
  BY <1>1, WholeStands, StandsMoved, LeftBehind
<1>6. /\ Stands(toValue) = (IF failed = 2 THEN Gone ELSE Outs[v]) /\ Counted(toValue)
      /\ Stands(toError) = (IF failed = 3 THEN Gone ELSE Outs[e]) /\ Counted(toError)
  BY <1>3, <1>4, <1>5, StandsAssigned
<1>7. SwapSteps(v, e, failed) = [box EXCEPT ![e] = toValue, ![v] = last]
  BY <1>1 DEF SwapSteps, CInv, IInv
<1> HIDE DEF toValue, toError
<1>8. /\ Counted(last)
      /\ Stands(last) = CASE failed = 2 -> Outs[v] [] failed = 3 -> Gone [] OTHER -> Outs[e]
  BY <1>4, <1>6
<1> HIDE DEF last
<1>9. CASE Boxes(SwapSteps(v, e, failed))
  <2>1. Outs' = [Outs EXCEPT ![e] = Stands(toValue), ![v] = Stands(last)] /\ AllCounted'
    <3>1. Boxes([box EXCEPT ![e] = toValue, ![v] = last])
      BY <1>7, <1>9
    <3> QED BY <1>6, <1>8, <3>1, TwoKept
  <2>2. CASE failed = 0
    <3>1. Outs' = [Outs EXCEPT ![e] = Outs[v], ![v] = Outs[e]]
      BY <1>6, <1>8, <2>1, <2>2
    <3> QED BY <1>1, <1>4, <2>1, <3>1, AbstractTwo DEF Kept
  <2>3. CASE failed = 2
    <3>1. Stands(toValue) = Gone /\ Stands(last) = Outs[v]
      BY <1>6, <1>8, <2>3
    <3>2. Outs' = [Outs EXCEPT ![e] = Gone, ![v] = Outs[v]]
      BY <2>1, <3>1
    <3>3. Outs' = [Outs EXCEPT ![e] = Gone]
      BY <1>1, <3>2, OutsSame
    <3> QED BY <1>4, <2>1, <3>3, AbstractOne DEF Kept
  <2>4. CASE failed = 3
    <3>1. Stands(toValue) = Outs[v] /\ Stands(last) = Gone
      BY <1>6, <1>8, <2>4
    <3>2. Outs' = [Outs EXCEPT ![e] = Outs[v], ![v] = Gone]
      BY <2>1, <3>1
    <3>3. Outs' = [Outs EXCEPT ![v] = Gone, ![e] = Outs[v]]
      BY <1>1, <3>2, OutsSwapped
    <3> QED BY <1>1, <1>4, <2>1, <3>3, AbstractTwo DEF Kept
  <2> QED BY <2>2, <2>3, <2>4
<1> QED BY <1>2, <1>9, ThrownKept, FaultKept

LEMMA AccessKept ==
  ASSUME CInv, NEW h \in Handle, FailedAccess(h) \/ Take(h)
  PROVE  Kept
<1>1. Whole(h) /\ (Thrown \/ Boxes([box EXCEPT ![h] = MovedFrom(box[h])]))
  BY DEF FailedAccess, Take
<1> QED BY <1>1, ThrownKept, LeaveKept

LEMMA UncheckedKept ==
  ASSUME CInv, NEW h \in Handle, NEW kind \in Kind, Unchecked(h, kind)
  PROVE  Kept
<1>1. Whole(h) /\ (\/ Fault("unchecked") \/ Thrown
                  \/ Boxes([box EXCEPT ![h] = MovedFrom(box[h])]))
  BY DEF Unchecked
<1> QED BY <1>1, FaultKept, ThrownKept, LeaveKept

LEMMA DropKept == ASSUME CInv, NEW h \in Handle, Drop(h) \/ Touch(h) PROVE Kept
<1>1. Boxes([box EXCEPT ![h] = None]) \/ Fault("undefined")
  BY DEF Drop, Touch, Undefined
<1>2. Counted(None) /\ Stands(None) = <<"none">>
  BY DEF Counted, Stands, None
<1>3. CASE Boxes([box EXCEPT ![h] = None])
  BY <1>2, <1>3, OneKept, AbstractDiscard DEF Kept
<1> QED BY <1>1, <1>3, FaultKept
-----------------------------------------------------------------------------
LEMMA StepsKept == CInv /\ [Next]_vars => CInv' /\ Kept
<1> SUFFICES ASSUME CInv, [Next]_vars PROVE CInv' /\ Kept
  OBVIOUS
<1>1. \A kind \in Kind : Data(kind) \subseteq Datum
  BY DEF Data, Datum, Kind
<1>2. ASSUME NEW h \in Handle, NEW kind \in Kind, NEW d \in Data(kind),
             New(h, kind, d) \/ ConvertNew(h, kind, d) \/ Assign(h, kind, d)
      PROVE  Kept
  BY <1>1, <1>2, NewKept, ConvertNewKept, AssignKept
<1>3. ASSUME NEW h \in Handle, NEW g \in Handle,
             \/ CopyNew(h, g) \/ MoveNew(h, g) \/ CopyAssign(h, g) \/ MoveAssign(h, g)
             \/ SwapSame(h, g) \/ SwapMixed(h, g)
      PROVE  Kept
  BY <1>3, CopyNewKept, CopyAssignKept, MoveAssignKept, SwapSameKept, SwapMixedKept
<1>4. ASSUME NEW h \in Handle,
             \/ NewDefault(h) \/ FailedAccess(h) \/ Take(h) \/ Drop(h) \/ Touch(h)
      PROVE  Kept
  BY <1>4, NewDefaultKept, AccessKept, DropKept
<1>8. ASSUME NEW h \in Handle, NEW kind \in Kind, Unchecked(h, kind) PROVE Kept
  BY <1>8, UncheckedKept
<1>5. ASSUME UNCHANGED vars PROVE Kept
  <2>1. box' = box /\ type' = type
    BY <1>5 DEF vars
  <2> QED BY <2>1, SameKept
<1>6. Kept
  BY <1>2, <1>3, <1>4, <1>5, <1>8 DEF Next
<1>7. IInv'
  BY Steps DEF CInv
<1> QED BY <1>6, <1>7 DEF Kept, CInv

LEMMA StartKept == Init => CInv /\ Sum!Init
<1> SUFFICES ASSUME Init PROVE CInv /\ Sum!Init
  OBVIOUS
<1>1. CInv
  BY Start DEF CInv, AllCounted, Counted, Init, None
<1>2. Sum!Init
  <2>1. \A h \in Handle : Outcome(h) = <<"none">>
    BY DEF Init, Outcome, Exists, Whole, None
  <2> QED BY <2>1 DEF Sum!Init
<1> QED BY <1>1, <1>2

(* An Expected counts one object while it holds one and none otherwise,    *)
(* and beside it the default value that its copy, move or conversion was   *)
(* built over, if T has a default and a destructor: assignments, swaps and *)
(* exceptions destroy every other object once.                             *)
THEOREM DestroyedOnce == Spec => []Balanced
<1>1. Spec => []CInv
  BY StartKept, StepsKept, PTL DEF Spec
<1> QED BY <1>1, CountsBalance, PTL

(* Whatever the constructors of T and E do, each operation of an Expected  *)
(* is one step of Outcomes, or none: no other result changes, a result is  *)
(* spoiled only by an exception, and a moved-from one keeps its kind.      *)
THEOREM RefinesOutcomes == Spec => ImplementsOutcomes
<1>1. CInv /\ [Next]_vars => [Sum!Next]_Outs
  BY StepsKept DEF Kept
<1>2. CInv /\ [Next]_vars => CInv'
  BY StepsKept
<1> QED BY <1>1, <1>2, StartKept, PTL DEF Spec, ImplementsOutcomes, Sum!Spec, Outs
=============================================================================
