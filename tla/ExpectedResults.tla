--------------------------- MODULE ExpectedResults ---------------------------
(***************************************************************************)
(* Results: Expected<T, E> (Expected.h) keeps a value or an error in the   *)
(* same storage, and a flag that says which one.                           *)
(* To assign is to destroy what is there, to set the flag, and to construct*)
(* the new object in place; constructors of T and E may throw.             *)
(***************************************************************************)
EXTENDS Integers

CONSTANTS Handle,       \* the Expected variables of the program
          Value, Error, \* what they can hold
          Type          \* parameters <T, E>: see Parameters

Moved == "moved"        \* the state of an object that was moved from
Default == "default"    \* the object a default constructor makes
Datum == Value \union Error \union {Moved, Default}
Kind == {"value", "error"}

(* A pair T, E: whether both are trivially destructible, whether T has a   *)
(* default constructor, and which constructors throw.                      *)
Parameters == [trivial : BOOLEAN, default : BOOLEAN,
               throws : SUBSET (Kind \X {"copy", "move"})]
ASSUME TypeAssumption == Type \subseteq Parameters

VARIABLES
  type,     \* T and E of the program
  box,      \* each Expected: its flag, the object in its storage, how many
            \* objects were constructed and not destroyed there, and how many
            \* of those lie under another object
  fault     \* "terminated" by an exception that leaves a noexcept function;
            \* "undefined" use of storage without its object; "self-assigned";
            \* "unchecked" use of a value as an error, or of an error as a value

vars == <<type, box, fault>>

Gone == <<"gone">>      \* storage without a live object
Object == Kind \X Datum
None == [valid |-> "none", object |-> Gone, live |-> 0, under |-> 0] \* no variable
Exists(h) == box[h].valid # "none"
Whole(h) == Exists(h) /\ box[h].object # Gone
Content(b) == b.object[2]

Fails(kind, how) == IF <<kind, how>> \in type.throws THEN BOOLEAN ELSE {FALSE}

(* construct: the flag is set, then the constructor runs. destroy runs the *)
(* destructor the flag names.                                              *)
Empty == [valid |-> "value", object |-> Gone, live |-> 0, under |-> 0]
ConstructThenFlag(b, kind, d, fails) ==          \* the flag is set last
  IF fails THEN b
  ELSE [valid |-> kind, object |-> <<kind, d>>, live |-> b.live + 1, under |-> b.under]
Construct(b, kind, d, fails) ==
  [valid |-> kind, object |-> IF fails THEN Gone ELSE <<kind, d>>,
   live |-> IF fails THEN b.live ELSE b.live + 1, under |-> b.under]
NotDestroyed(b) == b
Destroy(b) == [valid |-> b.valid, object |-> Gone, live |-> b.live - 1, under |-> b.under]
MovedFromDestroyed(b) == Destroy(b)              \* the source is destroyed as well
MovedFrom(b) == [b EXCEPT !.object = <<b.object[1], Moved>>]
Assigned(b, kind, d, fails) == Construct(Destroy(b), kind, d, fails)

(* The constructors that take another Expected default-construct their     *)
(* storage, which makes a value if T has a default, and construct over it. *)
(* A value without a destructor is not missed.                             *)
BuriesDefault == type.default /\ ~type.trivial
Base == LET buried == IF BuriesDefault THEN 1 ELSE 0
        IN  [valid |-> "value", object |-> Gone, live |-> buried, under |-> buried]

Boxes(b) == box' = b /\ UNCHANGED <<type, fault>>
Fault(f) == fault' = f /\ UNCHANGED <<type, box>>
Terminate == Fault("terminated")
Undefined == Fault("undefined")
SelfAssigned == Fault("self-assigned")
Thrown == Boxes(box)

(* The base of trivially destructible types is noexcept throughout.        *)
Escapes == IF type.trivial THEN Terminate ELSE Thrown
-----------------------------------------------------------------------------
Init ==
  /\ type \in Type
  /\ box = [h \in Handle |-> None]
  /\ fault = "none"

(* Expected(U&&), Expected(in_place, ...), Expected(Unexpected), and the   *)
(* default constructor, which is assumed not to throw: the object is       *)
(* constructed with the storage.                                           *)
New(h, kind, d) ==
  /\ ~Exists(h)
  /\ \E fails \in Fails(kind, "copy") :
       IF fails THEN Escapes
       ELSE Boxes([box EXCEPT ![h] = Construct(Empty, kind, d, FALSE)])
NewDefault(h) ==
  /\ ~Exists(h) /\ type.default
  /\ Boxes([box EXCEPT ![h] = Construct(Empty, "value", Default, FALSE)])

CopyNew(h, g) ==
  /\ ~Exists(h) /\ Whole(g)
  /\ \E fails \in Fails(box[g].valid, "copy") :
       IF fails THEN Escapes
       ELSE Boxes([box EXCEPT ![h] = Construct(Base, box[g].valid, Content(box[g]), FALSE)])
MoveNew(h, g) ==
  /\ ~Exists(h) /\ Whole(g)
  /\ \E fails \in Fails(box[g].valid, "move") :
       IF fails THEN Terminate
       ELSE Boxes([box EXCEPT ![h] = Construct(Base, box[g].valid, Content(box[g]), FALSE),
                              ![g] = MovedFrom(box[g])])

(* From an Expected of other types: here the base is complete when the     *)
(* constructor throws, and is destroyed.                                   *)
ConvertNew(h, kind, d) ==
  /\ ~Exists(h)
  /\ \E fails \in Fails(kind, "copy") :
       CASE ~fails -> Boxes([box EXCEPT ![h] = Construct(Base, kind, d, FALSE)])
         [] fails /\ type.trivial -> Terminate
         [] OTHER -> Undefined          \* ~base destroys what is not there

(* operator=(U&&), operator=(Unexpected), emplace.                         *)
Assign(h, kind, d) ==
  /\ Whole(h)
  /\ \E fails \in Fails(kind, "copy") :
       IF fails /\ type.trivial THEN Terminate
       ELSE Boxes([box EXCEPT ![h] = Assigned(@, kind, d, fails)])

(* From another Expected or from itself, which is not asked: then destroy  *)
(* takes the object that the constructor reads, if it has a destructor.    *)
CopyAssign(h, g) ==
  /\ Whole(h) /\ Whole(g)
  /\ \/ /\ h = g /\ ~type.trivial
        /\ SelfAssigned
     \/ /\ h # g \/ type.trivial
        /\ \E fails \in Fails(box[g].valid, "copy") :
             IF fails /\ type.trivial THEN Terminate
             ELSE Boxes([box EXCEPT ![h] = Assigned(@, box[g].valid, Content(box[g]), fails)])
MoveAssign(h, g) ==
  /\ Whole(h) /\ Whole(g)
  /\ \/ /\ h = g /\ ~type.trivial
        /\ SelfAssigned
     \/ /\ h # g \/ type.trivial
        /\ \E fails \in Fails(box[g].valid, "move") :
             IF fails THEN Terminate
             ELSE Boxes([box EXCEPT ![h] = Assigned(@, box[g].valid, Content(box[g]), FALSE),
                                    ![g] = MovedFrom(box[g])])
-----------------------------------------------------------------------------
(* Two of the same kind: std::swap moves three times, and stops where one  *)
(* of the moves throws.                                                    *)
SwapSame(h, g) ==
  LET a == box[h]
      b == box[g]
      Exchanged == [box EXCEPT ![h] = [a EXCEPT !.object = b.object],
                               ![g] = [b EXCEPT !.object = a.object]]
      First == [box EXCEPT ![h] = MovedFrom(a)]
      Second == [box EXCEPT ![h] = [a EXCEPT !.object = b.object], ![g] = MovedFrom(b)]
  IN  /\ Whole(h) /\ Whole(g) /\ a.valid = b.valid
      /\ \E fails \in Fails(a.valid, "move") :
           IF fails THEN Thrown \/ Boxes(First) \/ Boxes(Second) ELSE Boxes(Exchanged)

(* A value and an error: the error is moved out, the other gets the value, *)
(* and then the error is assigned (the other order swaps the operands).    *)
SwapStepsUnsaved(v, e, failed) ==       \* the error is moved after it is gone
  LET toValue == Assigned(box[e], "value", Content(box[v]), failed = 2)
      toError == Assigned(MovedFrom(box[v]), "error", Moved, failed = 3)
  IN  [box EXCEPT ![e] = toValue, ![v] = IF failed = 2 THEN @ ELSE toError]
SwapSteps(v, e, failed) ==
  LET toValue == Assigned(MovedFrom(box[e]), "value", Content(box[v]), failed = 2)
      toError == Assigned(MovedFrom(box[v]), "error", Content(box[e]), failed = 3)
  IN  [box EXCEPT ![e] = toValue, ![v] = IF failed = 2 THEN @ ELSE toError]
SwapMixed(v, e) ==
  /\ Whole(v) /\ Whole(e) /\ box[v].valid = "value" /\ box[e].valid = "error"
  /\ \E first, third \in Fails("error", "move"), second \in Fails("value", "move") :
       LET failed == CASE first -> 1 [] ~first /\ second -> 2
                       [] ~first /\ ~second /\ third -> 3 [] OTHER -> 0
       IN  CASE failed = 1 -> Thrown
             [] failed \in {2, 3} /\ type.trivial -> Terminate
             [] OTHER -> Boxes(SwapSteps(v, e, failed))

(* value() of a result that is not const takes the error into the exception*)
(* it throws; of an rvalue it moves the value.                             *)
FailedAccess(h) ==
  /\ Whole(h) /\ box[h].valid = "error"
  /\ \E fails \in Fails("error", "move") :
       IF fails THEN Thrown ELSE Boxes([box EXCEPT ![h] = MovedFrom(@)])
Take(h) ==
  /\ Whole(h) /\ box[h].valid = "value"
  /\ \E fails \in Fails("value", "move") :
       IF fails THEN Thrown ELSE Boxes([box EXCEPT ![h] = MovedFrom(@)])

(* operator-> and error() do not ask the flag; what they name may be moved *)
(* from.                                                                   *)
Unchecked(h, kind) ==
  /\ Whole(h)
  /\ IF box[h].valid # kind THEN Fault("unchecked")
     ELSE \E fails \in Fails(kind, "move") :
            IF fails THEN Thrown ELSE Boxes([box EXCEPT ![h] = MovedFrom(@)])

(* The destructor; and storage whose object an exception spoiled: to       *)
(* destroy it, to assign to it and to read it are all undefined.           *)
Drop(h) == Whole(h) /\ Boxes([box EXCEPT ![h] = None])
Touch(h) == Exists(h) /\ ~Whole(h) /\ Undefined

Data(kind) == IF kind = "value" THEN Value ELSE Error
Next ==
  /\ fault = "none"
  /\ \/ \E h \in Handle, kind \in Kind : \E d \in Data(kind) :
          New(h, kind, d) \/ ConvertNew(h, kind, d) \/ Assign(h, kind, d)
     \/ \E h, g \in Handle : \/ CopyNew(h, g) \/ MoveNew(h, g)
                             \/ CopyAssign(h, g) \/ MoveAssign(h, g)
                             \/ SwapSame(h, g) \/ SwapMixed(h, g)
     \/ \E h \in Handle, kind \in Kind : Unchecked(h, kind)
     \/ \E h \in Handle : NewDefault(h) \/ FailedAccess(h) \/ Take(h) \/ Drop(h) \/ Touch(h)

Spec == Init /\ [][Next]_vars
-----------------------------------------------------------------------------
BoxTypeOK ==
  /\ type \in Type
  /\ box \in [Handle -> [valid : Kind \union {"none"}, object : Object \union {Gone},
                     live : Int, under : {0, 1}]]
  /\ \A h \in Handle : ~Exists(h) => box[h] = None

(* What an Expected holds is what its flag says, and an object is missing  *)
(* only if some constructor of that kind throws (Expected.h:1253,          *)
(* construct sets the flag first): otherwise a destructor would run on the *)
(* wrong member of the union.                                              *)
HoldsWhatItSays ==
  \A h \in Handle : Exists(h) =>
    IF Whole(h) THEN box[h].object[1] = box[h].valid
    ELSE /\ ~type.trivial
         /\ \E how \in {"copy", "move"} : <<box[h].valid, how>> \in type.throws

(* What makes an operation undefined or ends the program, whatever came    *)
(* before: std::terminate takes a constructor that throws, in a trivial    *)
(* type or while moving; a missing object takes one that throws and a type *)
(* with a destructor.  Without either there is no fault but to assign a    *)
(* result with a destructor to itself (Expected.h:1178-1204 do not ask),   *)
(* and to use a value as an error or an error as a value with operator->   *)
(* and error().                                                            *)
SafeWithoutThrow ==
  /\ fault = "terminated" => \/ type.trivial /\ type.throws # {}
                             \/ \E kind \in Kind : <<kind, "move">> \in type.throws
  /\ fault = "undefined" => ~type.trivial /\ type.throws # {}
  /\ fault = "self-assigned" => ~type.trivial

(* Every object is destroyed once: as many are constructed in the storage  *)
(* and not destroyed as it holds, but for the default value that a copy, a *)
(* move or a conversion built its object over, which is never destroyed    *)
(* (Expected.h:177, 454-476): one at most, whatever happens to the result, *)
(* and none if T has no default or no destructor.                          *)
Balanced ==
  \A h \in Handle : Exists(h) =>
    /\ box[h].live = (IF Whole(h) THEN 1 ELSE 0) + box[h].under
    /\ box[h].under \in (IF BuriesDefault THEN {0, 1} ELSE {0})

(* Results are values, errors, or spoiled by an exception: see Outcomes.   *)
Outcome(h) ==
  CASE ~Exists(h) -> <<"none">> [] Whole(h) -> <<box[h].valid, Content(box[h])>> [] OTHER -> Gone
Sum == INSTANCE Outcomes WITH Datum <- Datum, Moved <- Moved, None <- <<"none">>, Spoiled <- Gone,
                              outcome <- [h \in Handle |-> Outcome(h)]
ImplementsOutcomes == Sum!Spec
=============================================================================
