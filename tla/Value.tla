------------------------------- MODULE Value ---------------------------------
(***************************************************************************)
(* rst::Value, a JSON value: type_ and a union with one member alive.  A   *)
(* Value is a record of type_ and of the members of the union whose life   *)
(* has begun, so that a member that is not destroyed is seen to leak.      *)
(*                                                                         *)
(* A string, or a key, is a number: its place in the alphabetical order,   *)
(* the empty one being 0.  A dotted path is a non-empty sequence of keys.  *)
(* A double is an integer that counts fractions of 1 / Unit.  What the     *)
(* containers of the standard library do with their elements is theirs:    *)
(* a map moves its nodes and a vector its storage.                         *)
(***************************************************************************)
EXTENDS Integers, Sequences, FiniteSets, SequencesExt

CONSTANTS Unit,             \* how much a number grows from 1.0 to 2.0
          Epsilon,          \* numeric_limits<double>::epsilon(), at least
          IntMin, IntMax,   \* std::numeric_limits<int>
          MaxSafeInteger,   \* kMaxSafeInteger
          nullptr           \* not a value: it has no type

ASSUME ValueAssumption ==
  /\ {Unit, Epsilon, MaxSafeInteger} \subseteq Nat \ {0}
  /\ {IntMin, IntMax} \subseteq -MaxSafeInteger..MaxSafeInteger
  /\ Epsilon <= Unit
  /\ "type" \notin DOMAIN nullptr

Types == <<"kNull", "kBool", "kNumber", "kString", "kArray", "kObject">>

MemberOf == [kBool |-> "bool_", kNumber |-> "number_", kString |-> "string_",
             kArray |-> "array_", kObject |-> "object_"]

\* The members that need no destructor.
Trivial == {"bool_", "number_"}

\* The members of a value that has just been made of type t.
Members(t) == IF t = "kNull" THEN {} ELSE {MemberOf[t]}

\* type_ names the one member that is alive.
IsSound(value) ==
  /\ value.type \in Range(Types)
  /\ value = [f \in {"type"} \cup Members(value.type) |-> value[f]]

\* The values in an array or an object.
Children(value) ==
  CASE value.type = "kArray" -> Range(value.array_)
    [] value.type = "kObject" -> Range(value.object_)
    [] OTHER -> {}

-----------------------------------------------------------------------------
(* Construction, assignment and destruction *)

Bool(b) == [type |-> "kBool", bool_ |-> b]
Number(n) == [type |-> "kNumber", number_ |-> n]
String(s) == [type |-> "kString", string_ |-> s]
Array(a) == [type |-> "kArray", array_ |-> a]
Object(o) == [type |-> "kObject", object_ |-> o]

Default(t) ==
  CASE t = "kNull" -> [type |-> "kNull"]
    [] t = "kBool" -> Bool(FALSE)
    [] t = "kNumber" -> Number(0)
    [] t = "kString" -> String(0)
    [] t = "kArray" -> Array(<<>>)
    [] t = "kObject" -> Object([k \in {} |-> nullptr])

\* The constructor for an argument of each type.  That of an int64_t asserts
\* that the double is exact.
Made(kind, x) ==
  CASE kind = "Bool" -> Bool(x)
    [] kind = "Int" -> Number(x * Unit)
    [] kind = "Double" -> Number(x)
    [] kind = "String" -> String(x)
    [] kind = "Array" -> Array(x)
    [] kind = "Object" -> Object(x)

MayBeMade(kind, x) == kind = "Int" => x \in -MaxSafeInteger..MaxSafeInteger

\* MoveConstruct(): type_ and the member of `other'.  A member of `this' that
\* needs a destructor stays alive if nobody has called it.
MoveConstruct(this, other) ==
  [f \in (DOMAIN this \ Trivial) \cup DOMAIN other |->
      IF f \in DOMAIN other THEN other[f] ELSE this[f]]

\* The constructor, on raw memory.
Constructed(other) == MoveConstruct(Default("kNull"), other)

MoveAssign(this, rhs) ==
  [f \in DOMAIN this |-> IF f \in Members(rhs.type) THEN rhs[f] ELSE this[f]]

\* Mutant: an array is not destroyed.
CleanupStringAndObject(this) ==
  [f \in DOMAIN this \ (Members(this.type) \ ({"array_"} \cup Trivial)) |-> this[f]]

Cleanup(this) == [f \in DOMAIN this \ (Members(this.type) \ Trivial) |-> this[f]]

Assign(this, rhs) ==
  IF this.type = rhs.type THEN MoveAssign(this, rhs)
  ELSE MoveConstruct(Cleanup(this), rhs)

-----------------------------------------------------------------------------
(* Typed access *)

\* IsBool(), IsInt64(), IsInt(), IsNumber(), IsString(), IsArray(), IsObject()
IsOf(value, kind) ==
  LET whole(least, most) ==
        /\ value.type = "kNumber" /\ value.number_ % Unit = 0
        /\ value.number_ >= least * Unit /\ value.number_ <= most * Unit
  IN CASE kind = "Bool" -> value.type = "kBool"
       [] kind = "Int64" -> whole(-MaxSafeInteger, MaxSafeInteger)
       [] kind = "Int" -> whole(IntMin, IntMax)
       [] kind = "Double" -> value.type = "kNumber"
       [] kind = "String" -> value.type = "kString"
       [] kind = "Array" -> value.type = "kArray"
       [] kind = "Object" -> value.type = "kObject"

\* GetBool(), GetInt(), ..., of a value for which IsOf() holds.
Get(value, kind) ==
  LET x == value[MemberOf[value.type]]
  IN  IF kind \in {"Int", "Int64"} THEN x \div Unit ELSE x

FindKey(value, key) ==
  IF key \in DOMAIN value.object_ THEN value.object_[key] ELSE nullptr

FindKeyOfType(value, key, type) ==
  LET result == FindKey(value, key)
  IN IF result # nullptr /\ result.type = type THEN result ELSE nullptr

\* FindBoolKey(), FindIntKey(), ...: the value whose content they return.
FindKeyOf(value, key, kind) ==
  LET result == FindKey(value, key)
  IN IF result # nullptr /\ IsOf(result, kind) THEN result ELSE nullptr

-----------------------------------------------------------------------------
(* Keys and paths *)

\* Mutant: insert(), which keeps what there is.
InsertKey(value, key, new) ==
  [value EXCEPT !.object_ = [k \in DOMAIN @ \cup {key} |->
      IF k \in DOMAIN @ THEN @[k] ELSE Constructed(new)]]

\* insert_or_assign()
SetKey(value, key, new) ==
  [value EXCEPT !.object_ = [k \in DOMAIN @ \cup {key} |->
      IF k # key THEN @[k]
      ELSE IF k \in DOMAIN @ THEN Assign(@[k], new) ELSE Constructed(new)]]

RemoveKey(value, key) ==
  [value EXCEPT !.object_ = [k \in DOMAIN @ \ {key} |-> @[k]]]

\* The object in which the last key of the path is looked up.
FindPath(value, path) ==
  LET object[i \in 1..Len(path)] ==
        IF i = 1 THEN value
        ELSE IF object[i - 1] = nullptr THEN nullptr
        ELSE FindKeyOfType(object[i - 1], path[i - 1], "kObject")
  IN IF object[Len(path)] = nullptr THEN nullptr
     ELSE FindKey(object[Len(path)], path[Len(path)])

\* Mutant: every object on the way is made anew.
SetPathAfresh(value, path, new) ==
  LET set[i \in 1..Len(path)] ==
        SetKey(IF i = 1 THEN value ELSE Default("kObject"), path[i],
               IF i = Len(path) THEN new ELSE set[i + 1])
  IN set[1]

\* `object' are the objects on the way down, created where there is none;
\* `set' is what becomes of each.
SetPath(value, path, new) ==
  LET child(object, key) == FindKeyOfType(object, key, "kObject")
      object[i \in 1..Len(path)] ==
        IF i = 1 THEN value
        ELSE IF child(object[i - 1], path[i - 1]) # nullptr
          THEN child(object[i - 1], path[i - 1])
          ELSE Default("kObject")
      set[i \in 1..Len(path)] ==
        SetKey(object[i], path[i], IF i = Len(path) THEN new ELSE set[i + 1])
  IN set[1]
=============================================================================
