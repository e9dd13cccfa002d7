----------------------------- MODULE Preferences -----------------------------
(***************************************************************************)
(* rst::Preferences on a MemoryPreferencesStore: preferences are           *)
(* registered with a path and a default value, which fixes their type, and *)
(* then set and read by path.  A step stands for a call whose assertions   *)
(* hold; the others end the program.                                       *)
(***************************************************************************)
EXTENDS Value

CONSTANTS Paths,      \* the paths of preferences
          Settable,   \* the [kind, x] that Set*() is called with
          Defaults,   \* the [kind, x] that Register*() is called with
          Contents,   \* the values that they make, and all values in them
          MaxDepth,   \* bound: how deep in a value TypeNamesTheMember looks
          Cloned(_)   \* Value::Clone()

Kinds == {"Bool", "Int", "Double", "String", "Array", "Object"}

ASSUME PreferencesAssumption ==
  /\ Paths \subseteq Seq(Nat) \ {<<>>}
  /\ \A s \in Settable \cup Defaults : s.kind \in Kinds /\ Made(s.kind, s.x) \in Contents
  /\ \A v \in Contents : IsSound(v) /\ Children(v) \subseteq Contents
  /\ MaxDepth \in Nat

VARIABLES defaults,   \* path_to_default_value_map_
          values,     \* the store: MemoryPreferencesStore::values_
          last        \* history: what each path was last set to

vars == <<defaults, values, last>>

Registered == DOMAIN defaults

Init ==
  /\ defaults = [p \in {} |-> nullptr]
  /\ values = Default("kObject")
  /\ last = [p \in {} |-> nullptr]

-----------------------------------------------------------------------------

RegisterPreference(path, default) ==
  /\ path \notin Registered
  /\ default.type # "kNull"
  /\ defaults' = [p \in Registered \cup {path} |->
                    IF p = path THEN Constructed(default) ELSE defaults[p]]
  /\ UNCHANGED <<values, last>>

\* RegisterBoolPreference(), RegisterIntPreference(), ...
Register(kind, path, x) == RegisterPreference(path, Made(kind, x))

\* MemoryPreferencesStore::SetValue() and GetValue()
StoreValue(path, value) ==
  /\ values' = SetPath(values, path, value)
  /\ last' = [p \in DOMAIN last \cup {path} |->
                IF p = path THEN value ELSE last[p]]

StoredValue(path) == FindPath(values, path)

\* Mutant: the type is not compared.
SetAnyValue(path, value) ==
  /\ path \in Registered
  /\ StoreValue(path, value)
  /\ UNCHANGED defaults

SetValue(path, value) ==
  /\ path \in Registered
  /\ value.type # "kNull"
  /\ defaults[path].type = value.type
  /\ StoreValue(path, value)
  /\ UNCHANGED defaults

\* SetBool(), SetInt(), ...
Set(kind, path, x) == SetValue(path, Made(kind, x))

\* The assertions of GetBool(), GetInt(), ... hold before the store is read.
MayGet(kind, path) == path \in Registered /\ IsOf(defaults[path], kind)

\* The value that they then read.
Read(path) == IF StoredValue(path) = nullptr THEN defaults[path] ELSE StoredValue(path)

\* GetBool(), GetInt(), ...: no result stands for a failed assertion.
GetPreference(kind, path) ==
  IF MayGet(kind, path) /\ IsOf(Read(path), kind)
  THEN {Get(Read(path), kind)} ELSE {}

-----------------------------------------------------------------------------
(* What a program does with a preference it has read. *)

Given == {Made(s.kind, s.x) : s \in Settable}

\* It takes a clone of an object preference apart, or one of its entries out,
\* and sets a preference to the result.  Only results are considered that
\* other calls set as well.
SetFromObject(path, from, key) ==
  \E o \in GetPreference("Object", from) :
    LET clone == Cloned(Object(o))
    IN  \/ RemoveKey(clone, key) \in Given /\ SetValue(path, RemoveKey(clone, key))
        \/ \E kind \in {"Bool", "Int", "Double", "String"} :
             LET entry == FindKeyOf(clone, key, kind)
             IN  /\ entry # nullptr
                 /\ Made(kind, Get(entry, kind)) \in Given
                 /\ Set(kind, path, Get(entry, kind))

Next ==
  \E p \in Paths :
     \/ \E d \in Defaults : MayBeMade(d.kind, d.x) /\ Register(d.kind, p, d.x)
     \/ \E s \in Settable : MayBeMade(s.kind, s.x) /\ Set(s.kind, p, s.x)
     \/ \E q \in Paths : \E k \in Range(q) : SetFromObject(p, q, k)

Spec == Init /\ [][Next]_vars

-----------------------------------------------------------------------------

\* No other preference that was ever set is above or below this one.
Alone(path) ==
  \A p \in DOMAIN last \ {path} : ~IsPrefix(p, path) /\ ~IsPrefix(path, p)

\* Setting preferences at other paths, siblings included, neither changes nor
\* hides a preference: it reads as what it was last set to, or as its default.
OwnValueReadBack ==
  \A p \in Registered : Alone(p) =>
    Read(p) = IF p \in DOMAIN last THEN last[p] ELSE defaults[p]

\* A getter whose own assertions hold runs into the one of Value::Get* in one
\* case only, and then for sure: GetInt() where the preference was set to a number
\* that is no int, which SetDouble() accepts of one that was registered as an int.
\* That is unless the path of another preference is above or below.
GettersDoNotAssert ==
  \A p \in Registered, kind \in Kinds :
    MayGet(kind, p) /\ Alone(p) =>
      (GetPreference(kind, p) = {}
         <=> kind = "Int" /\ p \in DOMAIN last /\ ~IsOf(last[p], "Int"))

\* A value and the values in it.
Parts(value) ==
  LET level[n \in 0..MaxDepth] ==
        IF n = 0 THEN {value} ELSE UNION {Children(v) : v \in level[n - 1]}
  IN  UNION {level[n] : n \in 0..MaxDepth}

\* Whatever was assigned over whatever else on the way, type_ names the one
\* member of the union that is alive in every value of the store: none leaks
\* and the destructor will find the right one.
TypeNamesTheMember == \A v \in Parts(values) : IsSound(v)

\* What PathStore tells apart: an object is one whatever it holds.
Shape(value) ==
  CASE value = nullptr -> [type |-> "nothing"]
    [] value # nullptr /\ value.type = "kObject" -> [type |-> "kObject"]
    [] OTHER -> value

Contained(value, path) ==
  CASE path = <<>> -> Shape(value)
    [] path # <<>> /\ value.type = "kObject" -> Shape(FindPath(value, path))
    [] OTHER -> [type |-> "nothing"]

Store == INSTANCE PathStore WITH
  Values <- Given, Inside <- Contained,
  AnObject <- [type |-> "kObject"], Nothing <- [type |-> "nothing"],
  stored <- last,
  found <- [p \in Paths |-> Shape(FindPath(values, p))]

\* Values that are stored at any paths, also at paths above and below others,
\* are found as PathStore says.
ImplementsPathStore == Store!Spec
=============================================================================
