--------------------------- MODULE PreferencesProofs --------------------------
(***************************************************************************)
(* Proofs about Preferences: what SetPath() and FindPath() do to each      *)
(* other at paths of any length, that every value in the store is sound,   *)
(* and that preferences read back what was set.                            *)
(***************************************************************************)
EXTENDS Preferences, SequenceTheorems, WellFoundedInduction, TLAPS

-----------------------------------------------------------------------------
(* Numbers *)

LEMMA LeastNumber ==
  ASSUME NEW S \in SUBSET Nat, S # {}
  PROVE  \E m \in S : \A n \in S : m <= n
<1>1. PICK m \in S : \A n \in S : <<n, m>> \notin OpToRel(<, Nat)
  BY WFMin, NatLessThanWellFounded
<1>2. \A n \in S : ~(n < m)
  BY <1>1 DEF OpToRel
<1> QED  BY <1>2

\* Induction, about the set of the numbers that have a property.
LEMMA InductiveSet ==
  ASSUME NEW P \in SUBSET Nat, 0 \in P, \A n \in P : n + 1 \in P
  PROVE  \A n \in Nat : n \in P
<1>1. SUFFICES ASSUME Nat \ P # {} PROVE FALSE
  OBVIOUS
<1>2. PICK m \in Nat \ P : \A n \in Nat \ P : m <= n
  BY <1>1, LeastNumber
<1>3. m # 0 /\ m - 1 \in Nat
  OBVIOUS
<1>4. m - 1 \in P
  BY <1>2, <1>3
<1> QED  BY <1>3, <1>4

-----------------------------------------------------------------------------
(* Values *)

LEMMA TypesAre ==
  ASSUME NEW t
  PROVE  t \in Range(Types)
           <=> t \in {"kNull", "kBool", "kNumber", "kString", "kArray", "kObject"}
<1>1. DOMAIN Types = 1..6
  BY DEF Types
<1>2. /\ Types[1] = "kNull" /\ Types[2] = "kBool" /\ Types[3] = "kNumber"
      /\ Types[4] = "kString" /\ Types[5] = "kArray" /\ Types[6] = "kObject"
  BY DEF Types
<1> QED  BY <1>1, <1>2 DEF Range

LEMMA MembersAre ==
  ASSUME NEW t, t \in Range(Types)
  PROVE  Members(t) \in {{}, {"bool_"}, {"number_"}, {"string_"}, {"array_"}, {"object_"}}
BY TypesAre DEF Members, MemberOf

LEMMA MembersOfObject == Members("kObject") = {"object_"}
BY DEF Members, MemberOf

LEMMA SoundDomain ==
  ASSUME NEW v, IsSound(v)
  PROVE  DOMAIN v = {"type"} \cup Members(v.type) /\ v.type \in Range(Types)
BY DEF IsSound

LEMMA SoundEqual ==
  ASSUME NEW v, NEW w, IsSound(v), w = [f \in DOMAIN w |-> w[f]], DOMAIN w = DOMAIN v,
         \A f \in DOMAIN v : w[f] = v[f]
  PROVE  w = v
BY DEF IsSound

\* No value is nullptr.
LEMMA SoundIsThere ==
  ASSUME NEW v, IsSound(v)
  PROVE  v # nullptr
BY SoundDomain, ValueAssumption

\* The constructors and the assignments put another value in place, whole.
LEMMA ConstructedIs ==
  ASSUME NEW new, IsSound(new)
  PROVE  Constructed(new) = new
<1>1. DOMAIN Default("kNull") = {"type"}
  BY DEF Default
<1>2. PICK w : w = Constructed(new)
  OBVIOUS
<1>3. w = [f \in ({"type"} \ Trivial) \cup DOMAIN new |->
              IF f \in DOMAIN new THEN new[f] ELSE Default("kNull")[f]]
  BY <1>1, <1>2 DEF Constructed, MoveConstruct
<1>4. ({"type"} \ Trivial) \cup DOMAIN new = DOMAIN new
  BY SoundDomain
<1>5. w = [f \in DOMAIN w |-> w[f]] /\ DOMAIN w = DOMAIN new /\ \A f \in DOMAIN new : w[f] = new[f]
  BY <1>3, <1>4
<1> QED  BY <1>2, <1>5, SoundEqual

LEMMA AssignIs ==
  ASSUME NEW old, NEW new, IsSound(old), IsSound(new)
  PROVE  Assign(old, new) = new
<1>1. /\ DOMAIN old = {"type"} \cup Members(old.type)
      /\ DOMAIN new = {"type"} \cup Members(new.type)
  BY SoundDomain
<1>2. "type" \notin Members(new.type) /\ "type" \notin Members(old.type)
  BY SoundDomain, MembersAre
<1>3. CASE old.type = new.type
  <2>1. PICK w : w = MoveAssign(old, new)
    OBVIOUS
  <2>2. w = [f \in DOMAIN old |-> IF f \in Members(new.type) THEN new[f] ELSE old[f]]
    BY <2>1 DEF MoveAssign
  <2>3. w = [f \in DOMAIN w |-> w[f]] /\ DOMAIN w = DOMAIN new
    BY <1>1, <1>3, <2>2
  <2>4. \A f \in DOMAIN new : w[f] = new[f]
    BY <1>1, <1>2, <1>3, <2>2
  <2>5. w = new
    BY <2>3, <2>4, SoundEqual
  <2> QED  BY <1>3, <2>1, <2>5 DEF Assign
<1>4. CASE old.type # new.type
  <2>1. PICK c : c = Cleanup(old)
    OBVIOUS
  <2>2. DOMAIN c = DOMAIN old \ (Members(old.type) \ Trivial)
    BY <2>1 DEF Cleanup
  <2>3. PICK w : w = MoveConstruct(c, new)
    OBVIOUS
  <2>4. w = [f \in (DOMAIN c \ Trivial) \cup DOMAIN new |-> IF f \in DOMAIN new THEN new[f] ELSE c[f]]
    BY <2>3 DEF MoveConstruct
  <2>5. (DOMAIN c \ Trivial) \cup DOMAIN new = DOMAIN new
    BY <1>1, <2>2
  <2>6. w = [f \in DOMAIN w |-> w[f]] /\ DOMAIN w = DOMAIN new /\ \A f \in DOMAIN new : w[f] = new[f]
    BY <2>4, <2>5
  <2>7. w = new
    BY <2>6, SoundEqual
  <2> QED  BY <1>4, <2>1, <2>3, <2>7 DEF Assign
<1> QED  BY <1>3, <1>4

\* An object.
IsObject(v) == IsSound(v) /\ v.type = "kObject"

LEMMA ObjectFacts ==
  ASSUME NEW v, IsObject(v)
  PROVE  /\ v = [f \in {"type", "object_"} |-> v[f]]
         /\ Children(v) = Range(v.object_)
<1>1. {"type"} \cup Members("kObject") = {"type", "object_"}
  BY MembersOfObject
<1> QED  BY <1>1 DEF IsObject, IsSound, Children

LEMMA FindKeyIs ==
  ASSUME NEW v, NEW k
  PROVE  FindKey(v, k) = IF k \in DOMAIN v.object_ THEN v.object_[k] ELSE nullptr
BY DEF FindKey

\* What SetKey() leaves under each key.
LEMMA SetKeyIs ==
  ASSUME NEW v, NEW key, NEW new, IsObject(v), IsSound(new),
         key \in DOMAIN v.object_ => IsSound(v.object_[key])
  PROVE  /\ IsObject(SetKey(v, key, new))
         /\ DOMAIN SetKey(v, key, new).object_ = DOMAIN v.object_ \cup {key}
         /\ \A k \in DOMAIN v.object_ \cup {key} :
              SetKey(v, key, new).object_[k] = IF k = key THEN new ELSE v.object_[k]
<1>1. PICK o : o = [k \in DOMAIN v.object_ \cup {key} |->
                      IF k # key THEN v.object_[k]
                      ELSE IF k \in DOMAIN v.object_ THEN Assign(v.object_[k], new)
                      ELSE Constructed(new)]
  OBVIOUS
<1>2. PICK w : w = SetKey(v, key, new)
  OBVIOUS
<1>3. w = [v EXCEPT !.object_ = o]
  BY <1>1, <1>2 DEF SetKey
<1>4. v = [f \in {"type", "object_"} |-> v[f]] /\ v.type = "kObject"
  BY ObjectFacts DEF IsObject
<1>5. w = [f \in {"type", "object_"} |-> w[f]] /\ w.type = "kObject" /\ w.object_ = o
  BY <1>3, <1>4
<1>6. IsObject(w)
  <2>1. {"type"} \cup Members("kObject") = {"type", "object_"}
    BY MembersOfObject
  <2>2. "kObject" \in Range(Types)
    BY TypesAre
  <2> QED  BY <1>5, <2>1, <2>2 DEF IsObject, IsSound
<1>7. Constructed(new) = new
  BY ConstructedIs
<1>8. key \in DOMAIN v.object_ => Assign(v.object_[key], new) = new
  BY AssignIs
<1>9. /\ DOMAIN o = DOMAIN v.object_ \cup {key}
      /\ \A k \in DOMAIN v.object_ \cup {key} : o[k] = IF k = key THEN new ELSE v.object_[k]
  BY <1>1, <1>7, <1>8
<1> QED  BY <1>2, <1>5, <1>6, <1>9

-----------------------------------------------------------------------------
(* Trees of values *)

\* Every value in S is sound, and so are the values inside.
IsClosed(S) == \A v \in S : IsSound(v) /\ Children(v) \subseteq S

\* A value that is sound, as are all values in it.
IsTree(v) == \E S : v \in S /\ IsClosed(S)

LEMMA TreeFacts ==
  ASSUME NEW v, IsTree(v)
  PROVE  IsSound(v) /\ \A c \in Children(v) : IsTree(c)
BY DEF IsTree, IsClosed

LEMMA TreeMade ==
  ASSUME NEW v, IsSound(v), \A c \in Children(v) : IsTree(c)
  PROVE  IsTree(v)
<1> DEFINE Around(c) == CHOOSE S : c \in S /\ IsClosed(S)
           all == {v} \cup UNION {Around(c) : c \in Children(v)}
<1>1. \A c \in Children(v) : c \in Around(c) /\ IsClosed(Around(c))
  BY DEF IsTree
<1> HIDE DEF Around
<1>2. ASSUME NEW w \in all PROVE IsSound(w) /\ Children(w) \subseteq all
  <2>1. CASE w = v
    <3>1. \A c \in Children(v) : c \in all
      BY <1>1
    <3> QED  BY <2>1, <3>1
  <2>2. CASE w # v
    <3>1. PICK c \in Children(v) : w \in Around(c)
      BY <2>2
    <3>2. IsSound(w) /\ Children(w) \subseteq Around(c)
      BY <1>1, <3>1 DEF IsClosed
    <3> QED  BY <3>1, <3>2
  <2> QED  BY <2>1, <2>2
<1>3. v \in all /\ IsClosed(all)
  BY <1>2 DEF IsClosed
<1> QED  BY <1>3 DEF IsTree

\* An object whose values are trees.
IsObjectTree(v) == IsTree(v) /\ v.type = "kObject"

LEMMA ObjectTreeIsObject ==
  ASSUME NEW v, IsObjectTree(v)
  PROVE  IsObject(v)
BY TreeFacts DEF IsObjectTree, IsObject

LEMMA ObjectTreeEntries ==
  ASSUME NEW v, IsObjectTree(v), NEW k, k \in DOMAIN v.object_
  PROVE  IsTree(v.object_[k])
<1>1. Children(v) = Range(v.object_)
  BY ObjectTreeIsObject, ObjectFacts
<1>2. v.object_[k] \in Children(v)
  BY <1>1 DEF Range
<1> QED  BY <1>2, TreeFacts DEF IsObjectTree

LEMMA ObjectTreeMade ==
  ASSUME NEW v, IsObject(v), \A k \in DOMAIN v.object_ : IsTree(v.object_[k])
  PROVE  IsObjectTree(v)
<1>1. \A c \in Children(v) : IsTree(c)
  BY ObjectFacts DEF Range
<1> QED  BY <1>1, TreeMade DEF IsObjectTree, IsObject

LEMMA EmptyObject ==
  IsObjectTree(Default("kObject")) /\ DOMAIN Default("kObject").object_ = {}
<1>1. PICK o : o = [k \in {} |-> nullptr]
  OBVIOUS
<1>2. PICK v : v = [type |-> "kObject", object_ |-> o]
  OBVIOUS
<1>3. Default("kObject") = v
  BY <1>1, <1>2 DEF Default, Object
<1>4. v = [f \in {"type", "object_"} |-> v[f]] /\ v.type = "kObject" /\ v.object_ = o
  BY <1>2
<1>5. "kObject" \in Range(Types) /\ {"type"} \cup Members("kObject") = {"type", "object_"}
  BY TypesAre, MembersOfObject
<1>6. IsObject(v)
  BY <1>4, <1>5 DEF IsObject, IsSound
<1>7. DOMAIN v.object_ = {}
  BY <1>1, <1>4
<1>8. IsObjectTree(v)
  BY <1>6, <1>7, ObjectTreeMade
<1> QED  BY <1>3, <1>7, <1>8

\* SetKey() in a tree.
LEMMA SetKeyTree ==
  ASSUME NEW v, NEW key, NEW new, IsObjectTree(v), IsTree(new)
  PROVE  /\ IsObjectTree(SetKey(v, key, new))
         /\ \A k : FindKey(SetKey(v, key, new), k) = IF k = key THEN new ELSE FindKey(v, k)
<1>1. IsObject(v) /\ IsSound(new) /\ (key \in DOMAIN v.object_ => IsSound(v.object_[key]))
  BY ObjectTreeIsObject, ObjectTreeEntries, TreeFacts
<1>2. PICK w : w = SetKey(v, key, new)
  OBVIOUS
<1>3. /\ IsObject(w) /\ DOMAIN w.object_ = DOMAIN v.object_ \cup {key}
      /\ \A k \in DOMAIN v.object_ \cup {key} :
           w.object_[k] = IF k = key THEN new ELSE v.object_[k]
  BY <1>1, <1>2, SetKeyIs
<1>4. \A k \in DOMAIN w.object_ : IsTree(w.object_[k])
  <2> SUFFICES ASSUME NEW k \in DOMAIN w.object_ PROVE IsTree(w.object_[k])
    OBVIOUS
  <2>1. CASE k = key
    BY <1>3, <2>1
  <2>2. CASE k # key
    <3>1. k \in DOMAIN v.object_ /\ w.object_[k] = v.object_[k]
      BY <1>3, <2>2
    <3> QED  BY <3>1, ObjectTreeEntries
  <2> QED  BY <2>1, <2>2
<1>5. IsObjectTree(w)
  BY <1>3, <1>4, ObjectTreeMade
<1>6. ASSUME NEW k PROVE FindKey(w, k) = IF k = key THEN new ELSE FindKey(v, k)
  BY <1>3, FindKeyIs
<1> QED  BY <1>2, <1>5, <1>6

LEMMA FindKeyTree ==
  ASSUME NEW v, NEW k, IsObjectTree(v)
  PROVE  FindKey(v, k) # nullptr => IsTree(FindKey(v, k))
BY ObjectTreeEntries, FindKeyIs

\* The object under a key, if there is one, and one that is made there if not.
Down(v, k) == IF v = nullptr THEN nullptr ELSE FindKeyOfType(v, k, "kObject")

DownOrNew(v, k) ==
  IF FindKeyOfType(v, k, "kObject") # nullptr
  THEN FindKeyOfType(v, k, "kObject") ELSE Default("kObject")

LEMMA DownIs ==
  ASSUME NEW v, NEW k, v # nullptr
  PROVE  Down(v, k) = IF FindKey(v, k) # nullptr /\ FindKey(v, k).type = "kObject"
                      THEN FindKey(v, k) ELSE nullptr
BY DEF Down, FindKeyOfType

LEMMA DownTree ==
  ASSUME NEW v, NEW k, IsObjectTree(v)
  PROVE  Down(v, k) # nullptr => IsObjectTree(Down(v, k))
<1>1. v # nullptr
  BY TreeFacts, SoundIsThere DEF IsObjectTree
<1> QED  BY <1>1, DownIs, FindKeyTree DEF IsObjectTree

LEMMA DownOrNewIs ==
  ASSUME NEW v, NEW k, v # nullptr
  PROVE  DownOrNew(v, k) = IF Down(v, k) # nullptr THEN Down(v, k) ELSE Default("kObject")
BY DEF Down, DownOrNew

LEMMA DownOrNewTree ==
  ASSUME NEW v, NEW k, IsObjectTree(v)
  PROVE  IsObjectTree(DownOrNew(v, k))
<1>1. v # nullptr
  BY TreeFacts, SoundIsThere DEF IsObjectTree
<1> QED  BY <1>1, DownOrNewIs, DownTree, EmptyObject

-----------------------------------------------------------------------------
(* The ways down a path *)

\* A path, which is not empty, and the rest of one after its first key.
IsPath(path) == path \in Seq(Nat) /\ path # <<>>

IsRest(path, rest) ==
  /\ IsPath(path) /\ IsPath(rest)
  /\ Len(path) = Len(rest) + 1
  /\ \A i \in 1..Len(rest) : rest[i] = path[i + 1]

LEMMA PathLength ==
  ASSUME NEW path, IsPath(path)
  PROVE  Len(path) \in Nat \ {0} /\ DOMAIN path = 1..Len(path)
BY LenProperties, EmptySeq DEF IsPath

LEMMA RestExists ==
  ASSUME NEW path, IsPath(path), Len(path) # 1
  PROVE  \E rest : IsRest(path, rest)
<1>1. PICK n : n = Len(path)
  OBVIOUS
<1>2. n \in Nat /\ n - 1 \in Nat \ {0} /\ \A i \in 1..n : path[i] \in Nat
  BY <1>1, PathLength, ElementOfSeq DEF IsPath
<1>3. PICK rest : rest = [i \in 1..n - 1 |-> path[i + 1]]
  OBVIOUS
<1>4. \A i \in 1..n - 1 : i + 1 \in 1..n /\ rest[i] = path[i + 1]
  BY <1>2, <1>3
<1>5. rest \in [1..n - 1 -> Nat]
  BY <1>2, <1>3, <1>4
<1>6. rest \in Seq(Nat) /\ Len(rest) = n - 1
  BY <1>2, <1>3, <1>5
<1>7. rest # <<>>
  BY <1>2, <1>6, EmptySeq
<1>8. Len(path) = Len(rest) + 1
  BY <1>1, <1>2, <1>6
<1> QED  BY <1>4, <1>6, <1>7, <1>8 DEF IsRest, IsPath

\* One step of FindPath() and of SetPath().
Turn(mode, v, k) == IF mode = "find" THEN Down(v, k) ELSE DownOrNew(v, k)

\* f holds the values on the way from v down the first n - 1 keys of the path.
WalkAt(mode, f, v, path, i) ==
  f[i] = IF i = 1 THEN v ELSE Turn(mode, f[i - 1], path[i - 1])

Walks(mode, f, v, path, n) ==
  f = [i \in 1..n |-> f[i]] /\ \A i \in 1..n : WalkAt(mode, f, v, path, i)

LEMMA WalkExists ==
  ASSUME NEW mode, NEW v, NEW path, NEW k \in Nat
  PROVE  \E f : Walks(mode, f, v, path, k)
<1> DEFINE P == {n \in Nat : \E f : Walks(mode, f, v, path, n)}
<1>1. 0 \in P
  <2>1. PICK f : f = [i \in 1..0 |-> 0]
    OBVIOUS
  <2>2. Walks(mode, f, v, path, 0)
    BY <2>1 DEF Walks
  <2> QED  BY <2>2
<1>2. ASSUME NEW n \in P PROVE n + 1 \in P
  <2>1. PICK f : Walks(mode, f, v, path, n)
    OBVIOUS
  <2>n. n \in Nat
    OBVIOUS
  <2> HIDE DEF P
  <2>2. PICK g : g = [i \in 1..n + 1 |-> IF i = 1 THEN v ELSE Turn(mode, f[i - 1], path[i - 1])]
    OBVIOUS
  <2>3. ASSUME NEW i \in 1..n PROVE g[i] = f[i]
    <3>1. f[i] = IF i = 1 THEN v ELSE Turn(mode, f[i - 1], path[i - 1])
      BY <2>1 DEF Walks, WalkAt
    <3>2. i \in 1..n + 1
      BY <2>n
    <3> QED  BY <2>2, <3>1, <3>2
  <2>4. ASSUME NEW i \in 1..n + 1 PROVE WalkAt(mode, g, v, path, i)
    <3>1. CASE i = 1
      BY <2>2, <2>n, <3>1 DEF WalkAt
    <3>2. CASE i # 1
      <4>1. i - 1 \in 1..n
        BY <2>n, <3>2
      <4>2. g[i - 1] = f[i - 1]
        BY <2>3, <4>1
      <4>3. g[i] = Turn(mode, f[i - 1], path[i - 1])
        BY <2>2, <3>2
      <4> QED  BY <3>2, <4>2, <4>3 DEF WalkAt
    <3> QED  BY <3>1, <3>2
  <2>5. Walks(mode, g, v, path, n + 1)
    BY <2>2, <2>4 DEF Walks
  <2>6. n + 1 \in Nat
    BY <2>n
  <2> QED  BY <2>5, <2>6 DEF P
<1>3. P \in SUBSET Nat
  OBVIOUS
<1> HIDE DEF P
<1>4. k \in P
  BY <1>1, <1>2, <1>3, InductiveSet
<1> QED  BY <1>4 DEF P

\* The way down the rest of a path is the rest of the way.
LEMMA WalkRest ==
  ASSUME NEW mode, NEW f, NEW h, NEW v, NEW path, NEW rest, NEW u,
         IsRest(path, rest), Walks(mode, f, v, path, Len(path)),
         u = Turn(mode, v, path[1]), Walks(mode, h, u, rest, Len(rest))
  PROVE  \A i \in 1..Len(rest) : h[i] = f[i + 1]
<1>1. PICK n : n = Len(rest) /\ n \in Nat \ {0} /\ Len(path) = n + 1
  BY PathLength DEF IsRest
<1> DEFINE bad == {i \in 1..n : h[i] # f[i + 1]}
<1>2. SUFFICES ASSUME bad # {} PROVE FALSE
  BY <1>1
<1>3. PICK i \in bad : \A j \in bad : i <= j
  <2>1. bad \in SUBSET Nat
    BY <1>1
  <2> HIDE DEF bad
  <2> QED  BY <1>2, <2>1, LeastNumber
<1>4. i \in 1..n /\ i + 1 \in 1..n + 1 /\ (i + 1) - 1 = i /\ i + 1 # 1
  BY <1>1
<1>5. WalkAt(mode, h, u, rest, i) /\ WalkAt(mode, f, v, path, i + 1)
  BY <1>1, <1>4 DEF Walks
<1>6. f[i + 1] = Turn(mode, f[i], path[i])
  BY <1>4, <1>5 DEF WalkAt
<1>7. CASE i = 1
  <2>1. f[1] = v
    <3>1. WalkAt(mode, f, v, path, 1)
      BY <1>1, <1>4, <1>7 DEF Walks
    <3> QED  BY <3>1 DEF WalkAt
  <2>2. h[1] = u
    BY <1>5, <1>7 DEF WalkAt
  <2> QED  BY <1>6, <1>7, <2>1, <2>2
<1>8. CASE i # 1
  <2>1. i - 1 \in 1..n /\ (i - 1) + 1 = i
    BY <1>1, <1>4, <1>8
  <2>2. h[i - 1] = f[i]
    BY <1>3, <2>1
  <2>3. rest[i - 1] = path[i]
    BY <1>1, <2>1 DEF IsRest
  <2>4. h[i] = Turn(mode, h[i - 1], rest[i - 1])
    BY <1>5, <1>8 DEF WalkAt
  <2> QED  BY <1>6, <2>2, <2>3, <2>4
<1> QED  BY <1>7, <1>8

-----------------------------------------------------------------------------
(* FindPath() and SetPath(), key by key *)

LEMMA FindPathWalks ==
  ASSUME NEW v, NEW path, IsPath(path)
  PROVE  \E f : /\ Walks("find", f, v, path, Len(path))
                /\ FindPath(v, path) = IF f[Len(path)] = nullptr THEN nullptr
                                       ELSE FindKey(f[Len(path)], path[Len(path)])
<1> DEFINE Step(g) == [i \in 1..Len(path) |->
                         IF i = 1 THEN v
                         ELSE IF g[i - 1] = nullptr THEN nullptr
                         ELSE FindKeyOfType(g[i - 1], path[i - 1], "kObject")]
           last1 == CHOOSE g : g = Step(g)
<1>1. FindPath(v, path) = IF last1[Len(path)] = nullptr THEN nullptr
                          ELSE FindKey(last1[Len(path)], path[Len(path)])
  BY DEF FindPath
<1>2. \A g, i : (IF g[i - 1] = nullptr THEN nullptr
                 ELSE FindKeyOfType(g[i - 1], path[i - 1], "kObject"))
                  = Turn("find", g[i - 1], path[i - 1])
  BY DEF Turn, Down
<1>3. \A g : Step(g) = [i \in 1..Len(path) |->
                          IF i = 1 THEN v ELSE Turn("find", g[i - 1], path[i - 1])]
  BY <1>2
<1> HIDE DEF Step
<1>4. \E g : g = Step(g)
  <2>1. PICK g : Walks("find", g, v, path, Len(path))
    BY PathLength, WalkExists
  <2>2. PICK h : h = Step(g)
    OBVIOUS
  <2>3. h = [i \in 1..Len(path) |-> IF i = 1 THEN v ELSE Turn("find", g[i - 1], path[i - 1])]
    BY <1>3, <2>2
  <2>4. \A i \in 1..Len(path) : h[i] = g[i]
    BY <2>1, <2>3 DEF Walks, WalkAt
  <2>5. g = h
    BY <2>1, <2>3, <2>4 DEF Walks
  <2> QED  BY <2>2, <2>5
<1>5. PICK f : f = last1
  OBVIOUS
<1>6. f = Step(f)
  BY <1>4, <1>5
<1>7. PICK h : h = Step(f)
  OBVIOUS
<1>8. h = [i \in 1..Len(path) |-> IF i = 1 THEN v ELSE Turn("find", f[i - 1], path[i - 1])]
  BY <1>3, <1>7
<1>9. f = h
  BY <1>6, <1>7
<1>10. \A i \in 1..Len(path) : h[i] = IF i = 1 THEN v ELSE Turn("find", f[i - 1], path[i - 1])
  BY <1>8
<1>11. \A i \in 1..Len(path) : WalkAt("find", f, v, path, i)
  BY <1>9, <1>10 DEF WalkAt
<1>12. h = [i \in 1..Len(path) |-> h[i]]
  BY <1>8
<1>13. Walks("find", f, v, path, Len(path))
  BY <1>9, <1>11, <1>12 DEF Walks
<1> HIDE DEF last1
<1> QED  BY <1>1, <1>5, <1>13

LEMMA FindPathOne ==
  ASSUME NEW v, NEW path, IsPath(path), Len(path) = 1, v # nullptr
  PROVE  FindPath(v, path) = FindKey(v, path[1])
<1>1. PICK f : /\ Walks("find", f, v, path, Len(path))
               /\ FindPath(v, path) = IF f[Len(path)] = nullptr THEN nullptr
                                      ELSE FindKey(f[Len(path)], path[Len(path)])
  BY FindPathWalks
<1>2. WalkAt("find", f, v, path, 1)
  BY <1>1 DEF Walks
<1>3. f[1] = v
  BY <1>2 DEF WalkAt
<1> QED  BY <1>1, <1>3

LEMMA FindPathRest ==
  ASSUME NEW v, NEW path, NEW rest, IsRest(path, rest)
  PROVE  FindPath(v, path) = FindPath(Down(v, path[1]), rest)
<1>1. PICK f : /\ Walks("find", f, v, path, Len(path))
               /\ FindPath(v, path) = IF f[Len(path)] = nullptr THEN nullptr
                                      ELSE FindKey(f[Len(path)], path[Len(path)])
  BY FindPathWalks DEF IsRest
<1>2. PICK u : u = Down(v, path[1])
  OBVIOUS
<1>3. PICK h : /\ Walks("find", h, u, rest, Len(rest))
               /\ FindPath(u, rest) = IF h[Len(rest)] = nullptr THEN nullptr
                                      ELSE FindKey(h[Len(rest)], rest[Len(rest)])
  BY FindPathWalks DEF IsRest
<1>4. u = Turn("find", v, path[1])
  BY <1>2 DEF Turn
<1>5. \A i \in 1..Len(rest) : h[i] = f[i + 1]
  BY <1>1, <1>3, <1>4, WalkRest
<1>6. Len(rest) \in 1..Len(rest) /\ Len(path) = Len(rest) + 1
  BY PathLength DEF IsRest
<1>7. rest[Len(rest)] = path[Len(path)]
  BY <1>6 DEF IsRest
<1> QED  BY <1>1, <1>2, <1>3, <1>5, <1>6, <1>7

\* g holds what becomes of the objects on the way.
SetAt(g, f, path, new, n, i) ==
  g[i] = SetKey(f[i], path[i], IF i = n THEN new ELSE g[i + 1])

Sets(g, f, path, new, n) ==
  g = [i \in 1..n |-> g[i]] /\ \A i \in 1..n : SetAt(g, f, path, new, n, i)

\* The last k of them.
SetsLast(g, f, path, new, n, k) ==
  \A i \in 1..n : i > n - k => SetAt(g, f, path, new, n, i)

LEMMA SetsExist ==
  ASSUME NEW f, NEW path, NEW new, NEW n \in Nat
  PROVE  \E g : Sets(g, f, path, new, n)
<1> DEFINE P == {k \in Nat : k <= n => \E g : SetsLast(g, f, path, new, n, k)}
<1>1. 0 \in P
  <2>1. PICK g : g = [i \in 1..n |-> 0]
    OBVIOUS
  <2>2. SetsLast(g, f, path, new, n, 0)
    BY DEF SetsLast
  <2> QED  BY <2>2
<1>2. ASSUME NEW k \in P PROVE k + 1 \in P
  <2>n. k \in Nat /\ k + 1 \in Nat
    OBVIOUS
  <2>1. SUFFICES ASSUME k + 1 <= n
                 PROVE  \E g : SetsLast(g, f, path, new, n, k + 1)
    BY <2>n
  <2>2. PICK g : SetsLast(g, f, path, new, n, k)
    BY <2>n, <2>1
  <2> HIDE DEF P
  <2>3. PICK m : m = n - k
    OBVIOUS
  <2>4. m \in 1..n
    BY <2>n, <2>1, <2>3
  <2>5. PICK h : h = [i \in 1..n |-> IF i = m
                        THEN SetKey(f[i], path[i], IF i = n THEN new ELSE g[i + 1])
                        ELSE g[i]]
    OBVIOUS
  <2>6. ASSUME NEW i \in 1..n, i > n - (k + 1) PROVE SetAt(h, f, path, new, n, i)
    <3>1. i # n => i + 1 \in 1..n /\ h[i + 1] = g[i + 1]
      BY <2>n, <2>1, <2>3, <2>5, <2>6
    <3>2. CASE i = m
      BY <2>5, <3>1, <3>2 DEF SetAt
    <3>3. CASE i # m
      <4>1. i > n - k
        BY <2>n, <2>3, <2>6, <3>3
      <4>2. SetAt(g, f, path, new, n, i)
        BY <2>2, <4>1 DEF SetsLast
      <4>3. h[i] = g[i]
        BY <2>5, <3>3
      <4> QED  BY <3>1, <4>2, <4>3 DEF SetAt
    <3> QED  BY <3>2, <3>3
  <2> QED  BY <2>6 DEF SetsLast
<1>3. P \in SUBSET Nat
  OBVIOUS
<1> HIDE DEF P
<1>4. n \in P
  BY <1>1, <1>2, <1>3, InductiveSet
<1>5. PICK g : SetsLast(g, f, path, new, n, n)
  BY <1>4 DEF P
<1>6. PICK h : h = [i \in 1..n |-> g[i]]
  OBVIOUS
<1>7. ASSUME NEW i \in 1..n PROVE SetAt(h, f, path, new, n, i)
  <2>1. SetAt(g, f, path, new, n, i)
    BY <1>5 DEF SetsLast
  <2>2. h[i] = g[i] /\ (i # n => h[i + 1] = g[i + 1])
    BY <1>6
  <2> QED  BY <2>1, <2>2 DEF SetAt
<1>8. h = [i \in 1..n |-> h[i]]
  BY <1>6
<1> QED  BY <1>7, <1>8 DEF Sets

LEMMA SetPathSets ==
  ASSUME NEW v, NEW path, NEW new, IsPath(path)
  PROVE  \E f, g : /\ Walks("set", f, v, path, Len(path))
                   /\ Sets(g, f, path, new, Len(path))
                   /\ SetPath(v, path, new) = g[1]
<1> DEFINE Step(o) == [i \in 1..Len(path) |->
                         IF i = 1 THEN v
                         ELSE IF FindKeyOfType(o[i - 1], path[i - 1], "kObject") # nullptr
                         THEN FindKeyOfType(o[i - 1], path[i - 1], "kObject")
                         ELSE Default("kObject")]
           objects == CHOOSE o : o = Step(o)
           Back(o, s) == [i \in 1..Len(path) |->
                            SetKey(o[i], path[i], IF i = Len(path) THEN new ELSE s[i + 1])]
           Sent(o) == CHOOSE s : s = Back(o, s)
<1>1. SetPath(v, path, new) = Sent(objects)[1]
  BY DEF SetPath
<1>2. \A o, i : (IF FindKeyOfType(o[i - 1], path[i - 1], "kObject") # nullptr
                 THEN FindKeyOfType(o[i - 1], path[i - 1], "kObject")
                 ELSE Default("kObject")) = Turn("set", o[i - 1], path[i - 1])
  BY DEF Turn, DownOrNew
<1>3. \A o : Step(o) = [i \in 1..Len(path) |->
                          IF i = 1 THEN v ELSE Turn("set", o[i - 1], path[i - 1])]
  BY <1>2
<1> HIDE DEF Step, Sent
<1>4. \E o : o = Step(o)
  <2>1. PICK o : Walks("set", o, v, path, Len(path))
    BY PathLength, WalkExists
  <2>2. PICK h : h = Step(o)
    OBVIOUS
  <2>3. h = [i \in 1..Len(path) |-> IF i = 1 THEN v ELSE Turn("set", o[i - 1], path[i - 1])]
    BY <1>3, <2>2
  <2>4. \A i \in 1..Len(path) : h[i] = o[i]
    BY <2>1, <2>3 DEF Walks, WalkAt
  <2>5. o = h
    BY <2>1, <2>3, <2>4 DEF Walks
  <2> QED  BY <2>2, <2>5
<1>5. PICK f : f = objects
  OBVIOUS
<1>6. f = Step(f)
  BY <1>4, <1>5
<1>7. PICK h : h = Step(f)
  OBVIOUS
<1>8. h = [i \in 1..Len(path) |-> IF i = 1 THEN v ELSE Turn("set", f[i - 1], path[i - 1])]
  BY <1>3, <1>7
<1>9. f = h
  BY <1>6, <1>7
<1>10. \A i \in 1..Len(path) : h[i] = IF i = 1 THEN v ELSE Turn("set", f[i - 1], path[i - 1])
  BY <1>8
<1>11. \A i \in 1..Len(path) : WalkAt("set", f, v, path, i)
  BY <1>9, <1>10 DEF WalkAt
<1>12. h = [i \in 1..Len(path) |-> h[i]]
  BY <1>8
<1>13. Walks("set", f, v, path, Len(path))
  BY <1>9, <1>11, <1>12 DEF Walks
<1> HIDE DEF objects
<1>14. \E s : s = Back(f, s)
  <2>1. PICK s : Sets(s, f, path, new, Len(path))
    BY PathLength, SetsExist
  <2>2. PICK b : b = Back(f, s)
    OBVIOUS
  <2>3. \A i \in 1..Len(path) : b[i] = s[i]
    BY <2>1, <2>2 DEF Sets, SetAt
  <2>4. s = b
    BY <2>1, <2>2, <2>3 DEF Sets
  <2> QED  BY <2>2, <2>4
<1>15. PICK g : g = Sent(f)
  OBVIOUS
<1>16. g = Back(f, g)
  BY <1>14, <1>15 DEF Sent
<1>17. PICK b : b = Back(f, g)
  OBVIOUS
<1>18. b = [i \in 1..Len(path) |-> b[i]] /\ g = b
  BY <1>16, <1>17
<1>19. \A i \in 1..Len(path) :
         b[i] = SetKey(f[i], path[i], IF i = Len(path) THEN new ELSE g[i + 1])
  BY <1>17
<1> HIDE DEF Back
<1>20. \A i \in 1..Len(path) : SetAt(g, f, path, new, Len(path), i)
  BY <1>18, <1>19 DEF SetAt
<1>21. Sets(g, f, path, new, Len(path))
  BY <1>18, <1>20 DEF Sets
<1>22. SetPath(v, path, new) = g[1]
  BY <1>1, <1>5, <1>15
<1> QED  BY <1>13, <1>21, <1>22

LEMMA SetPathOne ==
  ASSUME NEW v, NEW path, NEW new, IsPath(path), Len(path) = 1
  PROVE  SetPath(v, path, new) = SetKey(v, path[1], new)
<1>1. PICK f, g : /\ Walks("set", f, v, path, Len(path))
                  /\ Sets(g, f, path, new, Len(path))
                  /\ SetPath(v, path, new) = g[1]
  BY SetPathSets
<1>2. WalkAt("set", f, v, path, 1) /\ SetAt(g, f, path, new, 1, 1)
  BY <1>1 DEF Walks, Sets
<1> QED  BY <1>1, <1>2 DEF WalkAt, SetAt

\* What becomes of the objects further down does not depend on those above.
LEMMA SetsRest ==
  ASSUME NEW f, NEW g, NEW h, NEW s, NEW path, NEW rest, NEW new, IsRest(path, rest),
         Sets(g, f, path, new, Len(path)), Sets(s, h, rest, new, Len(rest)),
         \A i \in 1..Len(rest) : h[i] = f[i + 1]
  PROVE  \A i \in 1..Len(rest) : s[i] = g[i + 1]
<1>1. PICK n : n = Len(rest) /\ n \in Nat \ {0} /\ Len(path) = n + 1
  BY PathLength DEF IsRest
<1> DEFINE bad == {j \in Nat : j < n /\ s[n - j] # g[(n - j) + 1]}
<1>2. SUFFICES ASSUME bad # {} PROVE FALSE
  <2>1. ASSUME NEW i \in 1..n, bad = {} PROVE s[i] = g[i + 1]
    <3>1. n - i \in Nat /\ n - i < n /\ n - (n - i) = i
      BY <1>1
    <3> QED  BY <2>1, <3>1
  <2> QED  BY <1>1, <2>1
<1>3. PICK j \in bad : \A l \in bad : j <= l
  <2>1. bad \in SUBSET Nat
    OBVIOUS
  <2> HIDE DEF bad
  <2> QED  BY <1>2, <2>1, LeastNumber
<1>4. PICK i : i = n - j
  OBVIOUS
<1>5. i \in 1..n /\ i + 1 \in 1..n + 1 /\ s[i] # g[i + 1] /\ j \in Nat
  BY <1>1, <1>3, <1>4
<1>6. SetAt(s, h, rest, new, n, i) /\ SetAt(g, f, path, new, n + 1, i + 1)
  BY <1>1, <1>5 DEF Sets
<1>7. h[i] = f[i + 1] /\ rest[i] = path[i + 1]
  BY <1>1, <1>5 DEF IsRest
<1>8. s[i] = SetKey(h[i], rest[i], IF i = n THEN new ELSE s[i + 1])
  BY <1>6 DEF SetAt
<1>9. g[i + 1] = SetKey(f[i + 1], path[i + 1], IF i + 1 = n + 1 THEN new ELSE g[(i + 1) + 1])
  BY <1>6 DEF SetAt
<1>10. CASE i = n
  <2>1. i + 1 = n + 1
    BY <1>10
  <2> QED  BY <1>5, <1>7, <1>8, <1>9, <1>10, <2>1
<1>11. CASE i # n
  <2>1. j - 1 \in Nat /\ j - 1 < j /\ j - 1 < n /\ n - (j - 1) = i + 1
    BY <1>1, <1>4, <1>5, <1>11
  <2>2. j - 1 \notin bad
    BY <1>3, <1>5, <2>1
  <2>3. s[i + 1] = g[(i + 1) + 1]
    BY <2>1, <2>2
  <2>4. i + 1 # n + 1
    BY <1>1, <1>5, <1>11
  <2> QED  BY <1>5, <1>7, <1>8, <1>9, <1>11, <2>3, <2>4
<1> QED  BY <1>10, <1>11

LEMMA SetPathRest ==
  ASSUME NEW v, NEW path, NEW rest, NEW new, IsRest(path, rest)
  PROVE  SetPath(v, path, new)
           = SetKey(v, path[1], SetPath(DownOrNew(v, path[1]), rest, new))
<1>1. PICK f, g : /\ Walks("set", f, v, path, Len(path))
                  /\ Sets(g, f, path, new, Len(path))
                  /\ SetPath(v, path, new) = g[1]
  BY SetPathSets DEF IsRest
<1>2. PICK u : u = DownOrNew(v, path[1])
  OBVIOUS
<1>3. PICK h, s : /\ Walks("set", h, u, rest, Len(rest))
                  /\ Sets(s, h, rest, new, Len(rest))
                  /\ SetPath(u, rest, new) = s[1]
  BY SetPathSets DEF IsRest
<1>4. u = Turn("set", v, path[1])
  BY <1>2 DEF Turn
<1>5. \A i \in 1..Len(rest) : h[i] = f[i + 1]
  BY <1>1, <1>3, <1>4, WalkRest
<1>6. \A i \in 1..Len(rest) : s[i] = g[i + 1]
  BY <1>1, <1>3, <1>5, SetsRest
<1>7. 1 \in 1..Len(path) /\ 1 \in 1..Len(rest) /\ 1 # Len(path)
  BY PathLength DEF IsRest
<1>8. s[1] = g[2]
  BY <1>6, <1>7
<1>9. WalkAt("set", f, v, path, 1) /\ SetAt(g, f, path, new, Len(path), 1)
  BY <1>1, <1>7 DEF Walks, Sets
<1>10. f[1] = v
  BY <1>9 DEF WalkAt
<1>11. g[1] = SetKey(f[1], path[1], g[2])
  BY <1>7, <1>9 DEF SetAt
<1> QED  BY <1>1, <1>2, <1>3, <1>8, <1>10, <1>11

-----------------------------------------------------------------------------
(* What SetPath() does to what FindPath() finds *)

LEMMA FindInNothing ==
  ASSUME NEW path, IsPath(path)
  PROVE  FindPath(nullptr, path) = nullptr
<1> DEFINE P == {n \in Nat : \A p : IsPath(p) /\ Len(p) = n => FindPath(nullptr, p) = nullptr}
<1>1. 0 \in P
  BY PathLength
<1>2. ASSUME NEW n \in P PROVE n + 1 \in P
  <2>n. n \in Nat /\ n + 1 \in Nat
    OBVIOUS
  <2> SUFFICES ASSUME NEW p, IsPath(p), Len(p) = n + 1
               PROVE  FindPath(nullptr, p) = nullptr
    BY <2>n
  <2>1. CASE Len(p) = 1
    <3>1. PICK f : /\ Walks("find", f, nullptr, p, Len(p))
                   /\ FindPath(nullptr, p) = IF f[Len(p)] = nullptr THEN nullptr
                                             ELSE FindKey(f[Len(p)], p[Len(p)])
      BY FindPathWalks
    <3>2. WalkAt("find", f, nullptr, p, 1)
      BY <2>1, <3>1 DEF Walks
    <3> QED  BY <2>1, <3>1, <3>2 DEF WalkAt
  <2>2. CASE Len(p) # 1
    <3>1. PICK rest : IsRest(p, rest)
      BY <2>2, RestExists
    <3>2. Len(rest) = n /\ IsPath(rest)
      BY <2>n, <3>1, PathLength DEF IsRest
    <3>3. FindPath(nullptr, rest) = nullptr
      BY <3>2
    <3>4. Down(nullptr, p[1]) = nullptr
      BY DEF Down
    <3> QED  BY <3>1, <3>3, <3>4, FindPathRest
  <2> QED  BY <2>1, <2>2
<1>3. P \in SUBSET Nat
  OBVIOUS
<1> HIDE DEF P
<1>4. Len(path) \in P
  BY <1>1, <1>2, <1>3, InductiveSet, PathLength
<1> QED  BY <1>4 DEF P

LEMMA FindInEmpty ==
  ASSUME NEW path, IsPath(path)
  PROVE  FindPath(Default("kObject"), path) = nullptr
<1>1. PICK e : e = Default("kObject")
  OBVIOUS
<1>2. IsObjectTree(e) /\ DOMAIN e.object_ = {}
  BY <1>1, EmptyObject
<1>3. e # nullptr
  BY <1>2, TreeFacts, SoundIsThere DEF IsObjectTree
<1>4. \A k : FindKey(e, k) = nullptr
  BY <1>2, FindKeyIs
<1>5. \A k : Down(e, k) = nullptr
  BY <1>3, <1>4, DownIs
<1>6. CASE Len(path) = 1
  BY <1>1, <1>3, <1>4, <1>6, FindPathOne
<1>7. CASE Len(path) # 1
  <2>1. PICK rest : IsRest(path, rest)
    BY <1>7, RestExists
  <2>2. FindPath(e, path) = FindPath(nullptr, rest)
    BY <1>5, <2>1, FindPathRest
  <2> QED  BY <1>1, <2>1, <2>2, FindInNothing DEF IsRest
<1> QED  BY <1>6, <1>7

LEMMA SetPathTree ==
  ASSUME NEW v, NEW path, NEW new, IsPath(path), IsObjectTree(v), IsTree(new)
  PROVE  IsObjectTree(SetPath(v, path, new))
<1> DEFINE P == {n \in Nat : \A p, u : IsPath(p) /\ Len(p) = n /\ IsObjectTree(u)
                                         => IsObjectTree(SetPath(u, p, new))}
<1>1. 0 \in P
  BY PathLength
<1>2. ASSUME NEW n \in P PROVE n + 1 \in P
  <2>n. n \in Nat /\ n + 1 \in Nat
    OBVIOUS
  <2> SUFFICES ASSUME NEW p, NEW u, IsPath(p), Len(p) = n + 1, IsObjectTree(u)
               PROVE  IsObjectTree(SetPath(u, p, new))
    BY <2>n
  <2>1. CASE Len(p) = 1
    BY <2>1, SetPathOne, SetKeyTree
  <2>2. CASE Len(p) # 1
    <3>1. PICK rest : IsRest(p, rest)
      BY <2>2, RestExists
    <3>2. Len(rest) = n /\ IsPath(rest)
      BY <2>n, <3>1, PathLength DEF IsRest
    <3>3. PICK x : x = SetPath(DownOrNew(u, p[1]), rest, new)
      OBVIOUS
    <3>4. IsObjectTree(x)
      BY <3>2, <3>3, DownOrNewTree
    <3>5. IsTree(x)
      BY <3>4 DEF IsObjectTree
    <3> QED  BY <3>1, <3>3, <3>5, SetPathRest, SetKeyTree
  <2> QED  BY <2>1, <2>2
<1>3. P \in SUBSET Nat
  OBVIOUS
<1> HIDE DEF P
<1>4. Len(path) \in P
  BY <1>1, <1>2, <1>3, InductiveSet, PathLength
<1> QED  BY <1>4 DEF P

\* What SetPath() puts under the first key.
Put(v, path, new, x) ==
  /\ IsTree(x)
  /\ IsObjectTree(SetPath(v, path, new))
  /\ FindKey(SetPath(v, path, new), path[1]) = x
  /\ \A k : k # path[1] => FindKey(SetPath(v, path, new), k) = FindKey(v, k)

LEMMA SetPathPuts ==
  ASSUME NEW v, NEW path, NEW new, IsPath(path), IsObjectTree(v), IsTree(new), Len(path) = 1
  PROVE  Put(v, path, new, new)
BY SetPathOne, SetKeyTree DEF Put

LEMMA SetPathPutsRest ==
  ASSUME NEW v, NEW path, NEW new, NEW rest, IsRest(path, rest), IsObjectTree(v), IsTree(new)
  PROVE  LET x == SetPath(DownOrNew(v, path[1]), rest, new)
         IN  IsObjectTree(x) /\ Put(v, path, new, x)
<1>1. PICK x : x = SetPath(DownOrNew(v, path[1]), rest, new)
  OBVIOUS
<1>2. IsObjectTree(x)
  BY <1>1, SetPathTree, DownOrNewTree DEF IsRest
<1>3. IsTree(x)
  BY <1>2 DEF IsObjectTree
<1>4. SetPath(v, path, new) = SetKey(v, path[1], x)
  BY <1>1, SetPathRest
<1>5. Put(v, path, new, x)
  BY <1>3, <1>4, SetKeyTree DEF Put
<1> QED  BY <1>1, <1>2, <1>5

LEMMA ObjectTreeIsThere ==
  ASSUME NEW v, IsObjectTree(v)
  PROVE  v # nullptr
BY TreeFacts, SoundIsThere DEF IsObjectTree

\* One step down from what SetPath() has made.
LEMMA DownPut ==
  ASSUME NEW v, NEW path, NEW new, NEW x, Put(v, path, new, x)
  PROVE  Down(SetPath(v, path, new), path[1]) = IF x.type = "kObject" THEN x ELSE nullptr
<1>1. SetPath(v, path, new) # nullptr
  BY ObjectTreeIsThere DEF Put
<1>2. x # nullptr
  BY TreeFacts, SoundIsThere DEF Put
<1> QED  BY <1>1, <1>2, DownIs DEF Put

LEMMA DownBeside ==
  ASSUME NEW v, NEW path, NEW new, NEW x, NEW k, IsObjectTree(v),
         Put(v, path, new, x), k # path[1]
  PROVE  Down(SetPath(v, path, new), k) = Down(v, k)
<1>1. SetPath(v, path, new) # nullptr /\ v # nullptr
  BY ObjectTreeIsThere DEF Put
<1> QED  BY <1>1, DownIs DEF Put

\* Neither path is a prefix of the other.
Apart(p, q) == \E i \in 1..Len(p) : i <= Len(q) /\ p[i] # q[i]

LEMMA ApartRest ==
  ASSUME NEW p, NEW q, NEW r, NEW s, IsRest(p, r), IsRest(q, s), Apart(p, q), p[1] = q[1]
  PROVE  Apart(r, s)
<1>1. PICK i \in 1..Len(p) : i <= Len(q) /\ p[i] # q[i]
  BY DEF Apart
<1>2. /\ Len(r) \in Nat \ {0} /\ Len(p) = Len(r) + 1
      /\ Len(s) \in Nat \ {0} /\ Len(q) = Len(s) + 1
  BY PathLength DEF IsRest
<1>3. i - 1 \in 1..Len(r) /\ i - 1 \in 1..Len(s) /\ (i - 1) + 1 = i
  BY <1>1, <1>2
<1>4. r[i - 1] = p[i] /\ s[i - 1] = q[i]
  BY <1>3 DEF IsRest
<1> QED  BY <1>1, <1>3, <1>4 DEF Apart

\* A path that is apart from the one that is set is not concerned.
LEMMA FindApart ==
  ASSUME NEW v, NEW path, NEW new, NEW q,
         IsPath(path), IsPath(q), IsObjectTree(v), IsTree(new), Apart(path, q)
  PROVE  FindPath(SetPath(v, path, new), q) = FindPath(v, q)
<1> DEFINE P == {n \in Nat : \A u, p, r :
                   IsPath(p) /\ Len(p) = n /\ IsPath(r) /\ IsObjectTree(u) /\ Apart(p, r)
                     => FindPath(SetPath(u, p, new), r) = FindPath(u, r)}
<1>1. 0 \in P
  BY PathLength
<1>2. ASSUME NEW n \in P PROVE n + 1 \in P
  <2>n. n \in Nat /\ n + 1 \in Nat
    OBVIOUS
  <2> SUFFICES ASSUME NEW u, NEW p, NEW r, IsPath(p), Len(p) = n + 1, IsPath(r),
                      IsObjectTree(u), Apart(p, r)
               PROVE  FindPath(SetPath(u, p, new), r) = FindPath(u, r)
    BY <2>n
  <2>w. PICK w : w = SetPath(u, p, new)
    OBVIOUS
  <2>0. u # nullptr /\ IsObjectTree(w) /\ w # nullptr
    BY <2>w, SetPathTree, ObjectTreeIsThere
  <2>1. CASE p[1] # r[1]
    <3>1. PICK x : Put(u, p, new, x)
      <4>1. CASE Len(p) = 1
        BY <4>1, SetPathPuts
      <4>2. CASE Len(p) # 1
        BY <4>2, RestExists, SetPathPutsRest
      <4> QED  BY <4>1, <4>2
    <3>2. CASE Len(r) = 1
      <4>1. FindKey(w, r[1]) = FindKey(u, r[1])
        BY <2>w, <2>1, <3>1 DEF Put
      <4> QED  BY <2>w, <2>0, <3>2, <4>1, FindPathOne
    <3>3. CASE Len(r) # 1
      <4>1. PICK s : IsRest(r, s)
        BY <3>3, RestExists
      <4>2. Down(w, r[1]) = Down(u, r[1])
        BY <2>w, <2>1, <3>1, DownBeside
      <4>3. FindPath(w, r) = FindPath(Down(w, r[1]), s)
        BY <4>1, FindPathRest
      <4>4. FindPath(u, r) = FindPath(Down(u, r[1]), s)
        BY <4>1, FindPathRest
      <4> QED  BY <2>w, <4>2, <4>3, <4>4
    <3> QED  BY <3>2, <3>3
  <2>2. CASE p[1] = r[1]
    <3>1. Len(p) # 1 /\ Len(r) # 1
      <4>1. PICK i \in 1..Len(p) : i <= Len(r) /\ p[i] # r[i]
        BY DEF Apart
      <4>2. Len(p) \in Nat /\ Len(r) \in Nat
        BY PathLength
      <4> QED  BY <2>2, <4>1, <4>2
    <3>2. PICK a : IsRest(p, a)
      BY <3>1, RestExists
    <3>3. PICK s : IsRest(r, s)
      BY <3>1, RestExists
    <3>4. Apart(a, s)
      BY <2>2, <3>2, <3>3, ApartRest
    <3>5. PICK d : d = DownOrNew(u, p[1])
      OBVIOUS
    <3>6. PICK x : x = SetPath(d, a, new)
      OBVIOUS
    <3>7. IsObjectTree(x) /\ Put(u, p, new, x)
      BY <3>2, <3>5, <3>6, SetPathPutsRest
    <3>8. Down(w, r[1]) = x
      BY <2>w, <2>2, <3>7, DownPut DEF IsObjectTree
    <3>9. FindPath(w, r) = FindPath(x, s)
      BY <3>3, <3>8, FindPathRest
    <3>10. FindPath(u, r) = FindPath(Down(u, r[1]), s)
      BY <3>3, FindPathRest
    <3>11. IsPath(a) /\ Len(a) = n /\ IsPath(s) /\ IsObjectTree(d)
      BY <2>n, <3>2, <3>3, <3>5, PathLength, DownOrNewTree DEF IsRest
    <3>12. FindPath(x, s) = FindPath(d, s)
      BY <3>4, <3>6, <3>11
    <3>13. FindPath(d, s) = FindPath(Down(u, r[1]), s)
      <4>1. CASE Down(u, r[1]) # nullptr
        BY <2>0, <2>2, <3>5, <4>1, DownOrNewIs
      <4>2. CASE Down(u, r[1]) = nullptr
        <5>1. d = Default("kObject")
          BY <2>0, <2>2, <3>5, <4>2, DownOrNewIs
        <5> QED  BY <3>11, <4>2, <5>1, FindInEmpty, FindInNothing
      <4> QED  BY <4>1, <4>2
    <3> QED  BY <2>w, <3>9, <3>10, <3>12, <3>13
  <2> QED  BY <2>1, <2>2
<1>3. P \in SUBSET Nat
  OBVIOUS
<1> HIDE DEF P
<1>4. Len(path) \in P
  BY <1>1, <1>2, <1>3, InductiveSet, PathLength
<1> QED  BY <1>4 DEF P

\* q is a part of p, from its first key on, and is not p.
Above(q, p) == Len(q) < Len(p) /\ \A i \in 1..Len(q) : q[i] = p[i]

LEMMA AboveRest ==
  ASSUME NEW p, NEW q, NEW r, NEW s, IsRest(p, r), IsRest(q, s), Above(q, p)
  PROVE  Above(s, r) /\ q[1] = p[1]
<1>1. /\ Len(r) \in Nat \ {0} /\ Len(p) = Len(r) + 1
      /\ Len(s) \in Nat \ {0} /\ Len(q) = Len(s) + 1
  BY PathLength DEF IsRest
<1>2. Len(s) < Len(r) /\ 1 \in 1..Len(q)
  BY <1>1 DEF Above
<1>3. ASSUME NEW i \in 1..Len(s) PROVE s[i] = r[i]
  <2>1. i \in 1..Len(r) /\ i + 1 \in 1..Len(q)
    BY <1>1, <1>2
  <2> QED  BY <1>3, <2>1 DEF IsRest, Above
<1> QED  BY <1>2, <1>3 DEF Above

\* There are objects on the way down to what is set.
LEMMA FindAbove ==
  ASSUME NEW v, NEW path, NEW new, NEW q,
         IsPath(path), IsPath(q), IsObjectTree(v), IsTree(new), Above(q, path)
  PROVE  IsObjectTree(FindPath(SetPath(v, path, new), q))
<1> DEFINE P == {n \in Nat : \A u, p, r :
                   IsPath(p) /\ Len(p) = n /\ IsPath(r) /\ IsObjectTree(u) /\ Above(r, p)
                     => IsObjectTree(FindPath(SetPath(u, p, new), r))}
<1>1. 0 \in P
  BY PathLength
<1>2. ASSUME NEW n \in P PROVE n + 1 \in P
  <2>n. n \in Nat /\ n + 1 \in Nat
    OBVIOUS
  <2> SUFFICES ASSUME NEW u, NEW p, NEW r, IsPath(p), Len(p) = n + 1, IsPath(r),
                      IsObjectTree(u), Above(r, p)
               PROVE  IsObjectTree(FindPath(SetPath(u, p, new), r))
    BY <2>n
  <2>w. PICK w : w = SetPath(u, p, new)
    OBVIOUS
  <2>0. w # nullptr
    BY <2>w, SetPathTree, ObjectTreeIsThere
  <2>1. Len(p) # 1 /\ r[1] = p[1]
    <3>1. Len(p) \in Nat /\ Len(r) \in Nat \ {0}
      BY PathLength
    <3>2. 1 \in 1..Len(r) /\ Len(r) < Len(p)
      BY <3>1 DEF Above
    <3> QED  BY <3>1, <3>2 DEF Above
  <2>2. PICK a : IsRest(p, a)
    BY <2>1, RestExists
  <2>3. PICK d : d = DownOrNew(u, p[1])
    OBVIOUS
  <2>4. PICK x : x = SetPath(d, a, new)
    OBVIOUS
  <2>5. IsObjectTree(x) /\ Put(u, p, new, x)
    BY <2>2, <2>3, <2>4, SetPathPutsRest
  <2>6. FindKey(w, r[1]) = x /\ Down(w, r[1]) = x
    BY <2>w, <2>1, <2>5, DownPut DEF Put, IsObjectTree
  <2>7. CASE Len(r) = 1
    BY <2>w, <2>0, <2>5, <2>6, <2>7, FindPathOne
  <2>8. CASE Len(r) # 1
    <3>1. PICK s : IsRest(r, s)
      BY <2>8, RestExists
    <3>2. Above(s, a)
      BY <2>2, <3>1, AboveRest
    <3>3. FindPath(w, r) = FindPath(x, s)
      BY <2>6, <3>1, FindPathRest
    <3>4. IsPath(a) /\ Len(a) = n /\ IsPath(s) /\ IsObjectTree(d)
      BY <2>n, <2>2, <2>3, <3>1, PathLength, DownOrNewTree DEF IsRest
    <3>5. IsObjectTree(FindPath(x, s))
      BY <2>4, <3>2, <3>4
    <3> QED  BY <2>w, <3>3, <3>5
  <2> QED  BY <2>7, <2>8
<1>3. P \in SUBSET Nat
  OBVIOUS
<1> HIDE DEF P
<1>4. Len(path) \in P
  BY <1>1, <1>2, <1>3, InductiveSet, PathLength
<1> QED  BY <1>4 DEF P

\* What is set is found there.
LEMMA FindAt ==
  ASSUME NEW v, NEW path, NEW new, IsPath(path), IsObjectTree(v), IsTree(new)
  PROVE  FindPath(SetPath(v, path, new), path) = new
<1> DEFINE P == {n \in Nat : \A u, p :
                   IsPath(p) /\ Len(p) = n /\ IsObjectTree(u)
                     => FindPath(SetPath(u, p, new), p) = new}
<1>1. 0 \in P
  BY PathLength
<1>2. ASSUME NEW n \in P PROVE n + 1 \in P
  <2>n. n \in Nat /\ n + 1 \in Nat
    OBVIOUS
  <2> SUFFICES ASSUME NEW u, NEW p, IsPath(p), Len(p) = n + 1, IsObjectTree(u)
               PROVE  FindPath(SetPath(u, p, new), p) = new
    BY <2>n
  <2>w. PICK w : w = SetPath(u, p, new)
    OBVIOUS
  <2>0. w # nullptr
    BY <2>w, SetPathTree, ObjectTreeIsThere
  <2>1. CASE Len(p) = 1
    <3>1. FindKey(w, p[1]) = new
      BY <2>w, <2>1, SetPathPuts DEF Put
    <3> QED  BY <2>w, <2>0, <2>1, <3>1, FindPathOne
  <2>2. CASE Len(p) # 1
    <3>1. PICK a : IsRest(p, a)
      BY <2>2, RestExists
    <3>2. PICK d : d = DownOrNew(u, p[1])
      OBVIOUS
    <3>3. PICK x : x = SetPath(d, a, new)
      OBVIOUS
    <3>4. IsObjectTree(x) /\ Put(u, p, new, x)
      BY <3>1, <3>2, <3>3, SetPathPutsRest
    <3>5. Down(w, p[1]) = x
      BY <2>w, <3>4, DownPut DEF IsObjectTree
    <3>6. FindPath(w, p) = FindPath(x, a)
      BY <3>1, <3>5, FindPathRest
    <3>7. IsPath(a) /\ Len(a) = n /\ IsObjectTree(d)
      BY <2>n, <3>1, <3>2, PathLength, DownOrNewTree DEF IsRest
    <3>8. FindPath(x, a) = new
      BY <3>3, <3>7
    <3> QED  BY <2>w, <3>6, <3>8
  <2> QED  BY <2>1, <2>2
<1>3. P \in SUBSET Nat
  OBVIOUS
<1> HIDE DEF P
<1>4. Len(path) \in P
  BY <1>1, <1>2, <1>3, InductiveSet, PathLength
<1> QED  BY <1>4 DEF P

\* q is p and then s.
Then(q, p, s) ==
  /\ Len(q) = Len(p) + Len(s)
  /\ \A i \in 1..Len(p) : q[i] = p[i]
  /\ \A i \in 1..Len(s) : q[Len(p) + i] = s[i]

LEMMA ThenRest ==
  ASSUME NEW p, NEW q, NEW s, NEW a, NEW b,
         IsPath(s), IsRest(p, a), IsRest(q, b), Then(q, p, s)
  PROVE  Then(b, a, s) /\ q[1] = p[1]
<1>1. /\ Len(a) \in Nat \ {0} /\ Len(p) = Len(a) + 1
      /\ Len(b) \in Nat \ {0} /\ Len(q) = Len(b) + 1
      /\ Len(s) \in Nat \ {0}
  BY PathLength DEF IsRest
<1>2. Len(b) = Len(a) + Len(s)
  BY <1>1 DEF Then
<1>3. 1 \in 1..Len(p)
  BY <1>1
<1>4. ASSUME NEW i \in 1..Len(a) PROVE b[i] = a[i]
  <2>1. i \in 1..Len(b) /\ i + 1 \in 1..Len(p)
    BY <1>1, <1>2
  <2> QED  BY <1>4, <2>1 DEF IsRest, Then
<1>5. ASSUME NEW i \in 1..Len(s) PROVE b[Len(a) + i] = s[i]
  <2>1. Len(a) + i \in 1..Len(b) /\ (Len(a) + i) + 1 = Len(p) + i
    BY <1>1, <1>2
  <2> QED  BY <2>1 DEF IsRest, Then
<1> QED  BY <1>2, <1>3, <1>4, <1>5 DEF Then

\* Below what is set there is what it contains.
LEMMA FindBelow ==
  ASSUME NEW v, NEW path, NEW new, NEW q, NEW s, IsPath(path), IsPath(q), IsPath(s),
         IsObjectTree(v), IsTree(new), Then(q, path, s)
  PROVE  FindPath(SetPath(v, path, new), q)
           = IF new.type = "kObject" THEN FindPath(new, s) ELSE nullptr
<1>t. PICK t : t = IF new.type = "kObject" THEN FindPath(new, s) ELSE nullptr
  OBVIOUS
<1> DEFINE P == {n \in Nat : \A u, p, r :
                   IsPath(p) /\ Len(p) = n /\ IsPath(r) /\ IsObjectTree(u) /\ Then(r, p, s)
                     => FindPath(SetPath(u, p, new), r) = t}
<1>1. 0 \in P
  BY PathLength
<1>2. ASSUME NEW n \in P PROVE n + 1 \in P
  <2>n. n \in Nat /\ n + 1 \in Nat
    OBVIOUS
  <2> SUFFICES ASSUME NEW u, NEW p, NEW r, IsPath(p), Len(p) = n + 1, IsPath(r),
                      IsObjectTree(u), Then(r, p, s)
               PROVE  FindPath(SetPath(u, p, new), r) = t
    BY <2>n
  <2>w. PICK w : w = SetPath(u, p, new)
    OBVIOUS
  <2>0. w # nullptr
    BY <2>w, SetPathTree, ObjectTreeIsThere
  <2>l. Len(r) # 1 /\ Len(s) \in Nat \ {0} /\ Len(r) = Len(p) + Len(s)
    <3>1. Len(s) \in Nat \ {0} /\ Len(p) \in Nat \ {0}
      BY PathLength
    <3>2. Len(r) = Len(p) + Len(s)
      BY DEF Then
    <3> QED  BY <3>1, <3>2
  <2>b. PICK b : IsRest(r, b)
    BY <2>l, RestExists
  <2>1. CASE Len(p) = 1
    <3>1. r[1] = p[1]
      <4>1. 1 \in 1..Len(p)
        BY <2>1
      <4> QED  BY <4>1 DEF Then
    <3>2. IsRest(r, s)
      <4>1. Len(r) = Len(s) + 1
        BY <2>1, <2>l
      <4>2. ASSUME NEW i \in 1..Len(s) PROVE s[i] = r[i + 1]
        <5>1. r[Len(p) + i] = s[i]
          BY DEF Then
        <5>2. Len(p) + i = i + 1
          BY <2>1, <2>l
        <5> QED  BY <5>1, <5>2
      <4> QED  BY <4>1, <4>2 DEF IsRest
    <3>3. Put(u, p, new, new)
      BY <2>1, SetPathPuts
    <3>4. Down(w, r[1]) = IF new.type = "kObject" THEN new ELSE nullptr
      BY <2>w, <3>1, <3>3, DownPut
    <3>5. FindPath(w, r) = FindPath(Down(w, r[1]), s)
      BY <3>2, FindPathRest
    <3>6. CASE new.type = "kObject"
      <4>1. Down(w, r[1]) = new /\ t = FindPath(new, s)
        BY <1>t, <3>4, <3>6
      <4> QED  BY <2>w, <3>5, <4>1
    <3>7. CASE new.type # "kObject"
      <4>1. Down(w, r[1]) = nullptr /\ t = nullptr
        BY <1>t, <3>4, <3>7
      <4> QED  BY <2>w, <3>5, <4>1, FindInNothing
    <3> QED  BY <3>6, <3>7
  <2>2. CASE Len(p) # 1
    <3>1. PICK a : IsRest(p, a)
      BY <2>2, RestExists
    <3>2. PICK d : d = DownOrNew(u, p[1])
      OBVIOUS
    <3>3. PICK x : x = SetPath(d, a, new)
      OBVIOUS
    <3>4. IsObjectTree(x) /\ Put(u, p, new, x)
      BY <3>1, <3>2, <3>3, SetPathPutsRest
    <3>5. Then(b, a, s) /\ r[1] = p[1]
      BY <2>b, <3>1, ThenRest
    <3>6. Down(w, r[1]) = x
      BY <2>w, <3>4, <3>5, DownPut DEF IsObjectTree
    <3>7. FindPath(w, r) = FindPath(x, b)
      BY <2>b, <3>6, FindPathRest
    <3>8. IsPath(a) /\ Len(a) = n /\ IsPath(b) /\ IsObjectTree(d)
      BY <2>n, <2>b, <3>1, <3>2, PathLength, DownOrNewTree DEF IsRest
    <3>9. FindPath(x, b) = t
      BY <3>3, <3>5, <3>8
    <3> QED  BY <2>w, <3>7, <3>9
  <2> QED  BY <2>1, <2>2
<1>3. P \in SUBSET Nat
  OBVIOUS
<1> HIDE DEF P
<1>4. Len(path) \in P
  BY <1>1, <1>2, <1>3, InductiveSet, PathLength
<1>5. FindPath(SetPath(v, path, new), q) = t
  BY <1>4 DEF P
<1> QED  BY <1>5, <1>t

-----------------------------------------------------------------------------
(* Two paths *)

LEMMA PrefixIs ==
  ASSUME NEW p, NEW q, IsPath(p), IsPath(q)
  PROVE  IsPrefix(p, q) <=> Len(p) <= Len(q) /\ \A i \in 1..Len(p) : p[i] = q[i]
<1>1. PICK n : n = Len(p)
  OBVIOUS
<1>2. PICK m : m = Len(q)
  OBVIOUS
<1>3. n \in Nat \ {0} /\ m \in Nat \ {0} /\ p \in Seq(Nat) /\ q \in Seq(Nat)
  BY <1>1, <1>2, PathLength DEF IsPath
<1>4. PICK a : a = SubSeq(p, 1, n)
  OBVIOUS
<1>5. PICK b : b = SubSeq(q, 1, n)
  OBVIOUS
<1>6. IsPrefix(p, q) <=> n <= m /\ a = b
  BY <1>1, <1>2, <1>4, <1>5 DEF IsPrefix
<1>7. ASSUME n <= m PROVE a = b <=> \A i \in 1..n : p[i] = q[i]
  <2>1. a = [i \in 1..n |-> p[i]]
    BY <1>1, <1>3, <1>4
  <2>2. b = [i \in 1..n |-> q[i]]
    BY <1>2, <1>3, <1>5, <1>7
  <2>3. ASSUME a = b, NEW i \in 1..n PROVE p[i] = q[i]
    <3>1. a[i] = p[i] /\ b[i] = q[i]
      BY <2>1, <2>2
    <3> QED  BY <2>3, <3>1
  <2>4. ASSUME \A i \in 1..n : p[i] = q[i] PROVE a = b
    BY <2>1, <2>2, <2>4
  <2> QED  BY <2>3, <2>4
<1> QED  BY <1>1, <1>2, <1>6, <1>7

LEMMA SamePath ==
  ASSUME NEW p, NEW q, IsPath(p), IsPath(q), Len(p) = Len(q), \A i \in 1..Len(p) : p[i] = q[i]
  PROVE  p = q
BY SeqEqual DEF IsPath

LEMMA PathItself ==
  ASSUME NEW p, IsPath(p)
  PROVE  IsPrefix(p, p) /\ SubSeq(p, Len(p) + 1, Len(p)) = <<>>
<1>1. Len(p) \in Nat
  BY PathLength
<1>2. IsPrefix(p, p)
  BY <1>1, PrefixIs
<1>3. SubSeq(p, Len(p) + 1, Len(p)) = <<>>
  BY <1>1 DEF IsPath
<1> QED  BY <1>2, <1>3

\* A path below another one is that one and then what remains.
LEMMA PathBelow ==
  ASSUME NEW p, NEW q, IsPath(p), IsPath(q), IsPrefix(p, q), p # q
  PROVE  LET s == SubSeq(q, Len(p) + 1, Len(q)) IN IsPath(s) /\ Then(q, p, s)
<1>1. PICK n : n = Len(p)
  OBVIOUS
<1>2. PICK m : m = Len(q)
  OBVIOUS
<1>3. n \in Nat \ {0} /\ m \in Nat \ {0} /\ q \in Seq(Nat)
  BY <1>1, <1>2, PathLength DEF IsPath
<1>4. n <= m /\ \A i \in 1..n : p[i] = q[i]
  BY <1>1, <1>2, PrefixIs
<1>5. n # m
  BY <1>1, <1>2, <1>4, SamePath
<1>6. n < m /\ n + 1 \in 1..m /\ m \in 1..m /\ m - n \in Nat \ {0}
  BY <1>3, <1>4, <1>5
<1>7. PICK s : s = SubSeq(q, n + 1, m)
  OBVIOUS
<1>8. /\ s \in Seq(Nat) /\ Len(s) = m - n
      /\ \A i \in 1..m - n : s[i] = q[n + i]
  <2>1. \A i \in 1..m : q[i] \in Nat
    BY <1>2, <1>3, ElementOfSeq
  <2>2. s = [i \in 1..m - n |-> q[n + i]]
    <3>1. s = [i \in 1..(m - (n + 1)) + 1 |-> q[((n + 1) + i) - 1]]
      BY <1>2, <1>3, <1>6, <1>7
    <3>2. (m - (n + 1)) + 1 = m - n
      BY <1>3
    <3>3. \A i \in 1..m - n : ((n + 1) + i) - 1 = n + i
      BY <1>3
    <3> QED  BY <3>1, <3>2, <3>3
  <2>3. ASSUME NEW i \in 1..m - n PROVE q[n + i] \in Nat
    <3>1. n + i \in 1..m
      BY <1>3, <1>6
    <3> QED  BY <2>1, <3>1
  <2>4. s \in [1..m - n -> Nat]
    BY <2>2, <2>3
  <2> QED  BY <1>6, <2>2, <2>4
<1>9. s # <<>>
  BY <1>6, <1>8, EmptySeq
<1>10. m = n + (m - n)
  BY <1>3
<1>11. Then(q, p, s)
  BY <1>1, <1>2, <1>4, <1>8, <1>10 DEF Then
<1> QED  BY <1>1, <1>2, <1>7, <1>8, <1>9, <1>11 DEF IsPath

LEMMA PathAbove ==
  ASSUME NEW p, NEW q, IsPath(p), IsPath(q), IsPrefix(q, p), ~IsPrefix(p, q)
  PROVE  Above(q, p)
<1>1. Len(p) \in Nat /\ Len(q) \in Nat
  BY PathLength
<1>2. Len(q) <= Len(p) /\ \A i \in 1..Len(q) : q[i] = p[i]
  BY PrefixIs
<1>3. Len(q) # Len(p)
  <2>1. p # q
    BY PathItself
  <2> QED  BY <1>2, <2>1, SamePath
<1> QED  BY <1>1, <1>2, <1>3 DEF Above

LEMMA PathApart ==
  ASSUME NEW p, NEW q, IsPath(p), IsPath(q), ~IsPrefix(q, p), ~IsPrefix(p, q)
  PROVE  Apart(p, q)
<1>1. Len(p) \in Nat /\ Len(q) \in Nat
  BY PathLength
<1>2. CASE Len(p) <= Len(q)
  <2>1. PICK i \in 1..Len(p) : p[i] # q[i]
    BY <1>2, PrefixIs
  <2>2. i <= Len(q)
    BY <1>1, <1>2
  <2> QED  BY <2>1, <2>2 DEF Apart
<1>3. CASE Len(q) <= Len(p)
  <2>1. PICK i \in 1..Len(q) : q[i] # p[i]
    BY <1>3, PrefixIs
  <2>2. i \in 1..Len(p) /\ i <= Len(q)
    BY <1>1, <1>3
  <2> QED  BY <2>1, <2>2 DEF Apart
<1> QED  BY <1>1, <1>2, <1>3

-----------------------------------------------------------------------------
(* The invariant *)

LEMMA PathsArePaths ==
  ASSUME NEW p \in Paths
  PROVE  IsPath(p)
BY PreferencesAssumption DEF IsPath

LEMMA MadeAreTrees ==
  ASSUME NEW s \in Settable \cup Defaults
  PROVE  IsTree(Made(s.kind, s.x))
<1>1. PICK v : v = Made(s.kind, s.x)
  OBVIOUS
<1>2. v \in Contents /\ IsClosed(Contents)
  BY <1>1, PreferencesAssumption DEF IsClosed
<1> QED  BY <1>1, <1>2 DEF IsTree

LEMMA GivenAreTrees ==
  ASSUME NEW v \in Given
  PROVE  IsTree(v)
<1>1. PICK s \in Settable : v = Made(s.kind, s.x)
  BY DEF Given
<1> QED  BY <1>1, MadeAreTrees

DefaultsAreSound ==
  /\ Registered \subseteq Paths
  /\ \A p \in Registered : IsTree(defaults[p])

SetWithTheirType ==
  /\ DOMAIN last \subseteq Registered
  /\ \A p \in DOMAIN last : IsTree(last[p]) /\ last[p].type = defaults[p].type

FoundWhereSet ==
  \A p \in Paths : Alone(p) =>
    FindPath(values, p) = IF p \in DOMAIN last THEN last[p] ELSE nullptr

IInv ==
  /\ IsObjectTree(values)
  /\ DefaultsAreSound
  /\ SetWithTheirType
  /\ FoundWhereSet

LEMMA InitIInv == Init => IInv
<1> SUFFICES ASSUME Init PROVE IInv
  OBVIOUS
<1>1. IsObjectTree(values)
  BY EmptyObject DEF Init
<1>2. DefaultsAreSound /\ SetWithTheirType
  BY DEF Init, DefaultsAreSound, SetWithTheirType, Registered
<1>3. FoundWhereSet
  <2> SUFFICES ASSUME NEW p \in Paths
               PROVE  FindPath(values, p) = IF p \in DOMAIN last THEN last[p] ELSE nullptr
    BY DEF FoundWhereSet
  <2>1. p \notin DOMAIN last
    BY DEF Init
  <2>2. FindPath(values, p) = nullptr
    BY FindInEmpty, PathsArePaths DEF Init
  <2> QED  BY <2>1, <2>2
<1> QED  BY <1>1, <1>2, <1>3 DEF IInv

\* Every step registers a preference or sets one to a value of Given.
LEMMA StepIs ==
  ASSUME Next
  PROVE  \E p \in Paths :
           \/ \E d \in Defaults : RegisterPreference(p, Made(d.kind, d.x))
           \/ \E v \in Given : SetValue(p, v)
<1>1. PICK p \in Paths :
        \/ \E d \in Defaults : MayBeMade(d.kind, d.x) /\ Register(d.kind, p, d.x)
        \/ \E s \in Settable : MayBeMade(s.kind, s.x) /\ Set(s.kind, p, s.x)
        \/ \E q \in Paths : \E k \in Range(q) : SetFromObject(p, q, k)
  BY DEF Next
<1>2. CASE \E d \in Defaults : MayBeMade(d.kind, d.x) /\ Register(d.kind, p, d.x)
  BY <1>2 DEF Register
<1>3. CASE \E s \in Settable : MayBeMade(s.kind, s.x) /\ Set(s.kind, p, s.x)
  <2>1. PICK s \in Settable : Set(s.kind, p, s.x)
    BY <1>3
  <2>2. Made(s.kind, s.x) \in Given /\ SetValue(p, Made(s.kind, s.x))
    BY <2>1 DEF Given, Set
  <2> QED  BY <2>2
<1>4. CASE \E q \in Paths : \E k \in Range(q) : SetFromObject(p, q, k)
  <2>1. PICK q, k : SetFromObject(p, q, k)
    BY <1>4
  <2>2. \E v : v \in Given /\ SetValue(p, v)
    BY <2>1 DEF SetFromObject, Set
  <2> QED  BY <2>2
<1> QED  BY <1>1, <1>2, <1>3, <1>4

LEMMA RegisterIInv ==
  ASSUME IInv, NEW path \in Paths, NEW d \in Defaults,
         RegisterPreference(path, Made(d.kind, d.x))
  PROVE  IInv'
<1>1. PICK v : v = Made(d.kind, d.x)
  OBVIOUS
<1>2. IsTree(v) /\ Constructed(v) = v
  BY <1>1, MadeAreTrees, TreeFacts, ConstructedIs
<1>3. /\ path \notin Registered /\ UNCHANGED <<values, last>>
      /\ defaults' = [p \in Registered \cup {path} |-> IF p = path THEN v ELSE defaults[p]]
  BY <1>1, <1>2 DEF RegisterPreference
<1>4. IsObjectTree(values)'
  BY <1>3 DEF IInv
<1>5. DefaultsAreSound'
  BY <1>2, <1>3 DEF IInv, DefaultsAreSound, Registered
<1>6. SetWithTheirType'
  <2>1. DOMAIN last' \subseteq Registered' /\ \A p \in DOMAIN last : defaults'[p] = defaults[p]
    BY <1>3 DEF IInv, SetWithTheirType, Registered
  <2> QED  BY <1>3, <2>1 DEF IInv, SetWithTheirType
<1>7. FoundWhereSet'
  BY <1>3 DEF IInv, FoundWhereSet, Alone
<1> QED  BY <1>4, <1>5, <1>6, <1>7 DEF IInv

LEMMA SetIInv ==
  ASSUME IInv, NEW path \in Paths, NEW v \in Given, SetValue(path, v)
  PROVE  IInv'
<1>1. IsTree(v) /\ IsPath(path)
  BY GivenAreTrees, PathsArePaths
<1>2. /\ path \in Registered /\ v.type = defaults[path].type
      /\ values' = SetPath(values, path, v) /\ UNCHANGED defaults
      /\ last' = [p \in DOMAIN last \cup {path} |-> IF p = path THEN v ELSE last[p]]
  BY DEF SetValue, StoreValue
<1>3. IsObjectTree(values')
  BY <1>1, <1>2, SetPathTree DEF IInv
<1>4. DefaultsAreSound'
  BY <1>2 DEF IInv, DefaultsAreSound, Registered
<1>5. SetWithTheirType'
  BY <1>1, <1>2 DEF IInv, SetWithTheirType, Registered
<1>6. FoundWhereSet'
  <2> SUFFICES ASSUME NEW p \in Paths, Alone(p)'
               PROVE  FindPath(values', p) = IF p \in DOMAIN last' THEN last'[p] ELSE nullptr
    BY DEF FoundWhereSet
  <2>1. CASE p = path
    <3>1. FindPath(values', path) = v
      BY <1>1, <1>2, FindAt DEF IInv
    <3> QED  BY <1>2, <2>1, <3>1
  <2>2. CASE p # path
    <3>1. DOMAIN last' = DOMAIN last \cup {path}
      BY <1>2
    <3>2. Alone(p) /\ ~IsPrefix(path, p) /\ ~IsPrefix(p, path)
      BY <2>2, <3>1 DEF Alone
    <3>3. Apart(path, p)
      BY <1>1, <3>2, PathApart, PathsArePaths
    <3>4. FindPath(values', p) = FindPath(values, p)
      BY <1>1, <1>2, <3>3, FindApart, PathsArePaths DEF IInv
    <3>5. FindPath(values, p) = IF p \in DOMAIN last THEN last[p] ELSE nullptr
      BY <3>2 DEF IInv, FoundWhereSet
    <3>6. p \in DOMAIN last' <=> p \in DOMAIN last
      BY <2>2, <3>1
    <3>7. p \in DOMAIN last => last'[p] = last[p]
      BY <1>2, <2>2
    <3> QED  BY <3>4, <3>5, <3>6, <3>7
  <2> QED  BY <2>1, <2>2
<1> QED  BY <1>3, <1>4, <1>5, <1>6 DEF IInv

\* The invariant holds in every state of every behaviour.
THEOREM Invariance == Spec => []IInv
<1>1. IInv /\ [Next]_vars => IInv'
  <2> SUFFICES ASSUME IInv, [Next]_vars PROVE IInv'
    OBVIOUS
  <2>1. CASE Next
    <3>1. PICK p \in Paths :
            \/ \E d \in Defaults : RegisterPreference(p, Made(d.kind, d.x))
            \/ \E v \in Given : SetValue(p, v)
      BY <2>1, StepIs
    <3> QED  BY <3>1, RegisterIInv, SetIInv
  <2>2. CASE UNCHANGED vars
    BY <2>2 DEF vars, IInv, DefaultsAreSound, SetWithTheirType, FoundWhereSet, Alone, Registered
  <2> QED  BY <2>1, <2>2
<1> QED  BY InitIInv, <1>1, PTL DEF Spec

-----------------------------------------------------------------------------
(* What the preferences read as *)

LEMMA ReadIs ==
  ASSUME IInv, NEW p \in Registered, Alone(p)
  PROVE  Read(p) = IF p \in DOMAIN last THEN last[p] ELSE defaults[p]
<1>1. p \in Paths
  BY DEF IInv, DefaultsAreSound
<1>2. FindPath(values, p) = IF p \in DOMAIN last THEN last[p] ELSE nullptr
  BY <1>1 DEF IInv, FoundWhereSet
<1>3. p \in DOMAIN last => last[p] # nullptr
  BY TreeFacts, SoundIsThere DEF IInv, SetWithTheirType
<1> QED  BY <1>2, <1>3 DEF Read, StoredValue

\* OwnValueReadBack: whatever is set at other paths, neither above nor below,
\* a preference reads as what SetValue() last stored for it, or as its default.
THEOREM ReadsBackOwn == Spec => []OwnValueReadBack
<1>1. IInv => OwnValueReadBack
  BY ReadIs DEF OwnValueReadBack
<1> QED  BY Invariance, <1>1, PTL

\* Except for ints, a getter tells values apart by their type only.
LEMMA KindIsType ==
  ASSUME NEW v, NEW w, NEW kind \in Kinds \ {"Int"}, v.type = w.type, IsOf(v, kind)
  PROVE  IsOf(w, kind)
<1>1. kind \in {"Bool", "Double", "String", "Array", "Object"}
  BY DEF Kinds
<1> QED  BY <1>1 DEF IsOf

\* GettersDoNotAssert: where their own assertions hold, GetInt() and the others
\* read a value of the kind that they ask for, but for GetInt() of a preference
\* that was set to a number that is no int.
THEOREM GettersAreRight == Spec => []GettersDoNotAssert
<1>1. ASSUME IInv PROVE GettersDoNotAssert
  <2> SUFFICES ASSUME NEW p \in Registered, NEW kind \in Kinds, MayGet(kind, p), Alone(p)
               PROVE  GetPreference(kind, p) = {}
                        <=> kind = "Int" /\ p \in DOMAIN last /\ ~IsOf(last[p], "Int")
    BY DEF GettersDoNotAssert
  <2>1. Read(p) = IF p \in DOMAIN last THEN last[p] ELSE defaults[p]
    BY <1>1, ReadIs
  <2>2. IsOf(defaults[p], kind)
    BY DEF MayGet
  <2>3. IsOf(Read(p), kind)
          <=> ~(kind = "Int" /\ p \in DOMAIN last /\ ~IsOf(last[p], "Int"))
    <3>1. CASE p \notin DOMAIN last
      BY <2>1, <2>2, <3>1
    <3>2. CASE p \in DOMAIN last
      <4>1. last[p].type = defaults[p].type
        BY <1>1, <3>2 DEF IInv, SetWithTheirType
      <4>2. CASE kind = "Int"
        BY <2>1, <3>2, <4>2
      <4>3. CASE kind # "Int"
        <5>1. IsOf(last[p], kind)
          BY <2>2, <4>1, <4>3, KindIsType
        <5> QED  BY <2>1, <3>2, <4>3, <5>1
      <4> QED  BY <4>2, <4>3
    <3> QED  BY <3>1, <3>2
  <2>4. GetPreference(kind, p) = {} <=> ~IsOf(Read(p), kind)
    BY DEF GetPreference
  <2> QED  BY <2>3, <2>4
<1> QED  BY Invariance, <1>1, PTL

-----------------------------------------------------------------------------
(* The values in the store *)

\* The values n levels down.
LevelAt(level, v, i) ==
  level[i] = IF i = 0 THEN {v} ELSE UNION {Children(w) : w \in level[i - 1]}

Levels(level, v, n) ==
  level = [i \in 0..n |-> level[i]] /\ \A i \in 0..n : LevelAt(level, v, i)

LEMMA LevelsExist ==
  ASSUME NEW v, NEW k \in Nat
  PROVE  \E level : Levels(level, v, k)
<1> DEFINE P == {n \in Nat : \E level : Levels(level, v, n)}
<1>1. 0 \in P
  <2>1. PICK level : level = [i \in 0..0 |-> {v}]
    OBVIOUS
  <2>2. Levels(level, v, 0)
    BY <2>1 DEF Levels, LevelAt
  <2> QED  BY <2>2
<1>2. ASSUME NEW n \in P PROVE n + 1 \in P
  <2>1. PICK f : Levels(f, v, n)
    OBVIOUS
  <2>n. n \in Nat
    OBVIOUS
  <2> HIDE DEF P
  <2>2. PICK last1 : last1 = UNION {Children(w) : w \in f[n]}
    OBVIOUS
  <2>3. PICK g : g = [i \in 0..n + 1 |-> IF i = n + 1 THEN last1 ELSE f[i]]
    OBVIOUS
  <2>4. ASSUME NEW i \in 0..n PROVE i \in 0..n + 1 /\ g[i] = f[i]
    BY <2>n, <2>3
  <2>5. ASSUME NEW i \in 0..n + 1 PROVE LevelAt(g, v, i)
    <3>1. CASE i = n + 1
      <4>1. n \in 0..n /\ i - 1 = n /\ i # 0
        BY <2>n, <3>1
      <4>2. g[i] = last1 /\ g[i - 1] = f[n]
        BY <2>3, <2>4, <3>1, <4>1
      <4> QED  BY <2>2, <4>1, <4>2 DEF LevelAt
    <3>2. CASE i # n + 1
      <4>1. i \in 0..n /\ (i # 0 => i - 1 \in 0..n)
        BY <2>n, <3>2
      <4>2. LevelAt(f, v, i)
        BY <2>1, <4>1 DEF Levels
      <4>3. g[i] = f[i] /\ (i # 0 => g[i - 1] = f[i - 1])
        BY <2>4, <4>1
      <4>4. CASE i = 0
        BY <4>2, <4>3, <4>4 DEF LevelAt
      <4>5. CASE i # 0
        BY <4>2, <4>3, <4>5 DEF LevelAt
      <4> QED  BY <4>4, <4>5
    <3> QED  BY <3>1, <3>2
  <2>6. Levels(g, v, n + 1)
    BY <2>3, <2>5 DEF Levels
  <2>7. n + 1 \in Nat
    BY <2>n
  <2> QED  BY <2>6, <2>7 DEF P
<1>3. P \in SUBSET Nat
  OBVIOUS
<1> HIDE DEF P
<1>4. k \in P
  BY <1>1, <1>2, <1>3, InductiveSet
<1> QED  BY <1>4 DEF P

LEMMA PartsAre ==
  ASSUME NEW v
  PROVE  \E level : /\ Levels(level, v, MaxDepth)
                    /\ Parts(v) = UNION {level[n] : n \in 0..MaxDepth}
<1> DEFINE Step(g) == [n \in 0..MaxDepth |->
                         IF n = 0 THEN {v} ELSE UNION {Children(w) : w \in g[n - 1]}]
           level1 == CHOOSE g : g = Step(g)
<1>1. Parts(v) = UNION {level1[n] : n \in 0..MaxDepth}
  BY DEF Parts
<1>2. \A g : Step(g) = [n \in 0..MaxDepth |-> Step(g)[n]]
  OBVIOUS
<1>3. \A g : \A n \in 0..MaxDepth :
        Step(g)[n] = IF n = 0 THEN {v} ELSE UNION {Children(w) : w \in g[n - 1]}
  OBVIOUS
<1> HIDE DEF Step
<1>4. \E g : g = Step(g)
  <2>1. PICK g : Levels(g, v, MaxDepth)
    BY LevelsExist, PreferencesAssumption
  <2>2. PICK h : h = Step(g)
    OBVIOUS
  <2>3. \A i \in 0..MaxDepth : h[i] = g[i]
    BY <1>3, <2>1, <2>2 DEF Levels, LevelAt
  <2>4. h = [n \in 0..MaxDepth |-> h[n]]
    BY <1>2, <2>2
  <2>5. g = h
    BY <2>1, <2>3, <2>4 DEF Levels
  <2> QED  BY <2>2, <2>5
<1>5. PICK f : f = level1
  OBVIOUS
<1>6. f = Step(f)
  BY <1>4, <1>5
<1>7. f = [n \in 0..MaxDepth |-> f[n]]
  BY <1>2, <1>6
<1>8. \A n \in 0..MaxDepth : LevelAt(f, v, n)
  BY <1>3, <1>6 DEF LevelAt
<1>9. Levels(f, v, MaxDepth)
  BY <1>7, <1>8 DEF Levels
<1> HIDE DEF level1
<1> QED  BY <1>1, <1>5, <1>9

\* All values in a tree are sound.
LEMMA TreePartsSound ==
  ASSUME NEW v, IsTree(v), NEW w \in Parts(v)
  PROVE  IsSound(w)
<1>1. PICK level : /\ Levels(level, v, MaxDepth)
                   /\ Parts(v) = UNION {level[n] : n \in 0..MaxDepth}
  BY PartsAre
<1>2. PICK S : v \in S /\ IsClosed(S)
  BY DEF IsTree
<1> DEFINE P == {n \in Nat : n \in 0..MaxDepth => level[n] \subseteq S}
<1>3. 0 \in P
  <2>1. 0 \in 0..MaxDepth => LevelAt(level, v, 0)
    BY <1>1 DEF Levels
  <2> QED  BY <1>2, <2>1 DEF LevelAt
<1>4. ASSUME NEW n \in P PROVE n + 1 \in P
  <2>n. n \in Nat /\ n + 1 \in Nat /\ n + 1 # 0 /\ (n + 1) - 1 = n
    OBVIOUS
  <2> SUFFICES ASSUME n + 1 \in 0..MaxDepth PROVE level[n + 1] \subseteq S
    BY <2>n
  <2>1. n \in 0..MaxDepth
    BY <2>n, PreferencesAssumption
  <2>2. level[n] \subseteq S
    BY <2>1
  <2>3. LevelAt(level, v, n + 1)
    BY <1>1 DEF Levels
  <2>4. level[n + 1] = UNION {Children(x) : x \in level[n]}
    BY <2>n, <2>3 DEF LevelAt
  <2>5. \A x \in level[n] : Children(x) \subseteq S
    BY <1>2, <2>2 DEF IsClosed
  <2> QED  BY <2>4, <2>5
<1>5. P \in SUBSET Nat
  OBVIOUS
<1> HIDE DEF P
<1>6. \A n \in Nat : n \in P
  BY <1>3, <1>4, <1>5, InductiveSet
<1>7. PICK n \in 0..MaxDepth : w \in level[n]
  BY <1>1
<1>8. n \in Nat
  BY <1>7, PreferencesAssumption
<1>9. level[n] \subseteq S
  BY <1>6, <1>7, <1>8 DEF P
<1> QED  BY <1>2, <1>7, <1>9 DEF IsClosed

\* TypeNamesTheMember: every value in the store has exactly the member of the
\* union that its type_ names, after any number of assignments.
THEOREM SoundEverywhere == Spec => []TypeNamesTheMember
<1>1. IInv => TypeNamesTheMember
  BY TreePartsSound DEF IInv, IsObjectTree, TypeNamesTheMember
<1> QED  BY Invariance, <1>1, PTL

-----------------------------------------------------------------------------
(* The store of values at paths *)

Finds == [p \in Paths |-> Shape(FindPath(values, p))]

LEMMA ShapeOfNothing == Shape(nullptr) = [type |-> "nothing"]
BY DEF Shape

LEMMA ShapeOfObject ==
  ASSUME NEW v, IsObjectTree(v)
  PROVE  Shape(v) = [type |-> "kObject"]
BY ObjectTreeIsThere DEF Shape, IsObjectTree

LEMMA InitStore == Init => Store!Init
<1> SUFFICES ASSUME Init PROVE Store!Init
  OBVIOUS
<1>1. ASSUME NEW p \in Paths PROVE Shape(FindPath(values, p)) = [type |-> "nothing"]
  BY FindInEmpty, PathsArePaths, ShapeOfNothing DEF Init
<1>2. [p \in Paths |-> Shape(FindPath(values, p))] = [p \in Paths |-> [type |-> "nothing"]]
  BY <1>1, Zenon
<1>3. last = [p \in {} |-> [type |-> "nothing"]]
  BY DEF Init
<1> QED  BY <1>2, <1>3 DEF Store!Init

\* What is found at one path after a value has been stored at another.
LEMMA StoreFinds ==
  ASSUME NEW root, NEW path \in Paths, NEW v, NEW p \in Paths, IsObjectTree(root), IsTree(v)
  PROVE  Shape(FindPath(SetPath(root, path, v), p))
           = IF IsPrefix(path, p) THEN Contained(v, SubSeq(p, Len(path) + 1, Len(p)))
             ELSE IF IsPrefix(p, path) THEN [type |-> "kObject"]
             ELSE Shape(FindPath(root, p))
<1>0. IsPath(path) /\ IsPath(p)
  BY PathsArePaths
<1>w. PICK found : found = FindPath(SetPath(root, path, v), p)
  OBVIOUS
<1>1. CASE path = p
  <2>1. found = v
    BY <1>0, <1>1, <1>w, FindAt
  <2>2. IsPrefix(path, p) /\ SubSeq(p, Len(path) + 1, Len(p)) = <<>>
    BY <1>0, <1>1, PathItself
  <2>3. Contained(v, <<>>) = Shape(v)
    BY DEF Contained
  <2> QED  BY <1>w, <2>1, <2>2, <2>3
<1>2. CASE path # p /\ IsPrefix(path, p)
  <2>1. PICK s : s = SubSeq(p, Len(path) + 1, Len(p))
    OBVIOUS
  <2>2. IsPath(s) /\ Then(p, path, s)
    BY <1>0, <1>2, <2>1, PathBelow
  <2>3. s # <<>>
    BY <2>2 DEF IsPath
  <2>4. found = IF v.type = "kObject" THEN FindPath(v, s) ELSE nullptr
    BY <1>0, <1>w, <2>2, FindBelow
  <2>5. Contained(v, s) = IF v.type = "kObject" THEN Shape(FindPath(v, s))
                          ELSE [type |-> "nothing"]
    BY <2>3 DEF Contained
  <2>6. Shape(found) = Contained(v, s)
    BY <2>4, <2>5, ShapeOfNothing
  <2> QED  BY <1>2, <1>w, <2>1, <2>6
<1>3. CASE ~IsPrefix(path, p) /\ IsPrefix(p, path)
  <2>1. Above(p, path)
    BY <1>0, <1>3, PathAbove
  <2>2. IsObjectTree(found)
    BY <1>0, <1>w, <2>1, FindAbove
  <2> QED  BY <1>3, <1>w, <2>2, ShapeOfObject
<1>4. CASE ~IsPrefix(path, p) /\ ~IsPrefix(p, path)
  <2>1. Apart(path, p)
    BY <1>0, <1>4, PathApart
  <2>2. found = FindPath(root, p)
    BY <1>0, <1>w, <2>1, FindApart
  <2> QED  BY <1>4, <1>w, <2>2
<1> QED  BY <1>1, <1>2, <1>3, <1>4

LEMMA SetStores ==
  ASSUME IInv, NEW path \in Paths, NEW v \in Given, SetValue(path, v)
  PROVE  Store!Store(path, v)
<1>1. IsObjectTree(values) /\ IsTree(v)
  BY GivenAreTrees DEF IInv
<1>2. /\ values' = SetPath(values, path, v)
      /\ last' = [p \in DOMAIN last \cup {path} |-> IF p = path THEN v ELSE last[p]]
  BY DEF SetValue, StoreValue
<1>3. PICK f : f = Finds
  OBVIOUS
<1>4. \A p \in Paths : f[p] = Shape(FindPath(values, p))
  BY <1>3 DEF Finds
<1>5. ASSUME NEW p \in Paths
      PROVE  Shape(FindPath(values', p))
               = IF IsPrefix(path, p) THEN Contained(v, SubSeq(p, Len(path) + 1, Len(p)))
                 ELSE IF IsPrefix(p, path) THEN [type |-> "kObject"]
                 ELSE f[p]
  BY <1>1, <1>2, <1>4, StoreFinds
<1>p. \A p, q : Store!IsPrefix(p, q) <=> IsPrefix(p, q)
  BY DEF Store!IsPrefix, IsPrefix
<1>6. [p \in Paths |-> Shape(FindPath(values', p))]
        = [p \in Paths |->
             IF Store!IsPrefix(path, p) THEN Contained(v, SubSeq(p, Len(path) + 1, Len(p)))
             ELSE IF Store!IsPrefix(p, path) THEN [type |-> "kObject"]
             ELSE f[p]]
  <2>1. ASSUME NEW p \in Paths
        PROVE  Shape(FindPath(values', p))
                 = IF Store!IsPrefix(path, p)
                     THEN Contained(v, SubSeq(p, Len(path) + 1, Len(p)))
                   ELSE IF Store!IsPrefix(p, path) THEN [type |-> "kObject"]
                   ELSE f[p]
    BY <1>5, <1>p
  <2> QED  BY <2>1, Zenon
<1> QED  BY <1>2, <1>3, <1>6 DEF Store!Store, Finds

\* ImplementsPathStore: SetPath() and FindPath() on a tree of objects promise
\* what a store of values at paths does: every step is one of its steps or
\* changes nothing that can be found.
THEOREM ImplementsPaths == Spec => ImplementsPathStore
<1>1. IInv /\ [Next]_vars => [Store!Next]_<<Finds, last>>
  <2> SUFFICES ASSUME IInv, [Next]_vars PROVE [Store!Next]_<<Finds, last>>
    OBVIOUS
  <2>1. CASE Next
    <3>1. PICK p \in Paths :
            \/ \E d \in Defaults : RegisterPreference(p, Made(d.kind, d.x))
            \/ \E v \in Given : SetValue(p, v)
      BY <2>1, StepIs
    <3>2. CASE \E d \in Defaults : RegisterPreference(p, Made(d.kind, d.x))
      <4>1. values' = values /\ last' = last
        BY <3>2 DEF RegisterPreference
      <4> QED  BY <4>1 DEF Finds
    <3>3. CASE \E v \in Given : SetValue(p, v)
      <4>1. PICK v \in Given : Store!Store(p, v)
        BY <3>3, SetStores
      <4> QED  BY <4>1 DEF Store!Next
    <3> QED  BY <3>1, <3>2, <3>3
  <2>2. CASE UNCHANGED vars
    BY <2>2 DEF vars, Finds
  <2> QED  BY <2>1, <2>2
<1> QED  BY InitStore, Invariance, <1>1, PTL DEF Spec, ImplementsPathStore, Store!Spec, Finds
=============================================================================
