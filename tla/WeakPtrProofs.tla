---------------------------- MODULE WeakPtrProofs ----------------------------
(***************************************************************************)
(* Proofs about NotNull and WeakPtr: an object has the owners that its     *)
(* smart pointers say, and weak pointers and bound functions lead to the   *)
(* object they were made for.                                              *)
(*                                                                         *)
(* A call takes a smart pointer from somewhere, puts it somewhere else and *)
(* gives up what was there.  In between, one smart pointer is in the hand  *)
(* of the call and in no variable; Sound says that the memory is right     *)
(* when that one is counted, too.                                          *)
(***************************************************************************)
EXTENDS WeakPtr, FiniteSetTheorems, TLAPS

\* A memory.
Memories == [ptr : [Handles -> Pointer \cup {Absent}],
             heap : [Addresses -> 0..MaxObjects],
             refs : [Addresses -> Nat],
             created : 0..MaxObjects]

\* The variables of a kind that hold the address a, and how many they are.
Held(p, kind, a) == {h \in Handles : Kind[h] = kind /\ p[h] = a}
Holders(p, kind, a) == Cardinality(Held(p, kind, a))

\* The pointer v of kind k that is in the hand of a call, counted for a.
Hand(k, v, kind, a) == IF k = kind /\ v = a THEN 1 ELSE 0

Unique(m, k, v, a) == Holders(m.ptr, "unique", a) + Hand(k, v, "unique", a)

\* The bodies that have locked a are sharers of it, as many as L[a].
Shared(m, L, k, v, a) ==
  Holders(m.ptr, "shared", a) + L[a] + Hand(k, v, "shared", a)

SoundAt(m, L, k, v, a) ==
  IF m.heap[a] = 0 THEN Unique(m, k, v, a) = 0 /\ Shared(m, L, k, v, a) = 0
  ELSE \/ Unique(m, k, v, a) = 1 /\ Shared(m, L, k, v, a) = 0
       \/ /\ Unique(m, k, v, a) = 0 /\ Shared(m, L, k, v, a) > 0
          /\ m.refs[a] = Shared(m, L, k, v, a)

Sound(m, L, k, v) == \A a \in Addresses : SoundAt(m, L, k, v, a)

Counts == [Addresses -> Nat]

-----------------------------------------------------------------------------
(* Counting *)

\* Finitely many variables hold an address.
LEMMA HoldersAre ==
  ASSUME NEW p, NEW kind, NEW a
  PROVE  IsFiniteSet(Held(p, kind, a)) /\ Holders(p, kind, a) \in Nat
BY NotNullAssumption, FS_Subset, FS_CardinalityType DEF Held, Holders

\* Whoever holds an address is counted.
LEMMA HolderCounts ==
  ASSUME NEW p, NEW h \in Handles
  PROVE  Holders(p, Kind[h], p[h]) > 0
<1>1. h \in Held(p, Kind[h], p[h])
  BY DEF Held
<1> QED
  BY <1>1, HoldersAre, FS_EmptySet DEF Holders

\* Two variables that hold an address count as two.
LEMMA TwoHolders ==
  ASSUME NEW p, NEW kind, NEW a, NEW h \in Held(p, kind, a), NEW g \in Held(p, kind, a),
         h # g
  PROVE  Holders(p, kind, a) > 1
<1> DEFINE T == Held(p, kind, a) \ {h}
<1>1. IsFiniteSet(T) /\ Cardinality(T) = Holders(p, kind, a) - 1
  BY HoldersAre, FS_RemoveElement DEF Holders
<1>2. Cardinality(T) # 0 /\ Cardinality(T) \in Nat
  BY <1>1, FS_EmptySet, FS_CardinalityType
<1> QED
  BY <1>1, <1>2, HoldersAre

\* A variable is given v: what it held leaves the count and v enters it.
LEMMA HoldersSwap ==
  ASSUME NEW p \in [Handles -> Pointer \cup {Absent}], NEW h \in Handles, NEW v,
         NEW kind, NEW a
  PROVE  Holders([p EXCEPT ![h] = v], kind, a) + Hand(Kind[h], p[h], kind, a)
           = Holders(p, kind, a) + Hand(Kind[h], v, kind, a)
<1> DEFINE q == [p EXCEPT ![h] = v]
           S == Held(p, kind, a)
           T == Held(q, kind, a)
<1>1. IsFiniteSet(S) /\ IsFiniteSet(T) /\ Cardinality(S) \in Nat /\ Cardinality(T) \in Nat
  BY HoldersAre DEF Holders
<1>2. \A g \in Handles : q[g] = IF g = h THEN v ELSE p[g]
  OBVIOUS
<1>3. S \ {h} = T \ {h}
  BY <1>2 DEF Held
<1>9. /\ \A g : g \in S <=> g \in Handles /\ Kind[g] = kind /\ p[g] = a
      /\ \A g : g \in T <=> g \in Handles /\ Kind[g] = kind /\ q[g] = a
      /\ q[h] = v
  BY <1>2 DEF Held
<1>10. Holders(p, kind, a) = Cardinality(S) /\ Holders(q, kind, a) = Cardinality(T)
  BY DEF Holders
<1> HIDE DEF S, T, q
<1>4. Cardinality(S) = Cardinality(S \ {h}) + Hand(Kind[h], p[h], kind, a)
  <2>1. CASE h \in S
    <3>1. Hand(Kind[h], p[h], kind, a) = 1
      BY <1>9, <2>1 DEF Hand
    <3>2. Cardinality(S \ {h}) = Cardinality(S) - 1
      BY <1>1, <2>1, FS_RemoveElement
    <3> QED  BY <1>1, <3>1, <3>2
  <2>2. CASE h \notin S
    <3>1. Hand(Kind[h], p[h], kind, a) = 0
      BY <1>9, <2>2 DEF Hand
    <3>2. S \ {h} = S
      BY <2>2
    <3> QED  BY <1>1, <3>1, <3>2
  <2> QED  BY <2>1, <2>2
<1>5. Cardinality(T) = Cardinality(T \ {h}) + Hand(Kind[h], v, kind, a)
  <2>1. CASE h \in T
    <3>1. Hand(Kind[h], v, kind, a) = 1
      BY <1>9, <2>1 DEF Hand
    <3>2. Cardinality(T \ {h}) = Cardinality(T) - 1
      BY <1>1, <2>1, FS_RemoveElement
    <3> QED  BY <1>1, <3>1, <3>2
  <2>2. CASE h \notin T
    <3>1. Hand(Kind[h], v, kind, a) = 0
      BY <1>9, <2>2 DEF Hand
    <3>2. T \ {h} = T
      BY <2>2
    <3> QED  BY <1>1, <3>1, <3>2
  <2> QED  BY <2>1, <2>2
<1>6. Cardinality(S \ {h}) \in Nat
  BY <1>1, FS_Subset, FS_CardinalityType
<1>7. Hand(Kind[h], p[h], kind, a) \in Nat /\ Hand(Kind[h], v, kind, a) \in Nat
  BY DEF Hand
<1>8. Holders(q, kind, a) + Hand(Kind[h], p[h], kind, a)
        = Holders(p, kind, a) + Hand(Kind[h], v, kind, a)
  BY <1>10, <1>1, <1>3, <1>4, <1>5, <1>6, <1>7
<1> QED
  BY <1>8 DEF q

\* All that Sound counts are numbers.
LEMMA CountsAre ==
  ASSUME NEW m, NEW L \in Counts, NEW k, NEW v, NEW a \in Addresses
  PROVE  /\ Unique(m, k, v, a) \in Nat /\ Shared(m, L, k, v, a) \in Nat
         /\ Hand(k, v, "unique", a) \in {0, 1} /\ Hand(k, v, "shared", a) \in {0, 1}
         /\ Holders(m.ptr, "unique", a) \in Nat /\ Holders(m.ptr, "shared", a) \in Nat
         /\ L[a] \in Nat
<1>1. /\ Hand(k, v, "unique", a) \in {0, 1} /\ Hand(k, v, "shared", a) \in {0, 1}
      /\ L[a] \in Nat
  BY DEF Hand, Counts
<1> QED
  BY <1>1, HoldersAre DEF Unique, Shared

\* What is in no variable and is no address of an object counts nothing.
LEMMA EmptyHand ==
  ASSUME NEW k, NEW v, v \notin Addresses, NEW kind, NEW a \in Addresses
  PROVE  Hand(k, v, kind, a) = 0
BY DEF Hand

\* Which kind of empty hand it is makes no difference, nor does a raw pointer.
LEMMA HandsAlike ==
  ASSUME NEW m, NEW L, NEW k, NEW v, NEW j, NEW w,
         k = "raw" \/ v \notin Addresses, j = "raw" \/ w \notin Addresses,
         Sound(m, L, k, v)
  PROVE  Sound(m, L, j, w)
<1> SUFFICES ASSUME NEW a \in Addresses PROVE SoundAt(m, L, j, w, a)
  BY DEF Sound
<1>1. \A kind \in {"unique", "shared"} : Hand(k, v, kind, a) = 0 /\ Hand(j, w, kind, a) = 0
  BY DEF Hand
<1>2. Unique(m, j, w, a) = Unique(m, k, v, a) /\ Shared(m, L, j, w, a) = Shared(m, L, k, v, a)
  BY <1>1 DEF Unique, Shared
<1> QED
  BY <1>2 DEF Sound, SoundAt

-----------------------------------------------------------------------------
(* What a call does to the memory *)

\* h.ptr_ = v: the hand now has what h held.
LEMMA SwapIsSound ==
  ASSUME NEW m \in Memories, NEW L \in Counts, NEW h \in Handles,
         NEW v \in Pointer \cup {Absent}, Sound(m, L, Kind[h], v)
  PROVE  /\ Sound([m EXCEPT !.ptr[h] = v], L, Kind[h], m.ptr[h])
         /\ [m EXCEPT !.ptr[h] = v] \in Memories
         /\ \A a \in Addresses : Unique([m EXCEPT !.ptr[h] = v], Kind[h], m.ptr[h], a)
                                  = Unique(m, Kind[h], v, a)
<1> DEFINE n == [m EXCEPT !.ptr[h] = v]
<1>1. m.ptr \in [Handles -> Pointer \cup {Absent}]
  BY DEF Memories
<1>2. n.ptr = [m.ptr EXCEPT ![h] = v] /\ n.heap = m.heap /\ n.refs = m.refs
  BY DEF Memories
<1>3. n \in Memories
  BY DEF Memories
<1> HIDE DEF n
<1>4. ASSUME NEW a \in Addresses
      PROVE  /\ SoundAt(n, L, Kind[h], m.ptr[h], a)
             /\ Unique(n, Kind[h], m.ptr[h], a) = Unique(m, Kind[h], v, a)
  <2>1. \A kind \in {"unique", "shared"} :
           Holders(n.ptr, kind, a) + Hand(Kind[h], m.ptr[h], kind, a)
             = Holders(m.ptr, kind, a) + Hand(Kind[h], v, kind, a)
    BY <1>1, <1>2, HoldersSwap
  <2>2. Unique(n, Kind[h], m.ptr[h], a) = Unique(m, Kind[h], v, a)
    BY <2>1 DEF Unique
  <2>3. Shared(n, L, Kind[h], m.ptr[h], a) = Shared(m, L, Kind[h], v, a)
    <3>1. /\ Holders(n.ptr, "shared", a) \in Nat /\ Holders(m.ptr, "shared", a) \in Nat
          /\ Hand(Kind[h], m.ptr[h], "shared", a) \in Nat
          /\ Hand(Kind[h], v, "shared", a) \in Nat /\ L[a] \in Nat
      BY HoldersAre DEF Hand, Counts
    <3> QED  BY <2>1, <3>1 DEF Shared
  <2>4. SoundAt(m, L, Kind[h], v, a)
    BY DEF Sound
  <2> QED  BY <1>2, <2>2, <2>3, <2>4 DEF SoundAt
<1> QED
  BY <1>3, <1>4 DEF Sound, n

\* The hand gives up what it has.
LEMMA UnrefIsSound ==
  ASSUME NEW m \in Memories, NEW L \in Counts, NEW k \in {"raw", "unique", "shared"},
         NEW v \in Pointer \cup {Absent}, Sound(m, L, k, v)
  PROVE  /\ Sound(Unref(m, k, v), L, "raw", nullptr)
         /\ Unref(m, k, v) \in Memories
<1>1. CASE k = "raw" \/ v \notin Addresses
  BY <1>1, HandsAlike, NotNullAssumption DEF Unref
<1>2. CASE k # "raw" /\ v \in Addresses
  <2> DEFINE n == Unref(m, k, v)
  <2>1. /\ m.ptr \in [Handles -> Pointer \cup {Absent}]
        /\ m.heap \in [Addresses -> 0..MaxObjects]
        /\ m.refs \in [Addresses -> Nat]
    BY DEF Memories
  <2>2. SoundAt(m, L, k, v, v)
    BY <1>2 DEF Sound
  <2>3. Hand(k, v, k, v) = 1
    BY DEF Hand
  <2>4. k = "shared" => m.refs[v] = Shared(m, L, k, v, v) /\ m.refs[v] > 0
                          /\ Unique(m, k, v, v) = 0
    BY <1>2, <2>2, <2>3, CountsAre DEF SoundAt, Shared
  <2>5. k = "unique" => Unique(m, k, v, v) = 1 /\ Shared(m, L, k, v, v) = 0
    BY <1>2, <2>2, <2>3, CountsAre DEF SoundAt, Unique
  <2>6. /\ n.ptr = m.ptr
        /\ n.refs = [m.refs EXCEPT ![v] = IF k = "shared" THEN @ - 1 ELSE @]
        /\ n.heap = [m.heap EXCEPT ![v] = IF k = "unique" \/ m.refs[v] = 1 THEN 0 ELSE @]
    BY <1>2, <2>1 DEF Unref, Memories
  <2>7. n \in Memories
    <3>1. n.refs \in [Addresses -> Nat]
      BY <1>2, <2>1, <2>4, <2>6
    <3>2. n.heap \in [Addresses -> 0..MaxObjects]
      BY <1>2, <2>1, <2>6, NotNullAssumption
    <3> QED  BY <1>2, <3>1, <3>2 DEF Memories, Unref
  <2>8. ASSUME NEW a \in Addresses PROVE SoundAt(n, L, "raw", nullptr, a)
    <3>1. SoundAt(m, L, k, v, a)
      BY DEF Sound
    <3>2. \A kind \in {"unique", "shared"} : Hand("raw", nullptr, kind, a) = 0
      BY DEF Hand
    <3>3. CASE a # v
      <4>1. \A kind \in {"unique", "shared"} : Hand(k, v, kind, a) = 0
        BY <3>3 DEF Hand
      <4>2. n.heap[a] = m.heap[a] /\ n.refs[a] = m.refs[a]
        BY <2>1, <2>6, <3>3
      <4> QED  BY <2>6, <3>1, <3>2, <4>1, <4>2 DEF SoundAt, Unique, Shared
    <3>4. CASE a = v
      <4>1. CASE k = "unique"
        <5>1. n.heap[a] = 0
          BY <2>1, <2>6, <3>4, <4>1
        <5>2. Unique(n, "raw", nullptr, a) = 0 /\ Shared(n, L, "raw", nullptr, a) = 0
          BY <2>3, <2>5, <2>6, <3>2, <3>4, <4>1, CountsAre DEF Unique, Shared
        <5> QED  BY <5>1, <5>2 DEF SoundAt
      <4>2. CASE k = "shared"
        <5>1. /\ n.heap[a] = IF m.refs[a] = 1 THEN 0 ELSE m.heap[a]
              /\ n.refs[a] = m.refs[a] - 1
          BY <2>1, <2>6, <3>4, <4>2
        <5>2. Hand(k, v, "unique", a) = 0
          BY <4>2 DEF Hand
        <5>3. Unique(n, "raw", nullptr, a) = 0
          BY <2>4, <2>6, <3>2, <3>4, <4>2, <5>2 DEF Unique
        <5>4. Shared(n, L, "raw", nullptr, a) = m.refs[a] - 1
          BY <2>3, <2>4, <2>6, <3>2, <3>4, <4>2, CountsAre DEF Shared
        <5>5. m.heap[a] # 0
          BY <2>4, <3>1, <3>4, <4>2 DEF SoundAt
        <5>6. m.refs[a] \in Nat /\ m.refs[a] > 0
          BY <2>1, <2>4, <3>4, <4>2
        <5> QED  BY <5>1, <5>3, <5>4, <5>5, <5>6 DEF SoundAt
      <4> QED  BY <1>2, <4>1, <4>2
    <3> QED  BY <3>3, <3>4
  <2> QED  BY <2>7, <2>8 DEF Sound
<1> QED
  BY <1>1, <1>2

\* It is the object at v that may be destroyed, and no other variable has it then.
LEMMA UnrefChanges ==
  ASSUME NEW m \in Memories, NEW k \in {"raw", "unique", "shared"}, NEW v
  PROVE  /\ Unref(m, k, v).ptr = m.ptr /\ Unref(m, k, v).created = m.created
         /\ \A a \in Addresses : Unref(m, k, v).heap[a] \in {m.heap[a], 0}
         /\ \A a \in Addresses :
              Unique(m, k, v, a) = 0 => Unique(Unref(m, k, v), "raw", nullptr, a) = 0
<1> DEFINE n == Unref(m, k, v)
<1>1. n.ptr = m.ptr /\ n.created = m.created
  BY DEF Unref, Memories
<1>2. \A a \in Addresses : n.heap[a] \in {m.heap[a], 0}
  BY DEF Unref, Memories
<1>3. ASSUME NEW a \in Addresses, Unique(m, k, v, a) = 0
      PROVE  Unique(n, "raw", nullptr, a) = 0
  <2>1. /\ Holders(m.ptr, "unique", a) \in Nat
        /\ Hand(k, v, "unique", a) \in Nat /\ Hand("raw", nullptr, "unique", a) = 0
    BY HoldersAre DEF Hand
  <2> QED  BY <1>1, <1>3, <2>1 DEF Unique
<1> QED
  BY <1>1, <1>2, <1>3

\* The hand gets a copy of a shared_ptr.
LEMMA CopyIsSound ==
  ASSUME NEW m \in Memories, NEW L \in Counts, NEW v \in Addresses,
         Sound(m, L, "raw", nullptr), Shared(m, L, "raw", nullptr, v) > 0
  PROVE  /\ Sound([m EXCEPT !.refs[v] = @ + 1], L, "shared", v)
         /\ [m EXCEPT !.refs[v] = @ + 1] \in Memories
<1> DEFINE n == [m EXCEPT !.refs[v] = @ + 1]
<1>1. m.refs \in [Addresses -> Nat]
  BY DEF Memories
<1>2. /\ n.ptr = m.ptr /\ n.heap = m.heap
      /\ n.refs = [m.refs EXCEPT ![v] = @ + 1]
  BY DEF Memories
<1>3. n \in Memories
  BY <1>1 DEF Memories
<1> HIDE DEF n
<1>4. ASSUME NEW a \in Addresses PROVE SoundAt(n, L, "shared", v, a)
  <2>1. SoundAt(m, L, "raw", nullptr, a)
    BY DEF Sound
  <2>2. /\ Hand("raw", nullptr, "shared", a) = 0 /\ Hand("raw", nullptr, "unique", a) = 0
        /\ Hand("shared", v, "unique", a) = 0
        /\ Hand("shared", v, "shared", a) = IF a = v THEN 1 ELSE 0
    BY DEF Hand
  <2>3. /\ Holders(m.ptr, "shared", a) \in Nat /\ L[a] \in Nat
        /\ Shared(m, L, "raw", nullptr, a) \in Nat
    BY HoldersAre, CountsAre DEF Counts
  <2>4. Unique(n, "shared", v, a) = Unique(m, "raw", nullptr, a)
    BY <1>2, <2>2 DEF Unique
  <2>5. Shared(n, L, "shared", v, a)
          = Shared(m, L, "raw", nullptr, a) + (IF a = v THEN 1 ELSE 0)
    BY <1>2, <2>2, <2>3 DEF Shared
  <2>6. n.refs[a] = m.refs[a] + (IF a = v THEN 1 ELSE 0)
    BY <1>1, <1>2
  <2> QED  BY <1>1, <1>2, <2>1, <2>3, <2>4, <2>5, <2>6 DEF SoundAt
<1> QED
  BY <1>3, <1>4 DEF Sound, n

\* A lock that passes from the hand of a call to a body, or back.
LEMMA LockIsSound ==
  ASSUME NEW m \in Memories, NEW L \in Counts, NEW M \in Counts, NEW v \in Addresses,
         \A a \in Addresses : M[a] = L[a] + Hand("shared", v, "shared", a)
  PROVE  Sound(m, L, "shared", v) <=> Sound(m, M, "raw", nullptr)
<1>1. ASSUME NEW a \in Addresses
      PROVE  SoundAt(m, L, "shared", v, a) <=> SoundAt(m, M, "raw", nullptr, a)
  <2>1. /\ Hand("raw", nullptr, "shared", a) = 0 /\ Hand("raw", nullptr, "unique", a) = 0
        /\ Hand("shared", v, "unique", a) = 0 /\ Hand("shared", v, "shared", a) \in Nat
    BY DEF Hand
  <2>2. Holders(m.ptr, "shared", a) \in Nat /\ L[a] \in Nat /\ M[a] \in Nat
    BY HoldersAre DEF Counts
  <2>3. Unique(m, "shared", v, a) = Unique(m, "raw", nullptr, a)
    BY <2>1 DEF Unique
  <2>4. Shared(m, L, "shared", v, a) = Shared(m, M, "raw", nullptr, a)
    BY <2>1, <2>2 DEF Shared
  <2> QED  BY <2>3, <2>4 DEF SoundAt
<1> QED
  BY <1>1 DEF Sound

-----------------------------------------------------------------------------
(* The arguments of a call *)

\* What may be passed to h.
ArgOf(h, arg) ==
  \/ /\ arg.m = Memory
     /\ arg.v \in {nullptr, Absent} \cup (IF Kind[h] = "raw" THEN Addresses ELSE {})
  \/ Owning(h) /\ arg \in Allocated(Kind[h])
  \/ Owning(h) /\ \E g \in SameKind(h) : arg.v = ptr[g] /\ arg.m = MovedOut(g)
  \/ Kind[h] = "shared" /\ \E g \in SameKind(h) : arg.v = ptr[g] /\ arg.m = Copied(g)

\* m is the memory in the course of a call: objects are as they were, are
\* destroyed, or, one at most, have been made, and no object that is shared gets
\* a unique owner.
Follows(m, k, v) ==
  /\ m.created \in {created, created + 1}
  /\ \A a \in Addresses :
       \/ m.heap[a] \in {heap[a], 0}
       \/ heap[a] = 0 /\ m.heap[a] = created + 1 /\ m.created = created + 1
  /\ \A a, b \in Addresses : m.heap[a] = created + 1 /\ m.heap[b] = created + 1 => a = b
  /\ \A a \in Addresses :
       heap[a] # 0 /\ Holders(ptr, "unique", a) = 0 => Unique(m, k, v, a) = 0

\* No two live objects are the same, and none is still to be made.
ObjectsApart ==
  /\ \A a \in Addresses : heap[a] <= created
  /\ \A a, b \in Addresses : heap[a] # 0 /\ heap[a] = heap[b] => a = b

LEMMA MemoryIs == TypeInv => Memory \in Memories
BY DEF TypeInv, Memory, Memories

LEMMA ArgIsSound ==
  ASSUME TypeInv, ObjectsApart, NEW L \in Counts, Sound(Memory, L, "raw", nullptr),
         NEW h \in Handles, NEW arg, ArgOf(h, arg)
  PROVE  /\ arg.m \in Memories /\ arg.v \in Pointer \cup {Absent}
         /\ Sound(arg.m, L, Kind[h], arg.v)
         /\ Follows(arg.m, Kind[h], arg.v)
         /\ \A g \in Handles : arg.m.ptr[g] \in {ptr[g], nullptr}
<1>1. /\ Memory \in Memories
      /\ Memory.ptr = ptr /\ Memory.heap = heap /\ Memory.refs = refs
      /\ Memory.created = created
  BY MemoryIs DEF Memory
<1>2. /\ created \in Nat /\ \A a \in Addresses : heap[a] \in Nat /\ heap[a] <= created
      /\ ptr \in [Handles -> Pointer \cup {Absent}]
  <2>1. MaxObjects \in Nat
    BY NotNullAssumption
  <2>2. created \in 0..MaxObjects /\ \A a \in Addresses : heap[a] \in 0..MaxObjects
    BY DEF TypeInv
  <2> QED  BY <2>1, <2>2 DEF TypeInv, ObjectsApart
<1>3. \A a \in Addresses : /\ Holders(ptr, "unique", a) \in Nat
                          /\ Holders(ptr, "shared", a) \in Nat
  BY HoldersAre
<1>4. CASE /\ arg.m = Memory
           /\ arg.v \in {nullptr, Absent} \cup (IF Kind[h] = "raw" THEN Addresses ELSE {})
  <2>1. Kind[h] = "raw" \/ arg.v \notin Addresses
    BY <1>4, NotNullAssumption
  <2>2. Sound(Memory, L, Kind[h], arg.v)
    BY <2>1, HandsAlike, NotNullAssumption
  <2>3. \A a \in Addresses : Hand(Kind[h], arg.v, "unique", a) = 0
    BY <2>1 DEF Hand
  <2>4. Follows(Memory, Kind[h], arg.v)
    BY <1>1, <1>2, <1>3, <2>3 DEF Follows, Unique
  <2> QED  BY <1>1, <1>2, <1>4, <2>2, <2>4 DEF Pointer
<1>5. CASE Owning(h) /\ arg \in Allocated(Kind[h])
  <2>1. PICK b \in Addresses :
          /\ heap[b] = 0 /\ created < MaxObjects /\ arg.v = b
          /\ arg.m = [Memory EXCEPT !.heap[b] = created + 1, !.created = @ + 1,
                                    !.refs[b] = IF Kind[h] = "shared" THEN 1 ELSE 0]
    <3> DEFINE Made(b) == [Memory EXCEPT !.heap[b] = created + 1, !.created = @ + 1,
                             !.refs[b] = IF Kind[h] = "shared" THEN 1 ELSE 0]
    <3> HIDE DEF Made
    <3>1. arg \in {[m |-> Made(a), v |-> a] :
                     a \in {b \in Addresses : heap[b] = 0 /\ created < MaxObjects}}
      BY <1>5 DEF Allocated, Made
    <3>2. PICK b \in Addresses : /\ heap[b] = 0 /\ created < MaxObjects
                                 /\ arg = [m |-> Made(b), v |-> b]
      BY <3>1
    <3>3. arg.m = Made(b) /\ arg.v = b
      BY <3>2
    <3> QED  BY <3>2, <3>3 DEF Made
  <2> DEFINE n == arg.m
  <2>2. /\ n.ptr = ptr /\ n.created = created + 1
        /\ n.heap = [heap EXCEPT ![b] = created + 1]
        /\ n.refs = [refs EXCEPT ![b] = IF Kind[h] = "shared" THEN 1 ELSE 0]
    BY <2>1 DEF Memory
  <2>3. n \in Memories
    <3>1. created + 1 \in 0..MaxObjects
      BY <1>2, <2>1, NotNullAssumption
    <3>2. n = [ptr |-> ptr, heap |-> [heap EXCEPT ![b] = created + 1],
               refs |-> [refs EXCEPT ![b] = IF Kind[h] = "shared" THEN 1 ELSE 0],
               created |-> created + 1]
      BY <2>1 DEF Memory
    <3> QED  BY <3>1, <3>2 DEF TypeInv, Memories
  <2>4. /\ \A a \in Addresses : n.heap[a] = IF a = b THEN created + 1 ELSE heap[a]
        /\ \A a \in Addresses : n.refs[a] = IF a = b THEN IF Kind[h] = "shared" THEN 1 ELSE 0
                                                      ELSE refs[a]
    BY <2>2 DEF TypeInv
  <2>5. Kind[h] \in {"unique", "shared"}
    BY <1>5, NotNullAssumption DEF Owning
  <2>6. \A a \in Addresses, kind \in {"unique", "shared"} :
          /\ Hand(Kind[h], b, kind, a) = IF a = b /\ Kind[h] = kind THEN 1 ELSE 0
          /\ Hand("raw", nullptr, kind, a) = 0
    BY DEF Hand
  <2> HIDE DEF n
  <2>7. ASSUME NEW a \in Addresses PROVE SoundAt(n, L, Kind[h], b, a)
    <3>1. SoundAt(Memory, L, "raw", nullptr, a)
      BY DEF Sound
    <3>2. /\ Unique(n, Kind[h], b, a) = Unique(Memory, "raw", nullptr, a)
                 + (IF a = b /\ Kind[h] = "unique" THEN 1 ELSE 0)
          /\ Unique(Memory, "raw", nullptr, a) \in Nat
      BY <1>1, <1>3, <2>2, <2>6 DEF Unique
    <3>3. /\ Shared(n, L, Kind[h], b, a) = Shared(Memory, L, "raw", nullptr, a)
                 + (IF a = b /\ Kind[h] = "shared" THEN 1 ELSE 0)
          /\ Shared(Memory, L, "raw", nullptr, a) \in Nat
      <4>1. L[a] \in Nat
        BY DEF Counts
      <4> QED  BY <1>1, <1>3, <2>2, <2>6, <4>1 DEF Shared
    <3> QED  BY <1>1, <1>2, <2>1, <2>4, <2>5, <3>1, <3>2, <3>3 DEF SoundAt
  <2>8. Follows(n, Kind[h], b)
    <3>1. \A a \in Addresses : heap[a] # 0 => Hand(Kind[h], b, "unique", a) = 0
      BY <2>1, <2>6
    <3>2. \A a \in Addresses :
            heap[a] # 0 /\ Holders(ptr, "unique", a) = 0 => Unique(n, Kind[h], b, a) = 0
      BY <2>2, <3>1 DEF Unique
    <3>3. \A a, c \in Addresses : n.heap[a] = created + 1 /\ n.heap[c] = created + 1 => a = c
      BY <1>2, <2>4
    <3> QED  BY <2>1, <2>2, <2>4, <3>2, <3>3 DEF Follows
  <2> QED  BY <2>1, <2>2, <2>3, <2>7, <2>8 DEF n, Sound, Pointer
<1>6. CASE Owning(h) /\ \E g \in SameKind(h) : arg.v = ptr[g] /\ arg.m = MovedOut(g)
  <2>1. PICK g \in Handles : /\ Kind[g] = Kind[h] /\ arg.v = ptr[g]
                             /\ arg.m = [Memory EXCEPT !.ptr[g] = nullptr]
    BY <1>6 DEF SameKind, MovedOut, Owning
  <2>2. Sound(Memory, L, Kind[g], nullptr)
    BY HandsAlike, NotNullAssumption
  <2>3. /\ Sound(arg.m, L, Kind[h], arg.v) /\ arg.m \in Memories
        /\ \A a \in Addresses :
             Unique(arg.m, Kind[h], arg.v, a) = Unique(Memory, Kind[g], nullptr, a)
    BY <1>1, <2>1, <2>2, SwapIsSound DEF Pointer
  <2>4. \A a \in Addresses : Unique(Memory, Kind[g], nullptr, a) = Holders(ptr, "unique", a)
    BY <1>1, <1>3, EmptyHand, NotNullAssumption DEF Unique
  <2>5. /\ arg.m.heap = heap /\ arg.m.created = created
        /\ arg.m.ptr = [ptr EXCEPT ![g] = nullptr]
    BY <2>1 DEF Memory
  <2>6. Follows(arg.m, Kind[h], arg.v)
    BY <1>2, <2>3, <2>4, <2>5 DEF Follows
  <2> QED  BY <1>2, <2>1, <2>3, <2>5, <2>6
<1>7. CASE Kind[h] = "shared" /\ \E g \in SameKind(h) : arg.v = ptr[g] /\ arg.m = Copied(g)
  <2>1. PICK g \in Handles : Kind[g] = "shared" /\ arg.v = ptr[g] /\ arg.m = Copied(g)
    BY <1>7 DEF SameKind
  <2>2. CASE ptr[g] \in Addresses
    <3>1. arg.m = [Memory EXCEPT !.refs[ptr[g]] = @ + 1]
      BY <2>1, <2>2 DEF Copied, Memory
    <3>2. Shared(Memory, L, "raw", nullptr, ptr[g]) > 0
      <4>1. Holders(ptr, "shared", ptr[g]) > 0
        BY <2>1, HolderCounts
      <4>2. L[ptr[g]] \in Nat /\ Hand("raw", nullptr, "shared", ptr[g]) = 0
        BY <2>2 DEF Counts, Hand
      <4> QED  BY <1>1, <1>3, <2>2, <4>1, <4>2 DEF Shared
    <3>3. Sound(arg.m, L, "shared", ptr[g]) /\ arg.m \in Memories
      BY <1>1, <2>2, <3>1, <3>2, CopyIsSound
    <3>4. arg.m.heap = heap /\ arg.m.created = created /\ arg.m.ptr = ptr
      BY <3>1 DEF Memory
    <3>5. \A a \in Addresses : Hand("shared", ptr[g], "unique", a) = 0
      BY DEF Hand
    <3>6. Follows(arg.m, Kind[h], arg.v)
      BY <1>2, <1>3, <1>7, <2>1, <3>4, <3>5 DEF Follows, Unique
    <3> QED  BY <1>2, <1>7, <2>1, <3>3, <3>4, <3>6
  <2>3. CASE ptr[g] \notin Addresses
    <3>1. arg.m = Memory
      BY <2>1, <2>3 DEF Copied
    <3>2. Sound(Memory, L, Kind[h], arg.v)
      BY <2>1, <2>3, HandsAlike, NotNullAssumption
    <3>3. \A a \in Addresses : Hand(Kind[h], arg.v, "unique", a) = 0
      BY <2>1, <2>3, EmptyHand
    <3>4. Follows(Memory, Kind[h], arg.v)
      BY <1>1, <1>2, <1>3, <3>3 DEF Follows, Unique
    <3> QED  BY <1>1, <1>2, <2>1, <3>1, <3>2, <3>4
  <2> QED  BY <2>2, <2>3
<1> QED
  BY <1>4, <1>5, <1>6, <1>7 DEF ArgOf

\* h.ptr_ = v, with all it changes.
LEMMA StoreIsSound ==
  ASSUME NEW m \in Memories, NEW L \in Counts, NEW h \in Handles,
         NEW v \in Pointer \cup {Absent}, Sound(m, L, Kind[h], v), Follows(m, Kind[h], v),
         created \in Nat
  PROVE  /\ Store(m, h, v) \in Memories /\ Sound(Store(m, h, v), L, "raw", nullptr)
         /\ Store(m, h, v).ptr = [m.ptr EXCEPT ![h] = v]
         /\ Follows(Store(m, h, v), "raw", nullptr)
<1> DEFINE n == [m EXCEPT !.ptr[h] = v]
           k == Unref(n, Kind[h], m.ptr[h])
<1>1. m.ptr[h] \in Pointer \cup {Absent}
  BY DEF Memories
<1>2. Kind[h] \in {"raw", "unique", "shared"}
  BY NotNullAssumption
<1>3. /\ n.ptr = [m.ptr EXCEPT ![h] = v] /\ n.heap = m.heap /\ n.created = m.created
  BY DEF Memories
<1>4. /\ n \in Memories /\ Sound(n, L, Kind[h], m.ptr[h])
      /\ \A a \in Addresses : Unique(n, Kind[h], m.ptr[h], a) = Unique(m, Kind[h], v, a)
  BY SwapIsSound
<1> HIDE DEF n
<1>5. k \in Memories /\ Sound(k, L, "raw", nullptr)
  BY <1>1, <1>2, <1>4, UnrefIsSound
<1>6. /\ k.ptr = n.ptr /\ k.created = n.created
      /\ \A a \in Addresses : k.heap[a] \in {n.heap[a], 0}
      /\ \A a \in Addresses :
           Unique(n, Kind[h], m.ptr[h], a) = 0 => Unique(k, "raw", nullptr, a) = 0
  BY <1>2, <1>4, UnrefChanges
<1> HIDE DEF k
<1>7. Follows(k, "raw", nullptr)
  <2>1. k.created \in {created, created + 1}
    BY <1>3, <1>6 DEF Follows
  <2>2. ASSUME NEW a \in Addresses
        PROVE  \/ k.heap[a] \in {heap[a], 0}
               \/ heap[a] = 0 /\ k.heap[a] = created + 1 /\ k.created = created + 1
    BY <1>3, <1>6 DEF Follows
  <2>3. ASSUME NEW a \in Addresses, k.heap[a] = created + 1
        PROVE  m.heap[a] = created + 1 \/ created + 1 = 0
    BY <1>3, <1>6, <2>3
  <2>4. ASSUME NEW a \in Addresses, heap[a] # 0, Holders(ptr, "unique", a) = 0
        PROVE  Unique(k, "raw", nullptr, a) = 0
    BY <1>4, <1>6, <2>4 DEF Follows
  <2>5. m.created \in Nat /\ created + 1 # 0
    BY DEF Follows
  <2> QED  BY <2>1, <2>2, <2>3, <2>4, <2>5 DEF Follows
<1> QED
  BY <1>3, <1>5, <1>6, <1>7 DEF Store, n, k

-----------------------------------------------------------------------------
(* The invariant *)

Locks == [a \in Addresses |-> Cardinality(Locking(a))]

\* p leads to its object, if that lives, and to no other.
LeadsTo(p) ==
  /\ p.flag <= created
  /\ \A a \in Addresses : heap[a] # 0 /\ heap[a] = p.flag => a = p.ptr

WeakState ==
  /\ \A w \in WeakPtrs : LeadsTo(weak[w])
  /\ \A f \in Functions : LeadsTo(bound[f].to)

\* A function is bound by a std::weak_ptr to an object that is shared.
BoundState ==
  \A f \in Functions :
    bound[f].by = "std::weak_ptr" =>
      /\ bound[f].to.ptr \in Addresses
      /\ heap[bound[f].to.ptr] # 0 /\ heap[bound[f].to.ptr] = bound[f].to.flag
           => Holders(ptr, "unique", bound[f].to.ptr) = 0

\* A running body was given the object that its function is bound to, which
\* still lives if it has locked it.
BodyState ==
  \A f \in Functions :
    body[f] # Idle =>
      /\ body[f] = bound[f].to.flag /\ bound[f].by # "nothing"
      /\ bound[f].by = "std::weak_ptr" => heap[bound[f].to.ptr] = body[f]

IInv ==
  /\ TypeInv
  /\ Sound(Memory, Locks, "raw", nullptr)
  /\ ObjectsApart
  /\ WeakState
  /\ BoundState
  /\ BodyState
  /\ DereferencedAfterCheck

-----------------------------------------------------------------------------

LEMMA LocksAre ==
  /\ \A a : IsFiniteSet(Locking(a)) /\ Cardinality(Locking(a)) \in Nat
  /\ Locks \in Counts
<1>1. ASSUME NEW a PROVE IsFiniteSet(Locking(a)) /\ Cardinality(Locking(a)) \in Nat
  BY FunctionsAssumption, FS_Subset, FS_CardinalityType DEF Locking
<1> QED
  BY <1>1 DEF Locks, Counts

\* What Become() does, whoever calls it.
LEMMA BecomeIsSound ==
  ASSUME TypeInv, ObjectsApart, NEW L \in Counts, Sound(Memory, L, "raw", nullptr),
         NEW h \in Handles, NEW arg, ArgOf(h, arg), NEW flag, NEW said,
         Become(h, arg, flag, said)
  PROVE  /\ Memory' \in Memories /\ Sound(Memory', L, "raw", nullptr)
         /\ Follows(Memory', "raw", nullptr)
         /\ ptr'[h] = arg.v
         /\ \A g \in Handles \ {h} : ptr'[g] \in {ptr[g], nullptr}
<1> DEFINE n == Store(arg.m, h, arg.v)
<1>1. /\ arg.m \in Memories /\ arg.v \in Pointer \cup {Absent}
      /\ Sound(arg.m, L, Kind[h], arg.v)
      /\ Follows(arg.m, Kind[h], arg.v)
      /\ \A g \in Handles : arg.m.ptr[g] \in {ptr[g], nullptr}
  BY ArgIsSound
<1>2. /\ n \in Memories /\ Sound(n, L, "raw", nullptr)
      /\ n.ptr = [arg.m.ptr EXCEPT ![h] = arg.v]
      /\ Follows(n, "raw", nullptr)
  <2>1. created \in Nat
    BY NotNullAssumption DEF TypeInv
  <2> QED  BY <1>1, <2>1, StoreIsSound
<1>3. ptr' = n.ptr /\ heap' = n.heap /\ refs' = n.refs /\ created' = n.created
  BY DEF Become
<1>4. arg.m.ptr \in [Handles -> Pointer \cup {Absent}]
  BY <1>1 DEF Memories
<1> HIDE DEF n
<1>5. n = [ptr |-> n.ptr, heap |-> n.heap, refs |-> n.refs, created |-> n.created]
  BY <1>2 DEF Memories
<1>6. Memory' = n
  BY <1>3, <1>5 DEF Memory
<1> QED
  BY <1>1, <1>2, <1>3, <1>4, <1>6

\* A step after which the memory is sound keeps all that is said of weak pointers
\* and of bodies, if these stay as they are or come to their end.
LEMMA FollowingKeeps ==
  ASSUME IInv, Memory' \in Memories, Sound(Memory', Locks', "raw", nullptr),
         Follows(Memory', "raw", nullptr), UNCHANGED <<weak, bound>>,
         body' \in [Functions -> {Idle} \cup 1..MaxObjects],
         \A f \in Functions : body'[f] \in {body[f], Idle}
  PROVE  ObjectsApart' /\ WeakState' /\ BoundState' /\ BodyState'
<1>1. /\ Memory'.ptr = ptr' /\ Memory'.heap = heap' /\ Memory'.refs = refs'
      /\ Memory'.created = created'
  BY DEF Memory
<1>2. /\ created \in Nat /\ MaxObjects \in Nat /\ heap \in [Addresses -> Nat]
      /\ heap' \in [Addresses -> Nat] /\ created' \in Nat
  <2>1. MaxObjects \in Nat
    BY NotNullAssumption
  <2>2. 0..MaxObjects \subseteq Nat
    BY <2>1
  <2> QED  BY <1>1, <2>1, <2>2 DEF IInv, TypeInv, Memories
<1>3. /\ created' \in {created, created + 1}
      /\ \A a \in Addresses :
           \/ heap'[a] \in {heap[a], 0}
           \/ heap[a] = 0 /\ heap'[a] = created + 1 /\ created' = created + 1
      /\ \A a, b \in Addresses : heap'[a] = created + 1 /\ heap'[b] = created + 1 => a = b
      /\ \A a \in Addresses :
           heap[a] # 0 /\ Holders(ptr, "unique", a) = 0 => Unique(Memory', "raw", nullptr, a) = 0
  BY <1>1 DEF Follows
<1>4. /\ \A a \in Addresses : heap[a] <= created
      /\ \A a, b \in Addresses : heap[a] # 0 /\ heap[a] = heap[b] => a = b
  BY DEF IInv, ObjectsApart
<1>5. ObjectsApart'
  <2>1. ASSUME NEW a \in Addresses PROVE heap'[a] <= created'
    BY <1>2, <1>3, <1>4
  <2>2. ASSUME NEW a \in Addresses, NEW b \in Addresses, heap'[a] # 0, heap'[a] = heap'[b]
        PROVE  a = b
    BY <1>2, <1>3, <1>4, <2>2
  <2> QED  BY <2>1, <2>2 DEF ObjectsApart
<1>6. ASSUME NEW p, p.flag \in Nat, LeadsTo(p)
      PROVE  /\ p.flag <= created'
             /\ \A a \in Addresses : heap'[a] # 0 /\ heap'[a] = p.flag => heap[a] = heap'[a]
             /\ \A a \in Addresses : heap'[a] # 0 /\ heap'[a] = p.flag => a = p.ptr
  <2>1. p.flag <= created'
    BY <1>2, <1>3, <1>6 DEF LeadsTo
  <2>2. ASSUME NEW a \in Addresses, heap'[a] # 0, heap'[a] = p.flag
        PROVE  heap[a] = heap'[a] /\ a = p.ptr
    <3>1. heap'[a] # created + 1
      BY <1>2, <1>6, <2>2 DEF LeadsTo
    <3>2. heap[a] = heap'[a]
      BY <1>2, <1>3, <2>2, <3>1
    <3> QED  BY <1>6, <2>2, <3>2 DEF LeadsTo
  <2> QED  BY <2>1, <2>2
<1>7. /\ \A w \in WeakPtrs : weak[w].flag \in Nat /\ LeadsTo(weak[w])
      /\ \A f \in Functions : bound[f].to.flag \in Nat /\ LeadsTo(bound[f].to)
  BY <1>2 DEF IInv, TypeInv, Weak, WeakState
<1>8. WeakState'
  BY <1>6, <1>7 DEF WeakState, LeadsTo
<1>9. BoundState'
  <2> SUFFICES ASSUME NEW f \in Functions, bound[f].by = "std::weak_ptr"
               PROVE  LET a == bound[f].to.ptr
                      IN  /\ a \in Addresses
                          /\ heap'[a] # 0 /\ heap'[a] = bound[f].to.flag
                               => Holders(ptr', "unique", a) = 0
    BY DEF BoundState
  <2> DEFINE a == bound[f].to.ptr
  <2>1. /\ a \in Addresses
        /\ heap[a] # 0 /\ heap[a] = bound[f].to.flag => Holders(ptr, "unique", a) = 0
    BY DEF IInv, BoundState
  <2> HIDE DEF a
  <2>2. ASSUME heap'[a] # 0, heap'[a] = bound[f].to.flag PROVE Holders(ptr', "unique", a) = 0
    <3>1. heap[a] = heap'[a]
      BY <1>6, <1>7, <2>1, <2>2
    <3>2. Unique(Memory', "raw", nullptr, a) = 0
      BY <1>3, <2>1, <2>2, <3>1
    <3>3. Hand("raw", nullptr, "unique", a) = 0 /\ Holders(ptr', "unique", a) \in Nat
      BY HoldersAre DEF Hand
    <3> QED  BY <1>1, <3>2, <3>3 DEF Unique
  <2> QED  BY <2>1, <2>2 DEF a
<1>10. BodyState'
  <2> SUFFICES ASSUME NEW f \in Functions, body'[f] # Idle
               PROVE  /\ body'[f] = bound[f].to.flag /\ bound[f].by # "nothing"
                      /\ bound[f].by = "std::weak_ptr" => heap'[bound[f].to.ptr] = body'[f]
    BY DEF BodyState
  <2>1. /\ body'[f] = body[f] /\ body[f] = bound[f].to.flag /\ bound[f].by # "nothing"
        /\ bound[f].by = "std::weak_ptr" => heap[bound[f].to.ptr] = body[f]
    BY DEF IInv, BodyState
  <2>2. ASSUME bound[f].by = "std::weak_ptr" PROVE heap'[bound[f].to.ptr] = body[f]
    <3>1. PICK a \in Addresses : /\ a = bound[f].to.ptr
                                 /\ heap[a] = body[f] /\ body[f] # 0
      BY <2>1, <2>2 DEF IInv, BoundState, TypeInv, Idle
    <3>2. f \in Locking(a)'
      BY <2>1, <2>2, <3>1 DEF Locking
    <3>3. Locks'[a] \in Nat /\ Locks'[a] # 0
      <4>1. IsFiniteSet(Locking(a)') /\ Locks'[a] = Cardinality(Locking(a)')
        BY <3>1, LocksAre, FunctionsAssumption, FS_Subset DEF Locks, Locking
      <4> QED  BY <3>2, <4>1, FS_EmptySet, FS_CardinalityType
    <3>4. Shared(Memory', Locks', "raw", nullptr, a) # 0
      <4>1. Holders(ptr', "shared", a) \in Nat /\ Hand("raw", nullptr, "shared", a) = 0
        BY HoldersAre DEF Hand
      <4> QED  BY <1>1, <3>3, <4>1 DEF Shared
    <3>5. heap'[a] # 0
      BY <1>1, <3>1, <3>4 DEF Sound, SoundAt
    <3> QED  BY <1>2, <1>3, <3>1, <3>5
  <2> QED  BY <2>1, <2>2
<1> QED
  BY <1>5, <1>8, <1>9, <1>10

-----------------------------------------------------------------------------
(* The actions *)

\* A call that gives h a pointer; a Nullable that says that it was checked, and a
\* NotNull, gets one that was compared.
Call(h) ==
  \E arg : \E flag, said \in BOOLEAN :
    /\ ArgOf(h, arg)
    /\ (h \in NotNulls \/ flag) /\ arg.v \in Addresses => said
    /\ Become(h, arg, flag, said)

LEMMA ArgumentsAre ==
  ASSUME TypeInv, NEW h \in Handles
  PROVE  /\ \A arg \in Pointers(h) : ArgOf(h, arg)
         /\ \A g \in SameKind(h) : \A arg \in PassedFrom(g) : ArgOf(h, arg) /\ arg.v = ptr[g]
         /\ ArgOf(h, Null) /\ Null.v = nullptr
<1>1. \A g \in Handles : ptr[g] \in Pointer \cup {Absent}
  BY DEF TypeInv
<1>2. ASSUME NEW arg \in Pointers(h) PROVE ArgOf(h, arg)
  <2>1. CASE Owning(h)
    BY <1>2, <2>1 DEF Pointers, ArgOf
  <2>2. CASE ~Owning(h)
    <3>1. PICK g \in Handles : arg = [m |-> Memory, v |-> ptr[g]]
      BY <1>2, <2>2 DEF Pointers
    <3>2. arg.m = Memory /\ arg.v = ptr[g] /\ Kind[h] = "raw"
      BY <2>2, <3>1 DEF Owning
    <3> QED  BY <1>1, <3>2 DEF ArgOf, Pointer
  <2> QED  BY <2>1, <2>2
<1>3. ASSUME NEW g \in SameKind(h), NEW arg \in PassedFrom(g)
      PROVE  ArgOf(h, arg) /\ arg.v = ptr[g]
  <2>1. g \in Handles /\ Kind[g] = Kind[h]
    BY DEF SameKind
  <2>2. /\ arg.v = ptr[g]
        /\ arg.m = MovedOut(g) \/ (Kind[g] # "unique" /\ arg.m = Copied(g))
    BY DEF PassedFrom
  <2>3. CASE Kind[h] = "raw"
    <3>1. arg.m = Memory
      BY <2>1, <2>2, <2>3 DEF MovedOut, Copied, Owning
    <3> QED  BY <1>1, <2>1, <2>2, <2>3, <3>1 DEF ArgOf, Pointer
  <2>4. CASE Kind[h] # "raw"
    <3>1. Kind[h] \in {"unique", "shared"}
      BY <2>4, NotNullAssumption
    <3> QED  BY <2>1, <2>2, <2>4, <3>1 DEF ArgOf, Owning
  <2> QED  BY <2>3, <2>4
<1>4. ArgOf(h, Null) /\ Null.v = nullptr
  BY DEF ArgOf, Null
<1> QED
  BY <1>2, <1>3, <1>4

\* Every step of the variables is such a call or a comparison.
LEMMA HandleStepIs ==
  ASSUME TypeInv, DereferencedAfterCheck, HandleStep
  PROVE  \/ \E h \in Handles : Call(h)
         \/ \E h \in Nullables : CompareWithNull(h)
<1>1. /\ \A g \in Nullables : checked[g] /\ ptr[g] \in Addresses => compared[g]
      /\ \A g \in Handles : checked[g] \in BOOLEAN /\ compared[g] \in BOOLEAN
      /\ nullptr \notin Addresses /\ Absent \notin Addresses
  BY NotNullAssumption
     DEF DereferencedAfterCheck, NullableDereferences, TypeInv, Handles
<1>2. \A h \in NotNulls : h \in Handles
  BY DEF Handles
<1>3. \A h \in Nullables : h \in Handles /\ h \notin NotNulls
  BY NotNullAssumption DEF Handles
<1>4. ASSUME NEW h \in NotNulls, NotNullStep(h) PROVE Call(h)
  <2>1. CASE NotNullFromPointer(h) \/ AssignPointerToNotNull(h)
    BY <1>2, <2>1, ArgumentsAre DEF NotNullFromPointer, AssignPointerToNotNull, Call
  <2>2. CASE TakeNotNull(h)
    BY <1>1, <1>2, <2>2, ArgumentsAre DEF TakeNotNull, Call
  <2>3. ASSUME NEW g \in SameKind(h), NotNullFromNotNull(h, g) \/ AssignNotNullToNotNull(h, g)
        PROVE  Call(h)
    BY <1>2, <2>3, ArgumentsAre DEF NotNullFromNotNull, AssignNotNullToNotNull, Call
  <2>4. ASSUME NEW g \in SameKind(h), NotNullFromNullable(h, g) \/ AssignNullableToNotNull(h, g)
        PROVE  Call(h)
    BY <1>1, <1>2, <2>4, ArgumentsAre
       DEF NotNullFromNullable, AssignNullableToNotNull, NullablePasses, Call
  <2> QED  BY <1>4, <2>1, <2>2, <2>3, <2>4 DEF NotNullStep
<1>5. ASSUME NEW h \in Nullables, NullableStep(h) PROVE Call(h) \/ CompareWithNull(h)
  <2>1. CASE NullableFromPointer(h) \/ AssignPointerToNullable(h)
    BY <1>3, <2>1, ArgumentsAre DEF NullableFromPointer, AssignPointerToNullable, Call
  <2>2. CASE AssignNull(h)
    BY <1>3, <2>2, ArgumentsAre DEF AssignNull, Call
  <2>3. CASE TakeNullable(h)
    BY <1>1, <1>3, <2>3, ArgumentsAre DEF TakeNullable, Call
  <2>4. ASSUME NEW g \in SameKind(h), NullableFromSame(h, g)
        PROVE  Call(h)
    BY <1>1, <1>3, <2>4, ArgumentsAre DEF NullableFromSame, Call
  <2>5. ASSUME NEW g \in SameKind(h),
               NullableFromNullable(h, g) \/ AssignNullableToNullable(h, g)
        PROVE  Call(h)
    BY <1>1, <1>3, <2>5, ArgumentsAre DEF NullableFromNullable, AssignNullableToNullable, Call
  <2>6. ASSUME NEW g \in SameKind(h),
               NullableFromNotNull(h, g) \/ AssignNotNullToNullable(h, g)
        PROVE  Call(h)
    BY <1>3, <2>6, ArgumentsAre DEF NullableFromNotNull, AssignNotNullToNullable, Call
  <2> QED  BY <1>5, <2>1, <2>2, <2>3, <2>4, <2>5, <2>6 DEF NullableStep
<1>6. ASSUME NEW h \in Handles, LeaveScope(h) PROVE Call(h)
  <2>1. /\ [Null EXCEPT !.v = Absent].m = Memory /\ [Null EXCEPT !.v = Absent].v = Absent
    BY DEF Null
  <2> QED  BY <1>1, <1>6, <2>1 DEF LeaveScope, Call, ArgOf
<1> QED
  BY <1>2, <1>3, <1>4, <1>5, <1>6 DEF HandleStep

\* A step of the variables and the memory that leaves the rest alone.
LEMMA CallKeeps ==
  ASSUME IInv, NEW h \in Handles, Call(h), UNCHANGED weakVars
  PROVE  IInv'
<1>1. PICK arg : \E flag, said \in BOOLEAN :
        /\ ArgOf(h, arg)
        /\ (h \in NotNulls \/ flag) /\ arg.v \in Addresses => said
        /\ Become(h, arg, flag, said)
  BY DEF Call
<1>2. PICK flag \in BOOLEAN, said \in BOOLEAN :
        /\ ArgOf(h, arg)
        /\ (h \in NotNulls \/ flag) /\ arg.v \in Addresses => said
        /\ Become(h, arg, flag, said)
  BY <1>1
<1>3. Locks \in Counts /\ Locks' = Locks
  BY LocksAre DEF Locks, Locking, weakVars
<1>4. /\ Memory' \in Memories /\ Sound(Memory', Locks', "raw", nullptr)
      /\ Follows(Memory', "raw", nullptr)
      /\ ptr'[h] = arg.v
      /\ \A g \in Handles \ {h} : ptr'[g] \in {ptr[g], nullptr}
  BY <1>2, <1>3, BecomeIsSound DEF IInv
<1>5. ObjectsApart' /\ WeakState' /\ BoundState' /\ BodyState'
  BY <1>4, FollowingKeeps DEF IInv, TypeInv, weakVars
<1>6. checked' = [checked EXCEPT ![h] = flag] /\ compared' = [compared EXCEPT ![h] = said]
  BY <1>2 DEF Become
<1>7. TypeInv'
  BY <1>4, <1>6 DEF IInv, TypeInv, Memories, Memory, weakVars
<1>8. DereferencedAfterCheck'
  <2> SUFFICES ASSUME NEW g \in Handles,
                      ptr'[g] \in Addresses, g \in NotNulls \/ (g \in Nullables /\ checked'[g])
               PROVE  compared'[g]
    BY DEF DereferencedAfterCheck, NullableDereferences, NotNullDereferences
  <2>1. CASE g = h
    <3>1. compared'[g] = said /\ checked'[g] = flag
      BY <1>6, <2>1 DEF IInv, TypeInv
    <3> QED  BY <1>2, <1>4, <2>1, <3>1
  <2>2. CASE g # h
    <3>1. compared'[g] = compared[g] /\ checked'[g] = checked[g]
      BY <1>6, <2>2 DEF IInv, TypeInv
    <3>2. ptr[g] \in Addresses
      BY <1>4, <2>2, NotNullAssumption
    <3> QED
      BY <3>1, <3>2 DEF IInv, DereferencedAfterCheck, NullableDereferences, NotNullDereferences
  <2> QED  BY <2>1, <2>2
<1> QED
  BY <1>4, <1>5, <1>7, <1>8 DEF IInv

\* CompareWithNull(), which changes the flags only.
LEMMA CompareKeeps ==
  ASSUME IInv, NEW h \in Nullables, CompareWithNull(h), UNCHANGED weakVars
  PROVE  IInv'
<1>1. /\ UNCHANGED <<ptr, heap, refs, created, weak, bound, body>>
      /\ checked' = [checked EXCEPT ![h] = TRUE]
      /\ compared' = [compared EXCEPT ![h] = ptr[h] # nullptr]
  BY DEF CompareWithNull, weakVars
<1>2. h \in Handles
  BY DEF Handles
<1>3. TypeInv'
  BY <1>1 DEF IInv, TypeInv
<1>4. Memory' = Memory /\ Locks' = Locks
  BY <1>1 DEF Memory, Locks, Locking
<1>5. Sound(Memory', Locks', "raw", nullptr)
  BY <1>4 DEF IInv
<1>6. ObjectsApart' /\ WeakState' /\ BoundState' /\ BodyState'
  BY <1>1 DEF IInv, ObjectsApart, WeakState, LeadsTo, BoundState, BodyState
<1>7. DereferencedAfterCheck'
  BY <1>1, <1>2, NotNullAssumption
     DEF IInv, TypeInv, DereferencedAfterCheck, NullableDereferences, NotNullDereferences
<1> QED
  BY <1>3, <1>5, <1>6, <1>7 DEF IInv

\* Variables, objects and functions stay as they are.
LEMMA WeakKeeps ==
  ASSUME IInv, UNCHANGED <<handleVars, bound, body>>, weak' \in [WeakPtrs -> Weak],
         \A w \in WeakPtrs : LeadsTo(weak'[w])
  PROVE  IInv'
<1>1. UNCHANGED <<ptr, checked, heap, refs, created, compared, bound, body>>
  BY DEF handleVars
<1>2. Memory' = Memory /\ Locks' = Locks
  BY <1>1 DEF Memory, Locks, Locking
<1>3. WeakState'
  BY <1>1 DEF IInv, WeakState, LeadsTo
<1>4. TypeInv'
  BY <1>1 DEF IInv, TypeInv
<1>5. ObjectsApart' /\ BoundState' /\ BodyState' /\ DereferencedAfterCheck'
  BY <1>1 DEF IInv, ObjectsApart, BoundState, BodyState, DereferencedAfterCheck,
              NullableDereferences, NotNullDereferences
<1> QED
  BY <1>2, <1>3, <1>4, <1>5 DEF IInv

\* A function is bound while it does not run.
LEMMA BindKeeps ==
  ASSUME IInv, NEW f \in Functions, body[f] = Idle, UNCHANGED <<handleVars, body>>,
         weak' \in [WeakPtrs -> Weak], \A w \in WeakPtrs : LeadsTo(weak'[w]),
         NEW by \in {"WeakPtr", "std::weak_ptr"}, NEW to \in Weak, LeadsTo(to),
         bound' = [bound EXCEPT ![f] = [by |-> by, to |-> to]],
         by = "std::weak_ptr" => to.ptr \in Addresses /\ Holders(ptr, "unique", to.ptr) = 0
  PROVE  IInv'
<1>1. UNCHANGED <<ptr, checked, heap, refs, created, compared, body>>
  BY DEF handleVars
<1>2. \A g \in Functions :
        bound'[g] = IF g = f THEN [by |-> by, to |-> to] ELSE bound[g]
  BY DEF IInv, TypeInv
<1>3. Memory' = Memory /\ Locks' = Locks
  <2>1. ASSUME NEW a \in Addresses PROVE Locking(a)' = Locking(a)
    BY <1>1, <1>2 DEF Locking
  <2> QED  BY <1>1, <2>1 DEF Memory, Locks
<1>4. WeakState'
  BY <1>1, <1>2 DEF IInv, WeakState, LeadsTo
<1>5. TypeInv'
  BY <1>1 DEF IInv, TypeInv
<1>6. BoundState'
  BY <1>1, <1>2 DEF IInv, BoundState
<1>7. BodyState'
  BY <1>1, <1>2 DEF IInv, BodyState
<1>8. ObjectsApart' /\ DereferencedAfterCheck'
  BY <1>1 DEF IInv, ObjectsApart, DereferencedAfterCheck, NullableDereferences,
              NotNullDereferences
<1> QED
  BY <1>3, <1>4, <1>5, <1>6, <1>7, <1>8 DEF IInv

\* A valid pointer leads to where its object is.
LEMMA ValidIsThere ==
  ASSUME TypeInv, NEW p \in Weak, LeadsTo(p), IsValid(p)
  PROVE  p.ptr \in Addresses /\ heap[p.ptr] = p.flag /\ p.flag # 0
BY DEF IsValid, Expired, Live, LeadsTo

\* Where there is an object a WeakPtr to it may be made.
LEMMA WeakToLeads ==
  ASSUME TypeInv, ObjectsApart, NEW a \in Addresses, heap[a] # 0
  PROVE  /\ WeakTo(a) \in Weak /\ LeadsTo(WeakTo(a))
         /\ StaticAsWeakPtr(a) = WeakTo(a)
<1>1. WeakTo(a) = [flag |-> heap[a], ptr |-> a]
  BY DEF WeakTo
<1>2. WeakTo(a).flag = heap[a] /\ WeakTo(a).ptr = a
  BY <1>1
<1>3. heap[a] \in 0..MaxObjects
  BY DEF TypeInv
<1>4. WeakTo(a) \in Weak
  BY <1>1, <1>3 DEF Weak, Pointer
<1> QED
  BY <1>1, <1>2, <1>4 DEF LeadsTo, ObjectsApart, StaticAsWeakPtr

\* An empty WeakPtr leads nowhere.
LEMMA EmptyLeads == TypeInv => Empty \in Weak /\ LeadsTo(Empty)
<1> SUFFICES ASSUME TypeInv PROVE Empty \in Weak /\ LeadsTo(Empty)
  OBVIOUS
<1>1. MaxObjects \in Nat
  BY NotNullAssumption
<1>2. Empty.flag = 0 /\ Empty \in Weak /\ created >= 0
  BY <1>1 DEF Empty, Weak, Pointer, TypeInv
<1> QED
  BY <1>2 DEF LeadsTo

\* A body begins or ends behind a WeakPtr: nothing is locked.
LEMMA InvokeWeakKeeps ==
  ASSUME IInv, NEW f \in Functions, InvokeWeak(f)
  PROVE  IInv'
<1>1. /\ UNCHANGED <<ptr, checked, heap, refs, created, compared, weak, bound>>
      /\ bound[f].by = "WeakPtr" /\ body[f] = Idle
  BY DEF InvokeWeak, handleVars
<1>2. CASE body' = body
  <2>1. Memory' = Memory /\ Locks' = Locks
    BY <1>1, <1>2 DEF Memory, Locks, Locking
  <2> QED
    BY <1>1, <1>2, <2>1
       DEF IInv, TypeInv, ObjectsApart, WeakState, LeadsTo, BoundState, BodyState,
           DereferencedAfterCheck, NullableDereferences, NotNullDereferences
<1>3. CASE body' # body
  <2> DEFINE p == bound[f].to
  <2>1. IsValid(p) /\ body' = [body EXCEPT ![f] = heap[p.ptr]]
    BY <1>3 DEF InvokeWeak, GetNullable
  <2>2. p \in Weak /\ LeadsTo(p)
    BY DEF IInv, TypeInv, WeakState
  <2>3. p.ptr \in Addresses /\ heap[p.ptr] = p.flag /\ p.flag # 0
    BY <2>1, <2>2, ValidIsThere DEF IInv
  <2>4. \A g \in Functions : body'[g] = IF g = f THEN bound[f].to.flag ELSE body[g]
    BY <2>1, <2>3 DEF IInv, TypeInv
  <2>5. Memory' = Memory /\ Locks' = Locks
    <3>1. ASSUME NEW a \in Addresses PROVE Locking(a)' = Locking(a)
      BY <1>1, <2>4 DEF Locking
    <3> QED  BY <1>1, <3>1 DEF Memory, Locks
  <2>6. BodyState'
    BY <1>1, <2>4 DEF IInv, BodyState
  <2>7. TypeInv'
    <3>1. heap[p.ptr] \in 1..MaxObjects
      BY <2>3, NotNullAssumption DEF IInv, TypeInv
    <3> QED  BY <1>1, <2>1, <3>1 DEF IInv, TypeInv
  <2>8. ObjectsApart' /\ WeakState' /\ BoundState' /\ DereferencedAfterCheck'
    BY <1>1 DEF IInv, ObjectsApart, WeakState, LeadsTo, BoundState,
                DereferencedAfterCheck, NullableDereferences, NotNullDereferences
  <2> QED  BY <2>5, <2>6, <2>7, <2>8 DEF IInv
<1> QED
  BY <1>2, <1>3

\* A body enters or leaves those that lock v: as many as before, and one.
LEMMA LockCounts ==
  ASSUME NEW S, NEW T, NEW f, f \notin S, T = S \cup {f}, IsFiniteSet(S)
  PROVE  Cardinality(T) = Cardinality(S) + 1
BY FS_AddElement

\* A body begins behind a std::weak_ptr: it locks its object.
LEMMA InvokeSharedKeeps ==
  ASSUME IInv, NEW f \in Functions, InvokeShared(f)
  PROVE  IInv'
<1>1. PICK v : v = bound[f].to.ptr
  OBVIOUS
<1>2. PICK n : n = bound[f].to.flag
  OBVIOUS
<1>3. /\ UNCHANGED <<ptr, checked, heap, created, compared, weak, bound>>
      /\ bound[f].by = "std::weak_ptr" /\ body[f] = Idle /\ ~Expired(n)
      /\ body' = [body EXCEPT ![f] = heap[v]] /\ refs' = [refs EXCEPT ![v] = @ + 1]
  BY <1>1, <1>2 DEF InvokeShared
<1>4. v \in Addresses /\ heap[v] = n /\ n # 0
  <2>1. bound[f].to \in Weak /\ LeadsTo(bound[f].to) /\ IsValid(bound[f].to)
    BY <1>2, <1>3 DEF IInv, TypeInv, WeakState, IsValid
  <2> QED  BY <1>1, <1>2, <2>1, ValidIsThere DEF IInv
<1>5. Holders(ptr, "unique", v) = 0
  BY <1>1, <1>2, <1>3, <1>4 DEF IInv, BoundState
<1>6. Memory \in Memories /\ Locks \in Counts
  BY MemoryIs, LocksAre DEF IInv
<1>7. Shared(Memory, Locks, "raw", nullptr, v) > 0
  <2>1. SoundAt(Memory, Locks, "raw", nullptr, v)
    BY <1>4 DEF IInv, Sound
  <2>2. Unique(Memory, "raw", nullptr, v) = 0
    BY <1>5 DEF Unique, Hand, Memory
  <2>3. Memory.heap[v] # 0
    BY <1>4 DEF Memory
  <2> QED  BY <2>1, <2>2, <2>3 DEF SoundAt
<1>8. Memory' = [Memory EXCEPT !.refs[v] = @ + 1]
  BY <1>3 DEF Memory
<1>9. Memory' \in Memories /\ Sound(Memory', Locks, "shared", v)
  BY <1>4, <1>6, <1>7, <1>8, CopyIsSound DEF IInv
<1>10. \A g \in Functions : body'[g] = IF g = f THEN n ELSE body[g]
  BY <1>3, <1>4 DEF IInv, TypeInv
<1>11. n \in 1..MaxObjects /\ n # Idle
  BY <1>4, NotNullAssumption DEF IInv, TypeInv, Idle
<1>12. Locks' \in Counts /\ \A a \in Addresses : Locks'[a] = Locks[a] + Hand("shared", v, "shared", a)
  <2>1. ASSUME NEW a \in Addresses
        PROVE  /\ IsFiniteSet(Locking(a)) /\ Cardinality(Locking(a)) \in Nat
               /\ Cardinality(Locking(a)') = Cardinality(Locking(a))
                                              + Hand("shared", v, "shared", a)
    <3>1. IsFiniteSet(Locking(a)) /\ Cardinality(Locking(a)) \in Nat
      BY LocksAre
    <3>2. CASE a = v
      <4>1. f \notin Locking(a) /\ Locking(a)' = Locking(a) \cup {f}
        BY <1>1, <1>3, <1>10, <1>11, <3>2 DEF Locking
      <4> QED  BY <3>1, <3>2, <4>1, LockCounts DEF Hand
    <3>3. CASE a # v
      <4>1. Locking(a)' = Locking(a)
        BY <1>1, <1>3, <1>10, <3>3 DEF Locking
      <4> QED  BY <3>1, <3>3, <4>1 DEF Hand
    <3> QED  BY <3>1, <3>2, <3>3
  <2>2. \A a \in Addresses : Hand("shared", v, "shared", a) \in Nat
    BY DEF Hand
  <2> QED  BY <2>1, <2>2 DEF Locks, Counts
<1>13. Sound(Memory', Locks', "raw", nullptr)
  BY <1>4, <1>6, <1>9, <1>12, LockIsSound
<1>14. TypeInv'
  <2>1. refs' \in [Addresses -> Nat]
    BY <1>3, <1>4 DEF IInv, TypeInv
  <2>2. body' \in [Functions -> {Idle} \cup 1..MaxObjects]
    BY <1>3, <1>4, <1>11 DEF IInv, TypeInv
  <2> QED  BY <1>3, <2>1, <2>2 DEF IInv, TypeInv
<1>15. BodyState'
  BY <1>1, <1>2, <1>3, <1>4, <1>10 DEF IInv, BodyState
<1>16. ObjectsApart' /\ WeakState' /\ BoundState' /\ DereferencedAfterCheck'
  BY <1>3 DEF IInv, ObjectsApart, WeakState, LeadsTo, BoundState,
              DereferencedAfterCheck, NullableDereferences, NotNullDereferences
<1> QED
  BY <1>13, <1>14, <1>15, <1>16 DEF IInv

\* A body returns: it gives up what it had locked.
LEMMA ReturnKeeps ==
  ASSUME IInv, NEW f \in Functions, Return(f)
  PROVE  IInv'
<1>1. PICK v : v = bound[f].to.ptr
  OBVIOUS
<1>2. PICK k \in {"raw", "shared"} : k = IF bound[f].by = "WeakPtr" THEN "raw" ELSE "shared"
  OBVIOUS
<1>3. /\ UNCHANGED <<ptr, checked, created, compared, weak, bound>>
      /\ body[f] # Idle /\ body' = [body EXCEPT ![f] = Idle]
      /\ refs' = Unref(Memory, k, v).refs /\ heap' = Unref(Memory, k, v).heap
  BY <1>1, <1>2 DEF Return
<1>4. Memory \in Memories /\ Locks \in Counts
  BY MemoryIs, LocksAre DEF IInv
<1>5. \A g \in Functions : body'[g] = IF g = f THEN Idle ELSE body[g]
  BY <1>3 DEF IInv, TypeInv
<1>6. body' \in [Functions -> {Idle} \cup 1..MaxObjects]
  BY <1>3 DEF IInv, TypeInv
<1>7. k = "shared" <=> bound[f].by = "std::weak_ptr"
  BY <1>2, <1>3 DEF IInv, TypeInv, BodyState
<1>8. v \in Pointer /\ (k = "shared" => v \in Addresses)
  BY <1>1, <1>7 DEF IInv, TypeInv, Weak, BoundState
<1>9. Locks' \in Counts /\ \A a \in Addresses : Locks[a] = Locks'[a] + Hand(k, v, "shared", a)
  <2>1. ASSUME NEW a \in Addresses
        PROVE  /\ IsFiniteSet(Locking(a)') /\ Cardinality(Locking(a)') \in Nat
               /\ Cardinality(Locking(a)) = Cardinality(Locking(a)')
                                            + Hand(k, v, "shared", a)
    <3>1. IsFiniteSet(Locking(a)') /\ Cardinality(Locking(a)') \in Nat
      <4>1. Locking(a)' \subseteq Functions
        BY DEF Locking
      <4> QED  BY <4>1, FunctionsAssumption, FS_Subset, FS_CardinalityType
    <3>2. CASE k = "shared" /\ a = v
      <4>1. f \notin Locking(a)' /\ Locking(a) = Locking(a)' \cup {f}
        BY <1>1, <1>3, <1>5, <1>7, <3>2 DEF Locking
      <4> QED  BY <3>1, <3>2, <4>1, LockCounts DEF Hand
    <3>3. CASE ~(k = "shared" /\ a = v)
      <4>1. Locking(a)' = Locking(a)
        BY <1>1, <1>3, <1>5, <1>7, <3>3 DEF Locking
      <4>2. Hand(k, v, "shared", a) = 0
        BY <3>3 DEF Hand
      <4> QED  BY <3>1, <4>1, <4>2
    <3> QED  BY <3>1, <3>2, <3>3
  <2> QED  BY <2>1 DEF Locks, Counts
<1>10. Sound(Memory, Locks', k, v)
  <2>1. CASE k = "shared"
    BY <1>4, <1>8, <1>9, <2>1, LockIsSound DEF IInv
  <2>2. CASE k = "raw"
    <3>1. \A a \in Addresses : Locks'[a] = Locks[a]
      <4>1. \A a \in Addresses : Hand(k, v, "shared", a) = 0
        BY <2>2 DEF Hand
      <4>2. \A a \in Addresses : Locks'[a] \in Nat
        BY <1>9 DEF Counts
      <4> QED  BY <1>9, <4>1, <4>2
    <3>2. Sound(Memory, Locks', "raw", nullptr)
      BY <3>1 DEF IInv, Sound, SoundAt, Shared
    <3> QED  BY <2>2, <3>2, HandsAlike, NotNullAssumption
  <2> QED  BY <2>1, <2>2
<1>11. Unref(Memory, k, v) \in Memories /\ Sound(Unref(Memory, k, v), Locks', "raw", nullptr)
  BY <1>4, <1>8, <1>9, <1>10, UnrefIsSound
<1>12. /\ Unref(Memory, k, v).ptr = ptr /\ Unref(Memory, k, v).created = created
       /\ \A a \in Addresses : Unref(Memory, k, v).heap[a] \in {heap[a], 0}
       /\ \A a \in Addresses :
            Unique(Memory, k, v, a) = 0 => Unique(Unref(Memory, k, v), "raw", nullptr, a) = 0
  <2>1. Memory.ptr = ptr /\ Memory.heap = heap /\ Memory.created = created
    BY DEF Memory
  <2> QED  BY <1>4, <2>1, UnrefChanges
<1>13. Memory' = Unref(Memory, k, v)
  <2> DEFINE n == Unref(Memory, k, v)
  <2>1. n.ptr = ptr /\ n.created = created /\ heap' = n.heap /\ refs' = n.refs
    BY <1>3, <1>12
  <2>2. n \in Memories
    BY <1>11
  <2> HIDE DEF n
  <2>3. n = [ptr |-> n.ptr, heap |-> n.heap, refs |-> n.refs, created |-> n.created]
    BY <2>2 DEF Memories
  <2>4. Memory' = n
    BY <1>3, <2>1, <2>3 DEF Memory
  <2> QED  BY <2>4 DEF n
<1>14. Follows(Memory', "raw", nullptr)
  <2>1. \A a \in Addresses : Unique(Memory, k, v, a) = Holders(ptr, "unique", a)
    <3>1. \A a \in Addresses : Hand(k, v, "unique", a) = 0 /\ Holders(ptr, "unique", a) \in Nat
      BY HoldersAre DEF Hand
    <3>2. Memory.ptr = ptr
      BY DEF Memory
    <3> QED  BY <3>1, <3>2 DEF Unique
  <2>2. \A a \in Addresses : heap[a] <= created /\ heap[a] \in Nat
    BY NotNullAssumption DEF IInv, TypeInv, ObjectsApart
  <2>3. created \in Nat
    BY NotNullAssumption DEF IInv, TypeInv
  <2>4. \A a \in Addresses : Memory'.heap[a] # created + 1
    BY <1>12, <1>13, <2>2, <2>3
  <2> QED  BY <1>12, <1>13, <2>1, <2>4 DEF Follows
<1>15. ObjectsApart' /\ WeakState' /\ BoundState' /\ BodyState'
  <2>1. Memory' \in Memories /\ Sound(Memory', Locks', "raw", nullptr)
    BY <1>11, <1>13
  <2> QED  BY <1>3, <1>5, <1>6, <1>14, <2>1, FollowingKeeps
<1>16. TypeInv'
  <2>1. heap' \in [Addresses -> 0..MaxObjects] /\ refs' \in [Addresses -> Nat]
    BY <1>3, <1>11 DEF Memories
  <2> QED  BY <1>3, <1>6, <2>1 DEF IInv, TypeInv
<1>17. DereferencedAfterCheck'
  BY <1>3 DEF IInv, DereferencedAfterCheck, NullableDereferences, NotNullDereferences
<1> QED
  BY <1>11, <1>13, <1>15, <1>16, <1>17 DEF IInv

-----------------------------------------------------------------------------

\* The invariant holds at the start: there is nothing.
LEMMA InitIInv == WeakInit => IInv
<1> SUFFICES ASSUME WeakInit PROVE IInv
  OBVIOUS
<1>1. MaxObjects \in Nat /\ nullptr \notin Addresses /\ Absent \notin Addresses
  BY NotNullAssumption
<1>2. /\ Empty \in Weak /\ Empty.flag = 0
      /\ NotBound.by = "nothing" /\ NotBound.to = Empty
      /\ NotBound \in [by : {"nothing", "WeakPtr", "std::weak_ptr"}, to : Weak]
  BY <1>1 DEF Empty, NotBound, Weak, Pointer
<1>3. TypeInv
  BY <1>1, <1>2 DEF WeakInit, Init, TypeInv
<1>4. Sound(Memory, Locks, "raw", nullptr)
  <2> SUFFICES ASSUME NEW a \in Addresses PROVE SoundAt(Memory, Locks, "raw", nullptr, a)
    BY DEF Sound
  <2>1. \A kind : Held(ptr, kind, a) = {}
    BY <1>1 DEF WeakInit, Init, Held
  <2>2. Locking(a) = {}
    BY DEF WeakInit, Locking
  <2>3. /\ \A kind : Holders(ptr, kind, a) = 0
        /\ Locks[a] = 0
    BY <2>1, <2>2, FS_EmptySet DEF Holders, Locks
  <2>4. Hand("raw", nullptr, "unique", a) = 0 /\ Hand("raw", nullptr, "shared", a) = 0
    BY DEF Hand
  <2>5. Memory.heap[a] = 0 /\ Memory.ptr = ptr
    BY DEF Memory, WeakInit, Init
  <2> QED  BY <2>3, <2>4, <2>5 DEF SoundAt, Unique, Shared
<1>5. ObjectsApart
  BY DEF WeakInit, Init, ObjectsApart
<1>6. WeakState
  BY <1>2 DEF WeakInit, Init, WeakState, LeadsTo
<1>7. BoundState /\ BodyState
  BY <1>2 DEF WeakInit, BoundState, BodyState
<1>8. DereferencedAfterCheck
  BY <1>1 DEF WeakInit, Init, DereferencedAfterCheck, NullableDereferences,
              NotNullDereferences, Handles
<1> QED
  BY <1>3, <1>4, <1>5, <1>6, <1>7, <1>8 DEF IInv

\* Every step preserves it.
LEMMA NextIInv == IInv /\ [Next]_vars => IInv'
<1> SUFFICES ASSUME IInv, [Next]_vars PROVE IInv'
  OBVIOUS
<1>1. TypeInv /\ ObjectsApart /\ DereferencedAfterCheck /\ Empty \in Weak /\ LeadsTo(Empty)
  BY EmptyLeads DEF IInv
<1>2. /\ weak \in [WeakPtrs -> Weak] /\ \A w \in WeakPtrs : LeadsTo(weak[w])
  BY DEF IInv, TypeInv, WeakState
<1>3. ASSUME HandleStep, UNCHANGED weakVars PROVE IInv'
  BY <1>1, <1>3, HandleStepIs, CallKeeps, CompareKeeps
<1>4. ASSUME NEW w \in WeakPtrs, AsWeakPtr(w) PROVE IInv'
  <2>1. PICK a \in Live : \E p \in {WeakTo(a), StaticAsWeakPtr(a)} : weak' = [weak EXCEPT ![w] = p]
    BY <1>4 DEF AsWeakPtr
  <2>2. /\ weak' = [weak EXCEPT ![w] = WeakTo(a)]
        /\ WeakTo(a) \in Weak /\ LeadsTo(WeakTo(a))
    BY <1>1, <2>1, WeakToLeads DEF Live
  <2>3. weak' \in [WeakPtrs -> Weak] /\ \A x \in WeakPtrs : LeadsTo(weak'[x])
    BY <1>2, <2>2
  <2> QED  BY <1>4, <2>3, WeakKeeps DEF AsWeakPtr
<1>5. ASSUME NEW w \in WeakPtrs, ResetWeak(w) PROVE IInv'
  <2>1. weak' \in [WeakPtrs -> Weak] /\ \A x \in WeakPtrs : LeadsTo(weak'[x])
    BY <1>1, <1>2, <1>5 DEF ResetWeak
  <2> QED  BY <1>5, <2>1, WeakKeeps DEF ResetWeak
<1>6. \A v \in WeakPtrs : /\ WeakMoved(v) \in [WeakPtrs -> Weak]
                         /\ \A x \in WeakPtrs : LeadsTo(WeakMoved(v)[x])
  BY <1>1, <1>2 DEF WeakMoved
<1>7. ASSUME NEW w \in WeakPtrs, NEW v \in WeakPtrs,
             ConstructWeak(w, v) \/ CopyWeak(w, v) \/ MoveWeak(w, v)
      PROVE  IInv'
  <2>1. /\ weak' \in {[weak EXCEPT ![w] = Empty], [weak EXCEPT ![w] = weak[v]],
                       [WeakMoved(v) EXCEPT ![w] = weak[v]]}
        /\ UNCHANGED <<handleVars, bound, body>>
    BY <1>7 DEF ConstructWeak, CopyWeak, MoveWeak
  <2>2. CASE weak' = [weak EXCEPT ![w] = Empty]
    <3>1. weak' \in [WeakPtrs -> Weak] /\ \A x \in WeakPtrs : LeadsTo(weak'[x])
      BY <1>1, <1>2, <2>2
    <3> QED  BY <2>1, <3>1, WeakKeeps
  <2>3. CASE weak' = [weak EXCEPT ![w] = weak[v]]
    <3>1. weak' \in [WeakPtrs -> Weak] /\ \A x \in WeakPtrs : LeadsTo(weak'[x])
      BY <1>2, <2>3
    <3> QED  BY <2>1, <3>1, WeakKeeps
  <2>4. CASE weak' = [WeakMoved(v) EXCEPT ![w] = weak[v]]
    <3>1. weak' \in [WeakPtrs -> Weak] /\ \A x \in WeakPtrs : LeadsTo(weak'[x])
      BY <1>2, <1>6, <2>4
    <3> QED  BY <2>1, <3>1, WeakKeeps
  <2> QED  BY <2>1, <2>2, <2>3, <2>4
<1>8. ASSUME NEW h \in Nullables, NEW w \in WeakPtrs, NullableFromWeak(h, w) PROVE IInv'
  <2> DEFINE arg == [m |-> Memory, v |-> GetNullable(weak[w])]
  <2>1. arg.m = Memory /\ arg.v = GetNullable(weak[w]) /\ arg.v \in Pointer
    <3>1. weak[w].ptr \in Pointer /\ nullptr \in Pointer
      BY <1>2 DEF Weak, Pointer
    <3> QED  BY <3>1 DEF GetNullable
  <2> HIDE DEF arg
  <2>2. h \in Handles /\ h \notin NotNulls /\ Kind[h] = "raw"
    BY <1>8, NotNullAssumption DEF Handles, NullableFromWeak
  <2>3. Become(h, arg, FALSE, FALSE) /\ UNCHANGED weakVars
    BY <1>8 DEF NullableFromWeak, arg
  <2>4. Call(h)
    BY <2>1, <2>2, <2>3 DEF Call, ArgOf, Pointer
  <2> QED  BY <2>2, <2>3, <2>4, CallKeeps
<1>9. ASSUME NEW f \in Functions, InvokeWeak(f) \/ InvokeShared(f) \/ Return(f) PROVE IInv'
  BY <1>9, InvokeWeakKeeps, InvokeSharedKeeps, ReturnKeeps
<1>10. ASSUME NEW f \in Functions, NEW w \in WeakPtrs, BindWeak(f, w) PROVE IInv'
  <2>1. PICK to : to = weak[w]
    OBVIOUS
  <2>2. /\ weak' \in [WeakPtrs -> Weak] /\ \A x \in WeakPtrs : LeadsTo(weak'[x])
        /\ to \in Weak /\ LeadsTo(to)
    BY <1>2, <1>6, <1>10, <2>1 DEF BindWeak
  <2>3. /\ bound' = [bound EXCEPT ![f] = [by |-> "WeakPtr", to |-> to]]
        /\ body[f] = Idle /\ UNCHANGED <<handleVars, body>>
    BY <1>10, <2>1 DEF BindWeak
  <2> QED  BY <2>2, <2>3, BindKeeps
<1>11. ASSUME NEW f \in Functions, NEW h \in Handles, BindShared(f, h) PROVE IInv'
  <2>1. PICK a \in Addresses : a = ptr[h]
    BY <1>11 DEF BindShared
  <2>2. /\ bound' = [bound EXCEPT ![f] = [by |-> "std::weak_ptr", to |-> WeakTo(a)]]
        /\ body[f] = Idle /\ Kind[h] = "shared" /\ UNCHANGED <<handleVars, weak, body>>
    BY <1>11, <2>1 DEF BindShared
  <2>3. heap[a] # 0 /\ Holders(ptr, "unique", a) = 0
    <3>1. Holders(ptr, "shared", a) > 0
      BY <2>1, <2>2, HolderCounts
    <3>2. SoundAt(Memory, Locks, "raw", nullptr, a)
      BY DEF IInv, Sound
    <3>3. /\ Hand("raw", nullptr, "unique", a) = 0 /\ Hand("raw", nullptr, "shared", a) = 0
          /\ Holders(ptr, "unique", a) \in Nat /\ Holders(ptr, "shared", a) \in Nat
          /\ Locks[a] \in Nat
      BY HoldersAre, LocksAre DEF Hand, Counts
    <3>4. Memory.ptr = ptr /\ Memory.heap = heap
      BY DEF Memory
    <3> QED  BY <3>1, <3>2, <3>3, <3>4 DEF SoundAt, Unique, Shared
  <2>4. WeakTo(a) \in Weak /\ LeadsTo(WeakTo(a)) /\ WeakTo(a).ptr = a
    BY <1>1, <2>3, WeakToLeads DEF WeakTo
  <2>5. PICK to : to = WeakTo(a)
    OBVIOUS
  <2>6. /\ to \in Weak /\ LeadsTo(to) /\ to.ptr = a
        /\ bound' = [bound EXCEPT ![f] = [by |-> "std::weak_ptr", to |-> to]]
    BY <2>2, <2>4, <2>5
  <2> QED  BY <1>2, <2>2, <2>3, <2>6, BindKeeps
<1>12. CASE UNCHANGED vars
  BY <1>12 DEF vars, handleVars, weakVars, IInv, TypeInv, Memory, Locks, Locking,
     ObjectsApart, WeakState, LeadsTo, BoundState, BodyState, DereferencedAfterCheck,
     NullableDereferences, NotNullDereferences
<1> QED
  BY <1>3, <1>4, <1>5, <1>7, <1>8, <1>9, <1>10, <1>11, <1>12 DEF Next

LEMMA Invariance == Spec => []IInv
BY InitIInv, NextIInv, PTL DEF Spec

\* Every variable holds what its type allows.
THEOREM TypeCorrect == Spec => []TypeInv
<1>1. IInv => TypeInv
  BY DEF IInv
<1> QED
  BY Invariance, <1>1, PTL

\* For any number of variables, objects and bound functions: an object has one
\* unique owner or is counted right, and dies with its last owner.
THEOREM OwnersAreRight == Spec => []OwnedOnce
<1>1. ASSUME IInv PROVE OwnedOnce
  <2>1. \A a \in Addresses :
          /\ SoundAt(Memory, Locks, "raw", nullptr, a)
          /\ Hand("raw", nullptr, "unique", a) = 0 /\ Hand("raw", nullptr, "shared", a) = 0
          /\ Holders(ptr, "unique", a) \in Nat /\ Holders(ptr, "shared", a) \in Nat
          /\ Locks[a] \in Nat /\ Locks[a] = Cardinality(Locking(a))
    BY <1>1, HoldersAre, LocksAre DEF IInv, Sound, Hand, Counts, Locks
  <2>2. Memory.ptr = ptr /\ Memory.heap = heap /\ Memory.refs = refs
    BY DEF Memory
  <2>3. \A a \in Addresses :
          LET uniques == Holders(ptr, "unique", a)
              sharers == Holders(ptr, "shared", a) + Locks[a]
          IN  /\ heap[a] = 0 => uniques = 0 /\ sharers = 0
              /\ heap[a] # 0 => \/ uniques = 1 /\ sharers = 0
                                \/ uniques = 0 /\ sharers > 0 /\ refs[a] = sharers
    BY <2>1, <2>2 DEF SoundAt, Unique, Shared
  <2>4. ASSUME NEW h \in Handles, NEW g \in Handles, h # g, Kind[h] = "unique", Owning(g),
               ptr[h] = ptr[g], ptr[h] \in Addresses
        PROVE  FALSE
    <3>1. CASE Kind[g] = "unique"
      <4>1. h \in Held(ptr, "unique", ptr[h]) /\ g \in Held(ptr, "unique", ptr[h])
        BY <2>4, <3>1 DEF Held
      <4>2. Holders(ptr, "unique", ptr[h]) > 1
        BY <2>4, <4>1, TwoHolders
      <4> QED  BY <2>1, <2>3, <2>4, <4>2
    <3>2. CASE Kind[g] = "shared"
      <4>1. Holders(ptr, "unique", ptr[h]) > 0 /\ Holders(ptr, "shared", ptr[h]) > 0
        BY <2>4, <3>2, HolderCounts
      <4> QED  BY <2>1, <2>3, <2>4, <4>1
    <3> QED  BY <2>4, <3>1, <3>2, NotNullAssumption DEF Owning
  <2>5. ASSUME NEW h \in Handles, NEW g \in Handles, h # g, Kind[h] = "unique", Owning(g),
               IF {h, g} \subseteq Nullables THEN NullableEqual(h, g) ELSE NotNullEqual(h, g)
        PROVE  ptr[h] = nullptr
    <3>1. ptr[h] = ptr[g] /\ ptr[h] # Absent
      BY <2>5 DEF NullableEqual, NotNullEqual, Usable, InScope
    <3>2. ptr[h] \in Addresses \cup {nullptr, Absent}
      BY <1>1 DEF IInv, TypeInv, Pointer
    <3> QED  BY <2>4, <2>5, <3>1, <3>2
  <2>6. \A a \in Addresses : \A kind :
          OwnersOf(a, kind) = Held(ptr, kind, a)
    BY DEF OwnersOf, Held
  <2>7. \A a \in Addresses : /\ Cardinality(OwnersOf(a, "unique")) = Holders(ptr, "unique", a)
                            /\ Cardinality(OwnersOf(a, "shared")) = Holders(ptr, "shared", a)
    BY <2>6 DEF Holders
  <2>8. \A a \in Addresses :
          LET uniques == Cardinality(OwnersOf(a, "unique"))
              sharers == Cardinality(OwnersOf(a, "shared")) + Cardinality(Locking(a))
          IN  /\ heap[a] = 0 => uniques + sharers = 0
              /\ heap[a] # 0 => \/ uniques = 1 /\ sharers = 0
                                \/ uniques = 0 /\ sharers > 0 /\ refs[a] = sharers
    BY <2>1, <2>3, <2>7
  <2> QED  BY <2>5, <2>8 DEF OwnedOnce
<1> QED
  BY Invariance, <1>1, PTL

\* Nothing is dereferenced, or becomes a NotNull, without having been compared
\* with nullptr, in any sequence of calls.
THEOREM ChecksComeFirst == Spec => []DereferencedAfterCheck
<1>1. IInv => DereferencedAfterCheck
  BY DEF IInv
<1> QED
  BY Invariance, <1>1, PTL

\* However often addresses are used again, a WeakPtr leads to its own object.
THEOREM WeakPtrsAreRight == Spec => []WeakSeesItsObject
<1>1. ASSUME IInv PROVE WeakSeesItsObject
  <2> SUFFICES ASSUME NEW w \in WeakPtrs, GetNullable(weak[w]) # nullptr
               PROVE  heap[GetNullable(weak[w])] = weak[w].flag
    BY DEF WeakSeesItsObject
  <2>1. IsValid(weak[w]) /\ GetNullable(weak[w]) = weak[w].ptr
    BY DEF GetNullable
  <2> QED  BY <1>1, <2>1, ValidIsThere DEF IInv, TypeInv, WeakState
<1> QED
  BY Invariance, <1>1, PTL

\* A body is given the object that its function is bound to, and one that has
\* locked it keeps it alive.
THEOREM BodiesAreRight == Spec => []BodiesHaveTheirObject
<1>1. ASSUME IInv PROVE BodiesHaveTheirObject
  <2> SUFFICES ASSUME NEW f \in Functions, body[f] # Idle
               PROVE  /\ body[f] = bound[f].to.flag
                      /\ bound[f].by = "std::weak_ptr" => ~Expired(body[f])
    BY DEF BodiesHaveTheirObject
  <2>1. body[f] \in 1..MaxObjects
    BY <1>1 DEF IInv, TypeInv
  <2>2. /\ body[f] = bound[f].to.flag
        /\ bound[f].by = "std::weak_ptr" =>
             bound[f].to.ptr \in Addresses /\ heap[bound[f].to.ptr] = body[f]
    BY <1>1 DEF IInv, BoundState, BodyState
  <2> QED  BY <2>1, <2>2 DEF Expired, Live
<1> QED
  BY Invariance, <1>1, PTL
=============================================================================
