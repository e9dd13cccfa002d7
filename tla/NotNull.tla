------------------------------- MODULE NotNull -------------------------------
(***************************************************************************)
(* rst::NotNull and rst::Nullable around raw pointers, std::unique_ptr and *)
(* std::shared_ptr: variables of these types in one thread, in a build     *)
(* with DCHECKs.  A call that fails a DCHECK ends the program and is no    *)
(* step.                                                                   *)
(*                                                                         *)
(* A pointer is an address; an object is the number of its creation, so    *)
(* that a later object at the same address is a different one.             *)
(***************************************************************************)
EXTENDS Integers, FiniteSets

CONSTANTS
  NotNulls,    \* variables of a type NotNull<...>
  Nullables,   \* variables of a type Nullable<...>
  Kind,        \* what each is around: "raw", "unique" or "shared"
  Addresses,
  MaxObjects,  \* bound: objects created
  MaxInScope,  \* bound: variables in scope at a time
  nullptr,
  Absent       \* in place of the pointer of a variable out of scope

Handles == NotNulls \cup Nullables

ASSUME NotNullAssumption ==
  /\ NotNulls \cap Nullables = {} /\ IsFiniteSet(Handles)
  /\ Kind \in [Handles -> {"raw", "unique", "shared"}]
  /\ {MaxObjects, MaxInScope} \subseteq Nat
  /\ {nullptr, Absent} \cap Addresses = {} /\ nullptr # Absent

VARIABLES
  ptr,      \* ptr_ of each variable
  checked,  \* was_checked_
  heap,     \* the object that lives at each address, 0 if none
  refs,     \* use_count() of the shared_ptrs to it
  created,  \* objects created so far
  compared  \* history: the pointer was compared with nullptr and is not null,
            \* here or in the variable it was passed from

handleVars == <<ptr, checked, heap, refs, created, compared>>

Owning(h) == Kind[h] # "raw"
InScope(h) == ptr[h] # Absent
Entering(h) == ~InScope(h) /\ Cardinality({g \in Handles : InScope(g)}) < MaxInScope

Init ==
  /\ ptr = [h \in Handles |-> Absent]
  /\ checked = [h \in Handles |-> FALSE]
  /\ heap = [a \in Addresses |-> 0]
  /\ refs = [a \in Addresses |-> 0]
  /\ created = 0
  /\ compared = [h \in Handles |-> FALSE]

-----------------------------------------------------------------------------
(* The smart pointers.  m is the memory: ptr, heap, refs and created.      *)

Memory == [ptr |-> ptr, heap |-> heap, refs |-> refs, created |-> created]

\* An owner gives up the object at a: delete, or one reference less.
Unref(m, kind, a) ==
  IF kind = "raw" \/ a \notin Addresses THEN m
  ELSE [m EXCEPT
          !.refs[a] = IF kind = "shared" THEN @ - 1 ELSE @,
          !.heap[a] = IF kind = "unique" \/ m.refs[a] = 1 THEN 0 ELSE @]

\* h.ptr_ = v; what h held is given up after that.
Store(m, h, v) == Unref([m EXCEPT !.ptr[h] = v], Kind[h], m.ptr[h])

\* A copy of g.ptr_ as an argument.
Copied(g) ==
  IF Kind[g] = "shared" /\ ptr[g] \in Addresses
  THEN [Memory EXCEPT !.refs[ptr[g]] = @ + 1] ELSE Memory

\* std::move(g.ptr_) as an argument: a raw pointer stays.
MovedOut(g) == IF Owning(g) THEN [Memory EXCEPT !.ptr[g] = nullptr] ELSE Memory

\* A new object for a smart pointer of some kind.
Allocated(kind) ==
  {[m |-> [Memory EXCEPT !.heap[a] = created + 1, !.created = @ + 1,
                         !.refs[a] = IF kind = "shared" THEN 1 ELSE 0],
    v |-> a] : a \in {b \in Addresses : heap[b] = 0 /\ created < MaxObjects}}

-----------------------------------------------------------------------------
(* Arguments: the memory once they are evaluated, and their value.         *)

\* get() of a NotNull asserts that it was not moved from.
Usable(h) == InScope(h) /\ (h \in NotNulls => ptr[h] # nullptr)

\* `U ptr': a new object, or get() of another variable for a raw pointer.
Pointers(h) ==
  IF Owning(h) THEN Allocated(Kind[h])
  ELSE {[m |-> Memory, v |-> ptr[g]] : g \in {k \in Handles : Owning(k) /\ Usable(k)}}

Null == [m |-> Memory, v |-> nullptr]

\* The pointer of g, copied where its type allows that, or moved.
PassedFrom(g) ==
  {[m |-> n, v |-> ptr[g]] :
      n \in {MovedOut(g)} \cup (IF Kind[g] = "unique" THEN {} ELSE {Copied(g)})}

Become(h, arg, flag, said) ==
  /\ LET n == Store(arg.m, h, arg.v)
     IN  ptr' = n.ptr /\ heap' = n.heap /\ refs' = n.refs /\ created' = n.created
  /\ checked' = [checked EXCEPT ![h] = flag]
  /\ compared' = [compared EXCEPT ![h] = said]

-----------------------------------------------------------------------------
(* NotNull *)

NotNullFromPointer(h) ==
  /\ Entering(h)
  /\ \E arg \in Pointers(h) : arg.v # nullptr /\ Become(h, arg, FALSE, TRUE)

NotNullFromNotNull(h, g) ==
  /\ Entering(h) /\ g \in NotNulls /\ Usable(g)
  /\ \E arg \in PassedFrom(g) : Become(h, arg, FALSE, TRUE)

\* A Nullable may become a NotNull: DCHECK(nullable.was_checked_).
NullablePasses(g) == g \in Nullables /\ checked[g] /\ ptr[g] \in Addresses

NotNullFromNullable(h, g) ==
  /\ Entering(h) /\ NullablePasses(g)
  /\ \E arg \in PassedFrom(g) : Become(h, arg, FALSE, compared[g])

AssignPointerToNotNull(h) ==
  /\ InScope(h)
  /\ \E arg \in Pointers(h) : arg.v # nullptr /\ Become(h, arg, FALSE, TRUE)

AssignNotNullToNotNull(h, g) ==
  /\ InScope(h) /\ g \in NotNulls /\ Usable(g)
  /\ \E arg \in PassedFrom(g) : Become(h, arg, FALSE, TRUE)

AssignNullableToNotNull(h, g) ==
  /\ InScope(h) /\ NullablePasses(g)
  /\ \E arg \in PassedFrom(g) : Become(h, arg, FALSE, compared[g])

\* std::move(h).Take() of a smart pointer, whose result is not kept.
TakeNotNull(h) ==
  /\ Owning(h) /\ Usable(h)
  /\ Become(h, Null, FALSE, compared[h])

-----------------------------------------------------------------------------
(* Nullable *)

NullableFromPointer(h) ==
  /\ Entering(h)
  /\ \E arg \in Pointers(h) \cup {Null} : Become(h, arg, FALSE, FALSE)

\* The defaulted copy and move constructors take was_checked_ over.
NullableFromSame(h, g) ==
  /\ Entering(h) /\ g \in Nullables /\ InScope(g)
  /\ \E arg \in PassedFrom(g) : Become(h, arg, checked[g], compared[g])

\* The converting ones, from a Nullable<U>, do not.
NullableFromNullable(h, g) ==
  /\ Entering(h) /\ g \in Nullables /\ InScope(g)
  /\ \E arg \in PassedFrom(g) : Become(h, arg, FALSE, compared[g])

NullableFromNotNull(h, g) ==
  /\ Entering(h) /\ g \in NotNulls /\ Usable(g)
  /\ \E arg \in PassedFrom(g) : Become(h, arg, FALSE, TRUE)

\* Mutant: operator=(U) keeps was_checked_.
AssignPointerKeepingFlag(h) ==
  /\ InScope(h)
  /\ \E arg \in Pointers(h) : Become(h, arg, checked[h], FALSE)

AssignPointerToNullable(h) ==
  /\ InScope(h)
  /\ \E arg \in Pointers(h) : Become(h, arg, FALSE, FALSE)

AssignNullableToNullable(h, g) ==
  /\ InScope(h) /\ g \in Nullables /\ InScope(g)
  /\ \E arg \in PassedFrom(g) : Become(h, arg, FALSE, compared[g])

AssignNotNullToNullable(h, g) ==
  /\ InScope(h) /\ g \in NotNulls /\ Usable(g)
  /\ \E arg \in PassedFrom(g) : Become(h, arg, FALSE, TRUE)

AssignNull(h) == InScope(h) /\ Become(h, Null, FALSE, FALSE)

\* Take() leaves was_checked_ as it is.
TakeNullable(h) ==
  /\ Owning(h) /\ InScope(h)
  /\ Become(h, Null, checked[h], compared[h])

\* == and != with nullptr: the only comparisons that count as a check.
CompareWithNull(h) ==
  /\ InScope(h)
  /\ checked' = [checked EXCEPT ![h] = TRUE]
  /\ compared' = [compared EXCEPT ![h] = ptr[h] # nullptr]
  /\ UNCHANGED <<ptr, heap, refs, created>>

\* -> and * of a Nullable pass their DCHECKs.
NullableDereferences(h) == checked[h] /\ ptr[h] \in Addresses

\* -> and * of a NotNull pass the one of get().
NotNullDereferences(h) == ptr[h] \in Addresses

\* operator== of a NotNull and another variable asserts that it is not moved
\* from; that of two Nullables asserts nothing.
NotNullEqual(h, g) == Usable(h) /\ Usable(g) /\ ptr[h] = ptr[g]
NullableEqual(h, g) == InScope(h) /\ InScope(g) /\ ptr[h] = ptr[g]

-----------------------------------------------------------------------------

\* The destructor, at the end of the scope.
LeaveScope(h) == InScope(h) /\ Become(h, [Null EXCEPT !.v = Absent], FALSE, FALSE)

\* What may be passed to h, h itself for a self-assignment.
SameKind(h) == {g \in Handles : Kind[g] = Kind[h]}

NotNullStep(h) ==
  \/ NotNullFromPointer(h) \/ AssignPointerToNotNull(h) \/ TakeNotNull(h)
  \/ \E g \in SameKind(h) :
       \/ NotNullFromNotNull(h, g) \/ NotNullFromNullable(h, g)
       \/ AssignNotNullToNotNull(h, g) \/ AssignNullableToNotNull(h, g)

NullableStep(h) ==
  \/ NullableFromPointer(h) \/ AssignPointerToNullable(h) \/ AssignNull(h)
  \/ TakeNullable(h) \/ CompareWithNull(h)
  \/ \E g \in SameKind(h) :
       \/ NullableFromSame(h, g) \/ NullableFromNullable(h, g)
       \/ NullableFromNotNull(h, g)
       \/ AssignNullableToNullable(h, g) \/ AssignNotNullToNullable(h, g)

HandleStep ==
  \/ \E h \in NotNulls : NotNullStep(h)
  \/ \E h \in Nullables : NullableStep(h)
  \/ \E h \in Handles : LeaveScope(h)
=============================================================================
