------------------------------- MODULE WeakPtr -------------------------------
(***************************************************************************)
(* rst::WeakPtr, SupportsWeakPtr and the two forms of rst::Bind() over the *)
(* owners of NotNull: objects are created, handed from owner to owner and  *)
(* destroyed while weak pointers to them and functions bound to them are   *)
(* around.  Every object is a SupportsWeakPtr, whose flag_ lives as long   *)
(* as the object does, so that a flag is named by the object.              *)
(*                                                                         *)
(* The body of a bound function runs between its call and its return, and  *)
(* anything may happen meanwhile.  A function is not called again in its   *)
(* own body.                                                               *)
(***************************************************************************)
EXTENDS NotNull

CONSTANTS WeakPtrs,   \* variables of type WeakPtr
          Functions   \* variables that hold what Bind() returned

ASSUME FunctionsAssumption == IsFiniteSet(Functions)

VARIABLES
  weak,    \* flag_ and ptr_ of each WeakPtr; the flag is 0 when empty
  bound,   \* what each function is bound to
  body     \* the object that the running body of each function was given

weakVars == <<weak, bound, body>>
vars == <<handleVars, weakVars>>

Empty == [flag |-> 0, ptr |-> nullptr]
NotBound == [by |-> "nothing", to |-> Empty]
Idle == -1

WeakInit ==
  /\ Init
  /\ weak = [w \in WeakPtrs |-> Empty]
  /\ bound = [f \in Functions |-> NotBound]
  /\ body = [f \in Functions |-> Idle]

-----------------------------------------------------------------------------

Live == {a \in Addresses : heap[a] # 0}

\* flag_.expired()
Expired(flag) == \A a \in Live : heap[a] # flag

\* Mutant: IsValid() asks whether something lives at the address.
IsValidByAddress(p) == p.ptr \in Live

IsValid(p) == ~Expired(p.flag)

GetNullable(p) == IF IsValid(p) THEN p.ptr ELSE nullptr

\* The private constructor and AsWeakPtr().
WeakTo(a) == [flag |-> heap[a], ptr |-> a]

\* AsWeakPtrImpl(): the flag is moved out of the WeakPtr to the base and the
\* pointer, which is not checked again, is cast.
StaticAsWeakPtr(a) == LET base == WeakTo(a) IN [flag |-> base.flag, ptr |-> base.ptr]

AsWeakPtr(w) ==
  /\ \E a \in Live : \E p \in {WeakTo(a), StaticAsWeakPtr(a)} : weak' = [weak EXCEPT ![w] = p]
  /\ UNCHANGED <<handleVars, bound, body>>

\* A move takes the flag; the ptr_ left behind cannot be reached without it.
WeakMoved(v) == [weak EXCEPT ![v] = Empty]

ConstructWeak(w, v) ==
  /\ w # v
  /\ weak' \in {[weak EXCEPT ![w] = Empty], [weak EXCEPT ![w] = weak[v]],
                [WeakMoved(v) EXCEPT ![w] = weak[v]]}
  /\ UNCHANGED <<handleVars, bound, body>>

CopyWeak(w, v) ==
  /\ weak' = [weak EXCEPT ![w] = weak[v]]
  /\ UNCHANGED <<handleVars, bound, body>>

MoveWeak(w, v) ==
  /\ w # v
  /\ weak' = [WeakMoved(v) EXCEPT ![w] = weak[v]]
  /\ UNCHANGED <<handleVars, bound, body>>

ResetWeak(w) ==
  /\ weak' = [weak EXCEPT ![w] = Empty]
  /\ UNCHANGED <<handleVars, bound, body>>

\* A Nullable<T*> is made by GetNullable(); nobody has compared it yet.
NullableFromWeak(h, w) ==
  /\ Kind[h] = "raw" /\ Entering(h)
  /\ Become(h, [m |-> Memory, v |-> GetNullable(weak[w])], FALSE, FALSE)
  /\ UNCHANGED weakVars

-----------------------------------------------------------------------------
(* Bind() *)

\* Bind(f, std::move(w))
BindWeak(f, w) ==
  /\ body[f] = Idle
  /\ bound' = [bound EXCEPT ![f] = [by |-> "WeakPtr", to |-> weak[w]]]
  /\ weak' = WeakMoved(w)
  /\ UNCHANGED <<handleVars, body>>

\* Bind(f, std::weak_ptr(h)), for a shared_ptr h that is not null.
BindShared(f, h) ==
  /\ body[f] = Idle
  /\ Kind[h] = "shared" /\ ptr[h] \in Addresses
  /\ bound' = [bound EXCEPT ![f] = [by |-> "std::weak_ptr", to |-> WeakTo(ptr[h])]]
  /\ UNCHANGED <<handleVars, weak, body>>

\* The call: the body runs if there is an object, on what is at its address.
InvokeWeak(f) ==
  /\ bound[f].by = "WeakPtr" /\ body[f] = Idle
  /\ LET self == GetNullable(bound[f].to)
     IN  body' = IF self = nullptr THEN body ELSE [body EXCEPT ![f] = heap[self]]
  /\ UNCHANGED <<handleVars, weak, bound>>

\* Mutant: the body is given the plain pointer and no shared_ptr.
InvokeUnlocked(f) ==
  /\ bound[f].by = "std::weak_ptr" /\ body[f] = Idle
  /\ LET to == bound[f].to
     IN  /\ ~Expired(to.flag)
         /\ body' = [body EXCEPT ![f] = to.flag]
  /\ UNCHANGED <<handleVars, weak, bound>>

\* The call, which keeps what lock() returned until the body is over.
InvokeShared(f) ==
  /\ bound[f].by = "std::weak_ptr" /\ body[f] = Idle
  /\ LET to == bound[f].to
     IN  /\ ~Expired(to.flag)
         /\ body' = [body EXCEPT ![f] = heap[to.ptr]]
         /\ refs' = [refs EXCEPT ![to.ptr] = @ + 1]
  /\ UNCHANGED <<ptr, checked, heap, created, compared, weak, bound>>

Return(f) ==
  /\ body[f] # Idle
  /\ body' = [body EXCEPT ![f] = Idle]
  /\ LET m == Unref(Memory, IF bound[f].by = "WeakPtr" THEN "raw" ELSE "shared",
                    bound[f].to.ptr)
     IN  refs' = m.refs /\ heap' = m.heap
  /\ UNCHANGED <<ptr, checked, created, compared, weak, bound>>

Next ==
  \/ HandleStep /\ UNCHANGED weakVars
  \/ \E w \in WeakPtrs : AsWeakPtr(w) \/ ResetWeak(w)
  \/ \E w, v \in WeakPtrs : ConstructWeak(w, v) \/ CopyWeak(w, v) \/ MoveWeak(w, v)
  \/ \E h \in Nullables, w \in WeakPtrs : NullableFromWeak(h, w)
  \/ \E f \in Functions : InvokeWeak(f) \/ InvokeShared(f) \/ Return(f)
  \/ \E f \in Functions, w \in WeakPtrs : BindWeak(f, w)
  \/ \E f \in Functions, h \in Handles : BindShared(f, h)

Spec == WeakInit /\ [][Next]_vars

-----------------------------------------------------------------------------

Pointer == Addresses \cup {nullptr}

Weak == [flag : 0..MaxObjects, ptr : Pointer]

TypeInv ==
  /\ ptr \in [Handles -> Pointer \cup {Absent}]
  /\ checked \in [Handles -> BOOLEAN] /\ compared \in [Handles -> BOOLEAN]
  /\ heap \in [Addresses -> 0..MaxObjects]
  /\ refs \in [Addresses -> Nat]
  /\ created \in 0..MaxObjects
  /\ weak \in [WeakPtrs -> Weak]
  /\ bound \in [Functions -> [by : {"nothing", "WeakPtr", "std::weak_ptr"}, to : Weak]]
  /\ body \in [Functions -> {Idle} \cup 1..MaxObjects]

\* The bodies that hold a shared_ptr to what lives at a.
Locking(a) ==
  {f \in Functions : bound[f].by = "std::weak_ptr" /\ body[f] # Idle
                       /\ bound[f].to.ptr = a}

OwnersOf(a, kind) == {h \in Handles : Kind[h] = kind /\ ptr[h] = a}

\* However the smart pointers inside NotNull and Nullable are moved, copied,
\* taken and assigned: an object has one unique owner, which compares equal to
\* no other, or is counted right; it is destroyed with its last owner and not
\* before, and no owner is left behind.
OwnedOnce ==
  /\ \A h, g \in Handles :
       /\ h # g /\ Kind[h] = "unique" /\ Owning(g)
       /\ IF {h, g} \subseteq Nullables THEN NullableEqual(h, g) ELSE NotNullEqual(h, g)
       => ptr[h] = nullptr
  /\ \A a \in Addresses :
     LET uniques == Cardinality(OwnersOf(a, "unique"))
         sharers == Cardinality(OwnersOf(a, "shared")) + Cardinality(Locking(a))
     IN  /\ heap[a] = 0 => uniques + sharers = 0
         /\ heap[a] # 0 => \/ uniques = 1 /\ sharers = 0
                           \/ uniques = 0 /\ sharers > 0 /\ refs[a] = sharers

\* A Nullable that lets itself be dereferenced, or be made a NotNull, holds a
\* pointer that was compared with nullptr since it got it, and was not null.
DereferencedAfterCheck ==
  \A h \in Handles :
    /\ h \in Nullables /\ NullableDereferences(h) => compared[h]
    /\ h \in NotNulls /\ NotNullDereferences(h) => compared[h]

\* A WeakPtr leads to the object it was made for or to nothing: never to a
\* later object at the same address, nor to where it has been.
WeakSeesItsObject ==
  \A w \in WeakPtrs :
    GetNullable(weak[w]) # nullptr => heap[GetNullable(weak[w])] = weak[w].flag

\* A bound function "doesn't invoke" its callable "when [the pointer] was
\* invalidated", and behind a std::weak_ptr the object outlives the call.
BodiesHaveTheirObject ==
  \A f \in Functions :
    body[f] # Idle =>
      /\ body[f] = bound[f].to.flag
      /\ bound[f].by = "std::weak_ptr" => ~Expired(body[f])
=============================================================================
