---------------------------- MODULE StatusProofs -----------------------------
(***************************************************************************)
(* Proofs about Status: no error is destroyed unnoticed, and the flags of  *)
(* a StatusOr and of the Status inside it agree.                           *)
(***************************************************************************)
EXTENDS Status, TLAPS

\* An error is held by an object that exists, and that says so.
ErrorsAreHeld ==
  \A h \in Holders : error[h] # nullptr =>
    /\ h \in alive
    /\ error[h] \in made
    /\ h \in StatusOrs => hasError[h]

\* Moves never leave two holders of one error object.
OneHolder ==
  \A g, h \in Holders : error[g] = error[h] /\ error[g] # nullptr => g = h

\* An error that counts as checked was noticed.
CheckedIsNoticed ==
  \A h \in Holders : error[h] # nullptr /\ checked[h] => error[h] \in noticed

IInv ==
  /\ TypeInv
  /\ FlagsAgree
  /\ ErrorIsThere
  /\ ErrorsAreHeld
  /\ OneHolder
  /\ CheckedIsNoticed

-----------------------------------------------------------------------------

\* The invariant holds at the start.
LEMMA InitIInv == Init => IInv
BY StatusAssumption
   DEF Init, IInv, TypeInv, FlagsAgree, ErrorIsThere, ErrorsAreHeld, OneHolder,
       CheckedIsNoticed

\* What a move does to the facts that do not mention has_error_.
LEMMA MoveKeeps ==
  ASSUME IInv, NEW g \in Holders, NEW h \in Holders, g # h, MoveError(g, h)
  PROVE  /\ error' \in [Holders -> Errors \cup {nullptr}]
         /\ checked' \in [Holders -> BOOLEAN]
         /\ made' \subseteq Errors /\ noticed' \subseteq made'
         /\ error'[g] = error[h] /\ error'[h] = nullptr
         /\ ~checked'[g] /\ checked'[h]
         /\ \A i \in Holders \ {g, h} :
               error'[i] = error[i] /\ checked'[i] = checked[i]
         /\ OneHolder'
         /\ CheckedIsNoticed'
<1> USE DEF MoveError
<1>1. /\ error' \in [Holders -> Errors \cup {nullptr}]
      /\ checked' \in [Holders -> BOOLEAN]
      /\ made' \subseteq Errors /\ noticed' \subseteq made'
  BY DEF IInv, TypeInv
<1>2. /\ error'[g] = error[h] /\ error'[h] = nullptr
      /\ ~checked'[g] /\ checked'[h]
      /\ \A i \in Holders \ {g, h} :
            error'[i] = error[i] /\ checked'[i] = checked[i]
  BY DEF IInv, TypeInv
<1>3. OneHolder'
  <2> SUFFICES ASSUME NEW a \in Holders, NEW b \in Holders,
                      error'[a] = error'[b], error'[a] # nullptr
               PROVE  a = b
    BY DEF OneHolder
  <2> DEFINE before(i) == IF i = g THEN h ELSE i
  <2>1. a # h /\ b # h
    BY <1>2
  <2>2. error'[a] = error[before(a)] /\ error'[b] = error[before(b)]
    BY <1>2, <2>1
  <2>3. before(a) \in Holders /\ before(b) \in Holders
    OBVIOUS
  <2>4. before(a) = before(b)
    <3> HIDE DEF before
    <3> QED BY <2>2, <2>3 DEF IInv, OneHolder
  <2> QED BY <2>1, <2>4
<1>4. CheckedIsNoticed'
  <2> SUFFICES ASSUME NEW a \in Holders, error'[a] # nullptr, checked'[a]
               PROVE  error'[a] \in noticed'
    BY DEF CheckedIsNoticed
  <2>1. a # g /\ a # h /\ error[a] = error'[a] /\ checked[a]
    BY <1>2
  <2>2. error[a] \in noticed /\ error[a] # error[h]
    BY <2>1 DEF IInv, OneHolder, CheckedIsNoticed
  <2> QED BY <2>1, <2>2
<1> QED BY <1>1, <1>2, <1>3, <1>4

\* Steps that only touch Status objects.
LEMMA StatusSteps ==
  ASSUME IInv, NEW s \in Statuses, NEW t \in Statuses,
         \/ MakeStatus(s) \/ Check(s) \/ Destroy(s) \/ TryOk(s)
         \/ MoveConstruct(s, t) \/ MoveAssign(s, t) \/ TryError(s, t)
  PROVE  IInv'
<1> USE StatusAssumption DEF Holders
<1>1. CASE MakeStatus(s)
  BY <1>1 DEF MakeStatus, statusOrVars, IInv, TypeInv, FlagsAgree, ErrorIsThere,
              ErrorsAreHeld, OneHolder, CheckedIsNoticed
<1>2. CASE Check(s)
  BY <1>2 DEF Check, statusOrVars, IInv, TypeInv, FlagsAgree, ErrorIsThere,
              ErrorsAreHeld, OneHolder, CheckedIsNoticed
<1>3. CASE Destroy(s) \/ TryOk(s)
  <2>1. Gone(s) /\ UNCHANGED <<statusOrVars, made, noticed>>
    BY <1>3 DEF Destroy, TryOk
  <2>2. s \in Holders /\ s \notin StatusOrs
    OBVIOUS
  <2>3. TypeInv'
    BY <2>1, <2>2 DEF Gone, statusOrVars, IInv, TypeInv
  <2>4. FlagsAgree' /\ ErrorIsThere'
    BY <2>1, <2>2 DEF Gone, statusOrVars, IInv, TypeInv, FlagsAgree, ErrorIsThere
  <2>5. ErrorsAreHeld'
    BY <2>1, <2>2 DEF Gone, statusOrVars, IInv, TypeInv, ErrorsAreHeld
  <2>6. OneHolder' /\ CheckedIsNoticed'
    BY <2>1, <2>2 DEF Gone, IInv, TypeInv, OneHolder, CheckedIsNoticed
  <2> QED BY <2>3, <2>4, <2>5, <2>6 DEF IInv
<1>4. CASE MoveConstruct(s, t) \/ MoveAssign(s, t)
  <2>1. s # t /\ MoveError(s, t) /\ UNCHANGED statusOrVars
    BY <1>4 DEF MoveConstruct, MoveAssign
  <2>2. alive' \subseteq Holders /\ alive \cup {s} \subseteq alive' /\ t \in alive
    BY <1>4 DEF MoveConstruct, MoveAssign, IInv, TypeInv
  <2>3. TypeInv'
    BY <2>1, <2>2, MoveKeeps DEF statusOrVars, IInv, TypeInv
  <2>4. /\ \A o \in StatusOrs : error'[o] = error[o] /\ checked'[o] = checked[o]
        /\ error'[s] = error[t] /\ error'[t] = nullptr /\ made' = made
        /\ \A i \in Holders \ {s, t} : error'[i] = error[i]
    BY <2>1, MoveKeeps DEF MoveError
  <2>5. FlagsAgree' /\ ErrorIsThere'
    BY <2>1, <2>4 DEF statusOrVars, IInv, FlagsAgree, ErrorIsThere
  <2>6. ErrorsAreHeld'
    BY <2>1, <2>2, <2>4 DEF statusOrVars, IInv, ErrorsAreHeld
  <2> QED BY <2>1, <2>3, <2>5, <2>6, MoveKeeps DEF IInv
<1>5. CASE TryError(s, t)
  <2>1. TypeInv' /\ FlagsAgree' /\ ErrorIsThere'
    BY <1>5 DEF TryError, statusOrVars, IInv, TypeInv, FlagsAgree, ErrorIsThere
  <2>2. ErrorsAreHeld' /\ OneHolder' /\ CheckedIsNoticed'
    BY <1>5 DEF TryError, statusOrVars, IInv, TypeInv, ErrorsAreHeld, OneHolder,
                CheckedIsNoticed
  <2> QED BY <2>1, <2>2 DEF IInv
<1> QED BY <1>1, <1>2, <1>3, <1>4, <1>5

\* Steps of StatusOr objects alone.
LEMMA StatusOrSteps ==
  ASSUME IInv, NEW o \in StatusOrs, NEW p \in StatusOrs,
         \/ ConstructFromValue(o) \/ AssignValue(o)
         \/ CheckStatusOr(o) \/ DestroyStatusOr(o)
         \/ MoveConstructStatusOr(o, p) \/ MoveAssignStatusOr(o, p)
  PROVE  IInv'
<1> USE StatusAssumption DEF Holders
<1>1. CASE ConstructFromValue(o) \/ AssignValue(o)
  <2>1. StoreValue(o) /\ alive' = alive \cup {o} /\ o \in Holders
    BY <1>1 DEF ConstructFromValue, AssignValue, MayReplace
  <2>2. TypeInv'
    BY <2>1 DEF StoreValue, IInv, TypeInv
  <2>3. FlagsAgree' /\ ErrorIsThere'
    BY <2>1 DEF StoreValue, IInv, TypeInv, FlagsAgree, ErrorIsThere
  <2>4. ErrorsAreHeld'
    BY <2>1 DEF StoreValue, IInv, TypeInv, ErrorsAreHeld
  <2>5. OneHolder' /\ CheckedIsNoticed'
    BY <2>1 DEF StoreValue, IInv, TypeInv, OneHolder, CheckedIsNoticed
  <2> QED BY <2>2, <2>3, <2>4, <2>5 DEF IInv
<1>2. CASE CheckStatusOr(o)
  BY <1>2 DEF CheckStatusOr, IInv, TypeInv, FlagsAgree, ErrorIsThere,
              ErrorsAreHeld, OneHolder, CheckedIsNoticed
<1>3. CASE DestroyStatusOr(o)
  BY <1>3 DEF DestroyStatusOr, Gone, IInv, TypeInv, FlagsAgree, ErrorIsThere,
              ErrorsAreHeld, OneHolder, CheckedIsNoticed
<1>4. CASE MoveConstructStatusOr(o, p) \/ MoveAssignStatusOr(o, p)
  <2>1. /\ o # p /\ Usable(p)
        /\ hasError' = [hasError EXCEPT ![o] = hasError[p]]
        /\ wasChecked' = [wasChecked EXCEPT ![o] = FALSE, ![p] = TRUE]
        /\ alive' \subseteq Holders /\ alive \cup {o} \subseteq alive'
    BY <1>4 DEF MoveConstructStatusOr, MoveAssignStatusOr, MoveFromStatusOr, IInv,
                TypeInv, MayReplace
  <2>2. CASE hasError[p] /\ MoveError(o, p)
    <3>1. TypeInv'
      BY <2>1, <2>2, MoveKeeps DEF IInv, TypeInv
    <3>2. FlagsAgree' /\ ErrorIsThere' /\ ErrorsAreHeld'
      BY <2>1, <2>2, MoveKeeps
         DEF MoveError, Usable, IInv, TypeInv, FlagsAgree, ErrorIsThere, ErrorsAreHeld
    <3> QED BY <2>1, <2>2, <3>1, <3>2, MoveKeeps DEF IInv
  <2>3. CASE /\ ~hasError[p]
             /\ error' = [error EXCEPT ![o] = nullptr]
             /\ checked' = [checked EXCEPT ![o] = FALSE]
             /\ UNCHANGED <<made, noticed>>
    <3>1. TypeInv' /\ FlagsAgree' /\ ErrorIsThere'
      BY <2>1, <2>3 DEF IInv, TypeInv, FlagsAgree, ErrorIsThere
    <3>2. ErrorsAreHeld' /\ OneHolder' /\ CheckedIsNoticed'
      BY <2>1, <2>3 DEF IInv, TypeInv, ErrorsAreHeld, OneHolder, CheckedIsNoticed
    <3> QED BY <3>1, <3>2 DEF IInv
  <2> QED BY <1>4, <2>2, <2>3
          DEF MoveConstructStatusOr, MoveAssignStatusOr, MoveFromStatusOr
<1> QED BY <1>1, <1>2, <1>3, <1>4

\* Steps in which a Status and a StatusOr exchange an error.
LEMMA ExchangeSteps ==
  ASSUME IInv, NEW o \in StatusOrs, NEW s \in Statuses,
         ConstructFromStatus(o, s) \/ AssignStatus(o, s) \/ TakeStatus(o, s)
  PROVE  IInv'
<1> USE StatusAssumption DEF Holders
<1>1. o # s
  BY StatusAssumption
<1>2. CASE ConstructFromStatus(o, s) \/ AssignStatus(o, s)
  <2>1. /\ MoveError(o, s) /\ error[s] # nullptr
        /\ hasError' = [hasError EXCEPT ![o] = TRUE]
        /\ wasChecked' = [wasChecked EXCEPT ![o] = FALSE]
        /\ alive' \subseteq Holders /\ alive \cup {o} \subseteq alive'
    BY <1>2 DEF ConstructFromStatus, AssignStatus, TakeFrom, MayReplace, IInv, TypeInv
  <2>2. TypeInv'
    BY <1>1, <2>1, MoveKeeps DEF IInv, TypeInv
  <2>3. FlagsAgree' /\ ErrorIsThere' /\ ErrorsAreHeld'
    BY <1>1, <2>1, MoveKeeps
       DEF MoveError, IInv, TypeInv, FlagsAgree, ErrorIsThere, ErrorsAreHeld
  <2> QED BY <1>1, <2>1, <2>2, <2>3, MoveKeeps DEF IInv
<1>3. CASE TakeStatus(o, s)
  <2>1. /\ MoveError(s, o) /\ wasChecked[o] /\ hasError[o]
        /\ alive' = alive \cup {s}
        /\ UNCHANGED statusOrVars
    BY <1>3 DEF TakeStatus
  <2>2. TypeInv'
    BY <1>1, <2>1, MoveKeeps DEF statusOrVars, IInv, TypeInv
  <2>3. FlagsAgree' /\ ErrorIsThere' /\ ErrorsAreHeld'
    BY <1>1, <2>1, MoveKeeps
       DEF MoveError, statusOrVars, IInv, TypeInv, FlagsAgree, ErrorIsThere,
           ErrorsAreHeld
  <2> QED BY <1>1, <2>1, <2>2, <2>3, MoveKeeps DEF IInv
<1> QED BY <1>2, <1>3

\* Every step keeps the invariant.
LEMMA NextIInv == IInv /\ [Next]_vars => IInv'
<1> SUFFICES ASSUME IInv, [Next]_vars PROVE IInv'
  OBVIOUS
<1>1. CASE UNCHANGED vars
  BY <1>1 DEF vars, statusVars, statusOrVars, IInv, TypeInv, FlagsAgree, ErrorIsThere,
              ErrorsAreHeld, OneHolder, CheckedIsNoticed
<1>2. CASE Next
  BY <1>2, StatusSteps, StatusOrSteps, ExchangeSteps DEF Next
<1> QED BY <1>1, <1>2

\* The invariant holds always.
LEMMA Invariant == Spec => []IInv
BY InitIInv, NextIInv, PTL DEF Spec

\* The variables keep their types, whatever is constructed, moved, assigned and
\* destroyed in whatever order.
THEOREM TypeCorrect == Spec => []TypeInv
<1>1. IInv => TypeInv
  BY DEF IInv
<1> QED BY <1>1, Invariant, PTL

\* Where the assertion of a StatusOr (status_or.h:114) holds, the one of the
\* Status inside it (status.h:169) does.
THEOREM FlagsStayTogether == Spec => []FlagsAgree
<1>1. IInv => FlagsAgree
  BY DEF IInv
<1> QED BY <1>1, Invariant, PTL

\* A StatusOr that has an error and is still to be checked has an error object.
THEOREM ErrorsStay == Spec => []ErrorIsThere
<1>1. IInv => ErrorIsThere
  BY DEF IInv
<1> QED BY <1>1, Invariant, PTL

-----------------------------------------------------------------------------

\* A holder that gives its error up to nobody was checked.
LEMMA OverwrittenIsNoticed ==
  ASSUME IInv, [Next]_vars
  PROVE  Held \ Held' \subseteq noticed
<1> USE StatusAssumption DEF Holders
<1> SUFFICES ASSUME NEW h \in Holders, error[h] # nullptr,
                    \A i \in Holders : error'[i] # error[h]
             PROVE  error[h] \in noticed
  BY DEF Held
<1>1. error'[h] # error[h]
  OBVIOUS
<1>2. ~UNCHANGED vars
  BY <1>1 DEF vars, statusVars
<1>3. checked[h] => error[h] \in noticed
  BY DEF IInv, CheckedIsNoticed
\* A move from `other' to `g' changes only those two, and `g' had been checked.
<1>4. ASSUME NEW g \in Holders, NEW other \in Holders, g # other,
             MoveError(g, other), g \notin alive \/ error[g] = nullptr \/ checked[g]
      PROVE  error[h] \in noticed
  <2>1. error'[g] = error[other] /\ \A i \in Holders \ {g, other} : error'[i] = error[i]
    BY <1>4, MoveKeeps
  <2>2. h = g
    BY <1>1, <2>1
  <2> QED BY <1>3, <1>4, <2>2 DEF IInv, ErrorsAreHeld
<1>5. ASSUME NEW s \in Statuses, MakeStatus(s) \/ Check(s) \/ Destroy(s) \/ TryOk(s)
      PROVE  error[h] \in noticed
  <2>1. h = s
    BY <1>1, <1>5 DEF MakeStatus, Check, Destroy, TryOk, Gone, IInv, TypeInv
  <2> QED BY <1>1, <1>3, <1>5, <2>1
          DEF MakeStatus, Check, Destroy, TryOk, IInv, ErrorsAreHeld
<1>6. ASSUME NEW s \in Statuses, NEW t \in Statuses,
             MoveConstruct(s, t) \/ MoveAssign(s, t) \/ TryError(s, t)
      PROVE  error[h] \in noticed
  <2>1. CASE MoveConstruct(s, t) \/ MoveAssign(s, t)
    BY <1>4, <2>1 DEF MoveConstruct, MoveAssign
  <2>2. CASE TryError(s, t)
    <3>1. s # t /\ error'[t] = error[s] /\ error[t] = nullptr
      BY <2>2 DEF TryError, IInv, TypeInv, ErrorsAreHeld
    <3>2. \A i \in Holders \ {s, t} : error'[i] = error[i]
      BY <2>2 DEF TryError, IInv, TypeInv
    <3> QED BY <1>1, <3>1, <3>2
  <2> QED BY <1>6, <2>1, <2>2
<1>7. ASSUME NEW o \in StatusOrs,
             \/ ConstructFromValue(o) \/ AssignValue(o)
             \/ CheckStatusOr(o) \/ DestroyStatusOr(o)
      PROVE  error[h] \in noticed
  <2>1. h = o
    BY <1>1, <1>7 DEF ConstructFromValue, AssignValue, StoreValue, CheckStatusOr,
                      DestroyStatusOr, Gone, IInv, TypeInv
  <2> QED BY <1>1, <1>3, <1>7, <2>1
          DEF ConstructFromValue, AssignValue, CheckStatusOr, DestroyStatusOr, MayReplace,
              IInv, ErrorsAreHeld
<1>8. ASSUME NEW o \in StatusOrs, NEW s \in Statuses,
             ConstructFromStatus(o, s) \/ AssignStatus(o, s) \/ TakeStatus(o, s)
      PROVE  error[h] \in noticed
  <2>1. o # s /\ (hasError[o] \/ error[o] = nullptr)
    BY DEF IInv, ErrorsAreHeld
  <2>2. CASE ConstructFromStatus(o, s) \/ AssignStatus(o, s)
    BY <1>4, <2>1, <2>2 DEF ConstructFromStatus, AssignStatus, TakeFrom, MayReplace
  <2>3. CASE TakeStatus(o, s)
    BY <1>4, <2>1, <2>3 DEF TakeStatus
  <2> QED BY <1>8, <2>2, <2>3
<1>9. ASSUME NEW o \in StatusOrs, NEW p \in StatusOrs,
             MoveConstructStatusOr(o, p) \/ MoveAssignStatusOr(o, p)
      PROVE  error[h] \in noticed
  <2>1. /\ o # p /\ MoveFromStatusOr(o, p)
        /\ o \notin alive \/ error[o] = nullptr \/ checked[o]
    BY <1>9 DEF MoveConstructStatusOr, MoveAssignStatusOr, MoveFromStatusOr, MayReplace,
                IInv, ErrorsAreHeld
  <2>2. CASE MoveError(o, p)
    BY <1>4, <2>1, <2>2
  <2>3. CASE error' = [error EXCEPT ![o] = nullptr]
    <3>1. h = o
      BY <1>1, <2>3 DEF IInv, TypeInv
    <3> QED BY <1>3, <2>1, <3>1 DEF IInv, ErrorsAreHeld
  <2> QED BY <2>1, <2>2, <2>3 DEF MoveFromStatusOr
<1> QED BY <1>2, <1>5, <1>6, <1>7, <1>8, <1>9 DEF Next

\* No destructor and no assignment makes an error disappear whose last holder
\* was not checked.
THEOREM NoticesErrors == Spec => NoErrorGoesUnnoticed
<1>1. IInv /\ [Next]_vars => [Held \ Held' \subseteq noticed]_vars
  BY OverwrittenIsNoticed
<1> QED BY <1>1, Invariant, PTL DEF Spec, NoErrorGoesUnnoticed
=============================================================================
