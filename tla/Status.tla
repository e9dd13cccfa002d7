------------------------------- MODULE Status --------------------------------
(***************************************************************************)
(* rst::Status and rst::StatusOr with RST_DCHECK on: who holds which error *)
(* and which objects count as checked, over any sequence of constructions, *)
(* moves, assignments, checks and destructions by one thread.  A step is   *)
(* one call whose assertions hold; an assertion that fails ends the        *)
(* program.  Callers do not move from an object twice, nor onto itself.    *)
(***************************************************************************)
EXTENDS Integers

CONSTANTS Statuses,      \* the places where a Status may live
          StatusOrs,     \* the places where a StatusOr may live
          Errors,        \* the error objects ever made
          nullptr        \* not an error

ASSUME StatusAssumption ==
  /\ nullptr \notin Errors
  /\ Statuses \cap StatusOrs = {}

Holders == Statuses \cup StatusOrs    \* of an error_, in a status_ or alone

VARIABLES
  alive,        \* the objects that exist
  error,        \* error_ of each Status, also of the one inside a StatusOr
  checked,      \* its was_checked_
  hasError,     \* has_error_ of each StatusOr
  wasChecked,   \* was_checked_ of the StatusOr itself
  made,         \* the errors that MakeStatus() has made
  noticed       \* history: the errors whose current holder has been asked

statusVars == <<error, checked>>
statusOrVars == <<hasError, wasChecked>>
vars == <<alive, statusVars, statusOrVars, made, noticed>>

Init ==
  /\ alive = {}
  /\ error = [h \in Holders |-> nullptr]
  /\ checked = [h \in Holders |-> FALSE]
  /\ hasError = [o \in StatusOrs |-> FALSE]
  /\ wasChecked = [o \in StatusOrs |-> FALSE]
  /\ made = {}
  /\ noticed = {}

-----------------------------------------------------------------------------
(* Status                                                                  *)

\* MakeStatus<Err>() and Status::OK()
MakeStatus(s) ==
  /\ s \notin alive
  /\ \E e \in (Errors \ made) \cup {nullptr} :
        /\ error' = [error EXCEPT ![s] = e]
        /\ made' = made \cup ({e} \ {nullptr})
  /\ checked' = [checked EXCEPT ![s] = FALSE]
  /\ alive' = alive \cup {s}
  /\ UNCHANGED <<statusOrVars, noticed>>

\* Mutant: the default move operations, which copy the flag.
MoveErrorAndFlag(h, other) ==
  /\ error' = [error EXCEPT ![h] = error[other], ![other] = nullptr]
  /\ checked' = [checked EXCEPT ![h] = checked[other], ![other] = TRUE]
  /\ noticed' = noticed \ {error[other]}
  /\ UNCHANGED made

\* What the move constructor and the assignment of Status do.  An error that
\* changes hands is to be noticed by its new holder.
MoveError(h, other) ==
  /\ error' = [error EXCEPT ![h] = error[other], ![other] = nullptr]
  /\ checked' = [checked EXCEPT ![h] = FALSE, ![other] = TRUE]
  /\ noticed' = noticed \ {error[other]}
  /\ UNCHANGED made

MoveConstruct(s, other) ==
  /\ s \notin alive /\ other \in alive
  /\ MoveError(s, other)
  /\ alive' = alive \cup {s}
  /\ UNCHANGED statusOrVars

MoveAssign(s, rhs) ==
  /\ s \in alive /\ rhs \in alive /\ s # rhs
  /\ checked[s]
  /\ MoveError(s, rhs)
  /\ UNCHANGED <<alive, statusOrVars>>

\* err() and Ignore()
Check(s) ==
  /\ s \in alive
  /\ checked' = [checked EXCEPT ![s] = TRUE]
  /\ noticed' = noticed \cup ({error[s]} \ {nullptr})
  /\ UNCHANGED <<alive, error, statusOrVars, made>>

Gone(h) ==
  /\ alive' = alive \ {h}
  /\ error' = [error EXCEPT ![h] = nullptr]
  /\ checked' = [checked EXCEPT ![h] = FALSE]

Destroy(s) ==
  /\ s \in alive /\ checked[s]
  /\ Gone(s)
  /\ UNCHANGED <<statusOrVars, made, noticed>>

\* RST_TRY(), when the statement gives the Status at s: an error becomes what
\* the function returns, at `result'.
TryOk(s) ==
  /\ s \in alive
  /\ error[s] = nullptr
  /\ Gone(s)
  /\ UNCHANGED <<statusOrVars, made, noticed>>

TryError(s, result) ==
  /\ s \in alive /\ result \notin alive
  /\ error[s] # nullptr
  /\ error' = [error EXCEPT ![result] = error[s], ![s] = nullptr]
  /\ checked' = [checked EXCEPT ![result] = FALSE, ![s] = FALSE]
  /\ noticed' = noticed \ {error[s]}
  /\ alive' = (alive \cup {result}) \ {s}
  /\ UNCHANGED <<statusOrVars, made>>

-----------------------------------------------------------------------------
(* StatusOr                                                                *)

\* The assertions before the content is replaced: the outer flag, and the inner
\* one when Cleanup() destroys the Status or it is assigned to.
MayReplace(o) ==
  /\ o \in alive
  /\ wasChecked[o]
  /\ hasError[o] => checked[o]

\* An object whose content was not moved away.
Usable(o) ==
  /\ o \in alive
  /\ hasError[o] => error[o] # nullptr

\* A value is stored where there was nothing, a value or a Status.
StoreValue(o) ==
  /\ error' = [error EXCEPT ![o] = nullptr]
  /\ checked' = [checked EXCEPT ![o] = FALSE]
  /\ hasError' = [hasError EXCEPT ![o] = FALSE]
  /\ wasChecked' = [wasChecked EXCEPT ![o] = FALSE]
  /\ UNCHANGED <<made, noticed>>

ConstructFromValue(o) ==
  /\ o \notin alive
  /\ StoreValue(o)
  /\ alive' = alive \cup {o}

AssignValue(o) ==
  /\ MayReplace(o)
  /\ StoreValue(o)
  /\ UNCHANGED alive

\* Mutant: Status::OK() is accepted as an error.
TakeFromAny(o, s) ==
  /\ s \in alive
  /\ MoveError(o, s)
  /\ hasError' = [hasError EXCEPT ![o] = TRUE]
  /\ wasChecked' = [wasChecked EXCEPT ![o] = FALSE]

\* The Status parameter takes the error over from s and gives it to status_.
TakeFrom(o, s) ==
  /\ s \in alive
  /\ error[s] # nullptr
  /\ MoveError(o, s)
  /\ hasError' = [hasError EXCEPT ![o] = TRUE]
  /\ wasChecked' = [wasChecked EXCEPT ![o] = FALSE]

ConstructFromStatus(o, s) ==
  /\ o \notin alive
  /\ TakeFrom(o, s)
  /\ alive' = alive \cup {o}

AssignStatus(o, s) ==
  /\ MayReplace(o)
  /\ TakeFrom(o, s)
  /\ UNCHANGED alive

\* other keeps has_error_, with nothing behind it if it was true.
MoveFromStatusOr(o, other) ==
  /\ Usable(other) /\ o # other
  /\ \/ hasError[other] /\ MoveError(o, other)
     \/ /\ ~hasError[other]
        /\ error' = [error EXCEPT ![o] = nullptr]
        /\ checked' = [checked EXCEPT ![o] = FALSE]
        /\ UNCHANGED <<made, noticed>>
  /\ hasError' = [hasError EXCEPT ![o] = hasError[other]]
  /\ wasChecked' = [wasChecked EXCEPT ![o] = FALSE, ![other] = TRUE]

MoveConstructStatusOr(o, other) ==
  /\ o \notin alive
  /\ MoveFromStatusOr(o, other)
  /\ alive' = alive \cup {o}

MoveAssignStatusOr(o, rhs) ==
  /\ MayReplace(o)
  /\ MoveFromStatusOr(o, rhs)
  /\ UNCHANGED alive

\* err() and Ignore()
CheckStatusOr(o) ==
  /\ o \in alive
  /\ wasChecked' = [wasChecked EXCEPT ![o] = TRUE]
  /\ checked' = [checked EXCEPT ![o] = hasError[o]]
  /\ noticed' = noticed \cup ({error[o]} \ {nullptr})
  /\ UNCHANGED <<alive, error, hasError, made>>

\* The Status that is returned is made from status_; the outer flag remains.
TakeStatus(o, result) ==
  /\ Usable(o) /\ result \notin alive
  /\ wasChecked[o] /\ hasError[o]
  /\ MoveError(result, o)
  /\ alive' = alive \cup {result}
  /\ UNCHANGED statusOrVars

DestroyStatusOr(o) ==
  /\ MayReplace(o)
  /\ Gone(o)
  /\ hasError' = [hasError EXCEPT ![o] = FALSE]
  /\ wasChecked' = [wasChecked EXCEPT ![o] = FALSE]
  /\ UNCHANGED <<made, noticed>>

Next ==
  \/ \E s \in Statuses : MakeStatus(s) \/ Check(s) \/ Destroy(s) \/ TryOk(s)
  \/ \E s, t \in Statuses :
        MoveConstruct(s, t) \/ MoveAssign(s, t) \/ TryError(s, t)
  \/ \E o \in StatusOrs :
        \/ ConstructFromValue(o) \/ AssignValue(o)
        \/ CheckStatusOr(o) \/ DestroyStatusOr(o)
  \/ \E o \in StatusOrs, s \in Statuses :
        ConstructFromStatus(o, s) \/ AssignStatus(o, s) \/ TakeStatus(o, s)
  \/ \E o, p \in StatusOrs : MoveConstructStatusOr(o, p) \/ MoveAssignStatusOr(o, p)

Spec == Init /\ [][Next]_vars

-----------------------------------------------------------------------------

TypeInv ==
  /\ alive \subseteq Holders
  /\ error \in [Holders -> Errors \cup {nullptr}]
  /\ checked \in [Holders -> BOOLEAN]
  /\ hasError \in [StatusOrs -> BOOLEAN]
  /\ wasChecked \in [StatusOrs -> BOOLEAN]
  /\ made \subseteq Errors
  /\ noticed \subseteq made

Held == {error[h] : h \in Holders} \ {nullptr}

\* "It's impossible to ignore an error": one that is destroyed, by whatever
\* destructor or assignment, was noticed by its last holder, "even if they're
\* moved-assigned".
NoErrorGoesUnnoticed == [][Held \ Held' \subseteq noticed]_vars

\* The assertion of the Status inside a StatusOr never fails where the one of
\* the StatusOr holds: the two flags agree, in one direction at least.
FlagsAgree ==
  \A o \in StatusOrs : wasChecked[o] /\ hasError[o] => checked[o]

\* A StatusOr that says it has an error does have one, unless it was moved away,
\* and then nobody has to check it any more.
ErrorIsThere ==
  \A o \in StatusOrs : hasError[o] => error[o] # nullptr \/ wasChecked[o]
=============================================================================
