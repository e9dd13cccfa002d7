------------------------------ MODULE ErrorInfo ------------------------------
(***************************************************************************)
(* rst::ErrorInfo and rst::dyn_cast() for the classes of errors in         *)
(* rst/files.  A class is known by the address of its static member id_;   *)
(* an error is represented by its dynamic class.                           *)
(***************************************************************************)

Root == "ErrorInfoBase"

\* ErrorInfo<T, Parent>: what each other class derives from.
Parent == [FileError |-> Root, FileOpenError |-> "FileError"]

Classes == {Root} \cup DOMAIN Parent

\* Mutant: the members are const and alike, so that one address may do for all.
SharedClassID(T) == "id_"

\* &T::id_
GetClassID(T) == <<T, "id_">>

\* Each class asks the one it derives from.
IsA(error, class_id) ==
  LET isA[c \in Classes] == \/ class_id = GetClassID(c)
                            \/ c # Root /\ isA[Parent[c]]
  IN  isA[error]

\* The error as a T, or nothing where the code has nullptr.
dyn_cast(T, error) == IF IsA(error, GetClassID(T)) THEN {error} ELSE {}
=============================================================================
