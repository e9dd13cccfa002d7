------------------------- MODULE ImportantFileProofs -------------------------
(***************************************************************************)
(* Proofs about ImportantFile: the important file is never seen in part,   *)
(* and the calls implement AtomicFile.                                     *)
(***************************************************************************)
EXTENDS ImportantFile, TLAPS

\* A writer at work has its data and its temporary file.
WritersState ==
  \A w \in Writers : pc[w] # "idle" => data[w] \in Data /\ temp[w] \in Temps

\* What a reader reads was whole when it was opened; the end of the file is met
\* where it is, and a successful call has returned all of it.
ReadersState ==
  \A r \in Readers :
    /\ at[r] # "idle" =>
         /\ file[r] \in Contents
         /\ Whole(file[r])
         /\ got[r] <= file[r].length
         /\ eof[r] => got[r] = file[r].length
    /\ at[r] = "reading" => chunk[r] > 0
    /\ at[r] # "reading" => got[r] = 0 /\ ~eof[r]

IInv ==
  /\ TypeInv
  /\ DestinationIsWhole
  /\ TempsAreOwned
  /\ WritersState
  /\ ReadersState

-----------------------------------------------------------------------------

\* What a content is.
LEMMA ContentsAre ==
  /\ \A c \in Contents : /\ c.data \in Data
                         /\ c.length \in 0..Size[c.data]
                         /\ c = [data |-> c.data, length |-> c.length]
  /\ \A d \in Data : \A n \in 0..Size[d] : [data |-> d, length |-> n] \in Contents
BY DEF Contents

\* An error is not a content.
LEMMA ErrorsAreNot == \A e : Error(e) \notin Contents
<1> SUFFICES ASSUME NEW e, Error(e) \in Contents PROVE FALSE
  OBVIOUS
<1>1. DOMAIN Error(e) = {"error"}
  BY DEF Error
<1>2. DOMAIN Error(e) = {"data", "length"}
  <2>1. Error(e) = [data |-> Error(e).data, length |-> Error(e).length]
    BY ContentsAre
  <2>2. \A d, n : DOMAIN [data |-> d, length |-> n] = {"data", "length"}
    OBVIOUS
  <2> QED BY <2>1, <2>2
<1> QED BY <1>1, <1>2

\* The invariant holds at the start.
LEMMA InitIInv == Init => IInv
BY FileAssumption
   DEF Init, NoWrite, None, IInv, TypeInv, DestinationIsWhole, TempsAreOwned,
       WritersState, ReadersState, Names

-----------------------------------------------------------------------------
(* Readers                                                                 *)

\* A call that has returned leaves nothing open.
LEMMA ReaderReturnsIInv ==
  ASSUME IInv, NEW r \in Readers, NEW result, ReaderReturns(r, result),
         result \in [error : {"none"} \cup Errors] \cup Contents
  PROVE  IInv'
<1> USE DEF ReaderReturns
<1>1. TypeInv'
  BY DEF writerVars, IInv, TypeInv
<1>2. DestinationIsWhole' /\ TempsAreOwned' /\ WritersState'
  BY DEF writerVars, IInv, DestinationIsWhole, TempsAreOwned, WritersState
<1>3. ReadersState'
  BY DEF IInv, TypeInv, ReadersState
<1> QED BY <1>1, <1>2, <1>3 DEF IInv

\* Every step of a reader keeps the invariant.
LEMMA ReaderIInv ==
  ASSUME IInv, NEW r \in Readers, ReaderStep(r)
  PROVE  IInv'
<1>1. CASE OpenToRead(r)
  <2> USE <1>1 DEF OpenToRead
  <2>1. TypeInv'
    BY DEF writerVars, None, IInv, TypeInv, Names
  <2>2. DestinationIsWhole' /\ TempsAreOwned' /\ WritersState'
    BY DEF writerVars, IInv, DestinationIsWhole, TempsAreOwned, WritersState
  <2>3. files[Dest] \in Contents /\ Whole(files[Dest])
    BY DEF IInv, TypeInv, DestinationIsWhole, Names
  <2>4. ReadersState'
    BY <2>3, ContentsAre DEF IInv, TypeInv, ReadersState
  <2> QED BY <2>1, <2>2, <2>4 DEF IInv
<1>2. CASE OpenToReadFails(r) \/ ReadFails(r)
  <2>1. \E e \in Errors : ReaderReturns(r, Error(e))
    BY <1>2 DEF OpenToReadFails, ReadFails, Errors
  <2>2. \A e \in Errors : Error(e) \in [error : {"none"} \cup Errors]
    BY DEF Error
  <2> QED BY <2>1, <2>2, ReaderReturnsIInv
<1>3. CASE TakeSize(r)
  <2> USE <1>3 DEF TakeSize
  <2>1. chunk' \in [Readers -> Nat] /\ chunk'[r] > 0
    <3>1. PICK size \in {ChunkSize} \cup
                 (IF files[Dest] = NoFile THEN {} ELSE {files[Dest].length}) :
            chunk' = [chunk EXCEPT ![r] = IF size = 0 THEN ChunkSize + 1 ELSE size + 1]
      OBVIOUS
    <3>2. size \in Nat
      BY FileAssumption, ContentsAre DEF IInv, TypeInv, Names
    <3> QED BY <3>1, <3>2, FileAssumption DEF IInv, TypeInv
  <2>2. TypeInv'
    BY <2>1 DEF writerVars, IInv, TypeInv
  <2>3. DestinationIsWhole' /\ TempsAreOwned' /\ WritersState'
    BY DEF writerVars, IInv, DestinationIsWhole, TempsAreOwned, WritersState
  <2>4. ReadersState'
    <3>1. \A q \in Readers : q # r => chunk'[q] = chunk[q] /\ at'[q] = at[q]
      BY DEF IInv, TypeInv
    <3> QED BY <2>1, <3>1 DEF IInv, TypeInv, ReadersState
  <2> QED BY <2>2, <2>3, <2>4 DEF IInv
<1>4. CASE ReadPass(r)
  <2> USE <1>4 DEF ReadPass
  <2>1. /\ file[r].length \in Nat /\ got[r] \in Nat /\ chunk[r] \in Nat
        /\ got[r] <= file[r].length
    BY FileAssumption, ContentsAre DEF IInv, TypeInv, ReadersState
  <2>2. /\ Pass(r) \in Nat
        /\ got[r] + Pass(r) <= file[r].length
        /\ Pass(r) < chunk[r] => got[r] + Pass(r) = file[r].length
    BY <2>1 DEF Pass
  <2>3. TypeInv'
    BY <2>1, <2>2 DEF writerVars, IInv, TypeInv
  <2>4. DestinationIsWhole' /\ TempsAreOwned' /\ WritersState'
    BY DEF writerVars, IInv, DestinationIsWhole, TempsAreOwned, WritersState
  <2>5. ReadersState'
    <3>1. /\ got'[r] = got[r] + Pass(r)
          /\ eof'[r] => Pass(r) < chunk[r]
          /\ \A q \in Readers : q # r => got'[q] = got[q] /\ eof'[q] = eof[q]
      BY DEF IInv, TypeInv
    <3> QED BY <2>2, <3>1 DEF IInv, ReadersState
  <2> QED BY <2>3, <2>4, <2>5 DEF IInv
<1>5. CASE ReadEnds(r)
  <2>1. [file[r] EXCEPT !.length = got[r]] \in Contents
    BY <1>5, ContentsAre DEF ReadEnds, IInv, ReadersState
  <2> QED BY <1>5, <2>1, ReaderReturnsIInv DEF ReadEnds
<1> QED BY <1>1, <1>2, <1>3, <1>4, <1>5 DEF ReaderStep

-----------------------------------------------------------------------------
(* Writers                                                                 *)

\* The facts about a writer that is done go away with it.
LEMMA WriterReturnsIInv ==
  ASSUME IInv, NEW w \in Writers, NEW result \in {"ok"} \cup Errors,
         WriterReturns(w, result),
         files' \in [Names -> Contents \cup {NoFile}],
         DestinationIsWhole',
         \A n \in Temps : n # temp[w] \/ pc[w] = "idle" => files'[n] = files[n]
  PROVE  IInv'
<1> USE DEF WriterReturns
<1>1. TypeInv'
  BY DEF readerVars, IInv, TypeInv
<1>2. /\ pc'[w] = "idle"
      /\ \A v \in Writers : v # w =>
            pc'[v] = pc[v] /\ data'[v] = data[v] /\ temp'[v] = temp[v]
  BY DEF IInv, TypeInv
<1>3. WritersState'
  BY <1>2 DEF IInv, WritersState
<1>4. \A v \in Writers : v # w /\ pc[v] # "idle" => files'[temp[v]] = files[temp[v]]
  BY DEF IInv, TempsAreOwned, WritersState
<1>5. TempsAreOwned'
  BY <1>2, <1>4 DEF IInv, TempsAreOwned
<1>6. ReadersState'
  BY DEF readerVars, IInv, ReadersState
<1> QED BY <1>1, <1>3, <1>5, <1>6 DEF IInv

\* Every step of a writer keeps the invariant.
LEMMA WriterIInv ==
  ASSUME IInv, NEW w \in Writers, WriterStep(w)
  PROVE  IInv'
<1>1. pc[w] # "idle" => temp[w] \in Temps /\ data[w] \in Data /\ temp[w] # Dest
  BY FileAssumption DEF IInv, WritersState
<1>2. CASE Open(w)
  <2>1. PICK d \in Data, t \in Temps :
          /\ files[t] = NoFile
          /\ files' = [files EXCEPT ![t] = [data |-> d, length |-> 0]]
          /\ data' = [data EXCEPT ![w] = d]
          /\ temp' = [temp EXCEPT ![w] = t]
    BY <1>2 DEF Open
  <2>2. [data |-> d, length |-> 0] \in Contents
    BY FileAssumption, ContentsAre
  <2>3. TypeInv'
    BY <1>2, <2>1, <2>2 DEF Open, readerVars, IInv, TypeInv
  <2>4. DestinationIsWhole'
    BY <2>1, FileAssumption DEF IInv, TypeInv, DestinationIsWhole, Names
  <2>5. /\ pc'[w] = "opened" /\ data'[w] = d /\ temp'[w] = t
        /\ \A v \in Writers : v # w =>
              pc'[v] = pc[v] /\ data'[v] = data[v] /\ temp'[v] = temp[v]
    BY <1>2, <2>1 DEF Open, IInv, TypeInv
  <2>6. WritersState'
    BY <2>5 DEF IInv, WritersState
  <2>7. \A v \in Writers : pc[v] # "idle" => temp[v] # t
    BY <2>1 DEF IInv, TempsAreOwned
  <2>8. /\ files'[t] = [data |-> d, length |-> 0] /\ files'[t] # NoFile
        /\ \A n \in Names : n # t => files'[n] = files[n]
    BY <2>1, <2>2, FileAssumption DEF IInv, TypeInv, Names
  <2>9. TempsAreOwned'
    <3> SUFFICES ASSUME NEW v \in Writers, pc'[v] # "idle"
                 PROVE  /\ files'[temp'[v]] # NoFile
                        /\ files'[temp'[v]].data = data'[v]
                        /\ pc'[v] \in {"closed", "stuck"} => Whole(files'[temp'[v]])
                        /\ \A u \in Writers \ {v} : pc'[u] # "idle" => temp'[u] # temp'[v]
      BY DEF TempsAreOwned, Whole
    <3>1. CASE v = w
      BY <2>5, <2>7, <2>8, <3>1
    <3>2. CASE v # w
      BY <2>5, <2>7, <2>8, <3>2 DEF IInv, TempsAreOwned, WritersState, Names
    <3> QED BY <3>1, <3>2
  <2>10. ReadersState'
    BY <1>2 DEF Open, readerVars, IInv, ReadersState
  <2> QED BY <2>3, <2>4, <2>6, <2>9, <2>10 DEF IInv
<1>3. CASE OpenFails(w)
  BY <1>3, WriterReturnsIInv DEF OpenFails, Errors, IInv, TypeInv, DestinationIsWhole, Whole
\* What reaches the disk is part of what the writer writes.
<1>4. ASSUME NEW n \in 0..Size[data[w]], OnDisk(w, n), pc[w] # "idle"
      PROVE  /\ files' \in [Names -> Contents \cup {NoFile}]
             /\ files'[Dest] = files[Dest]
             /\ files'[temp[w]].data = data[w] /\ files'[temp[w]].length = n
             /\ files'[temp[w]] # NoFile
             /\ \A m \in Names : m # temp[w] => files'[m] = files[m]
  <2>1. [data |-> data[w], length |-> n] \in Contents
    BY <1>1, <1>4, ContentsAre
  <2>2. files'[temp[w]] = [data |-> data[w], length |-> n]
    BY <1>1, <1>4, FileAssumption DEF OnDisk, IInv, TypeInv, Names
  <2> QED BY <1>1, <1>4, <2>1, <2>2, FileAssumption DEF OnDisk, IInv, TypeInv, Names
<1>5. CASE WriteFails(w) \/ CloseFails(w)
  <2>1. PICK n \in 0..Size[data[w]] : OnDisk(w, n)
    BY <1>5 DEF WriteFails, CloseFails
  <2>2. pc[w] # "idle" /\ WriterReturns(w, "FileError")
    BY <1>5 DEF WriteFails, CloseFails
  <2>3. DestinationIsWhole'
    BY <1>4, <2>1, <2>2 DEF IInv, DestinationIsWhole, Whole
  <2> QED BY <1>4, <2>1, <2>2, <2>3, WriterReturnsIInv DEF Errors, Names
\* A writer that goes on, with the same arguments.
<1>6. ASSUME NEW next \in {"filled", "closed", "stuck"}, pc[w] # "idle",
             pc' = [pc EXCEPT ![w] = next],
             UNCHANGED <<data, temp, written, readerVars>>,
             files' \in [Names -> Contents \cup {NoFile}],
             files'[Dest] = files[Dest],
             \A m \in Names : m # temp[w] => files'[m] = files[m],
             files'[temp[w]] # NoFile, files'[temp[w]].data = data[w],
             next \in {"closed", "stuck"} => Whole(files'[temp[w]])
      PROVE  IInv'
  <2>1. TypeInv'
    BY <1>6 DEF readerVars, IInv, TypeInv
  <2>2. DestinationIsWhole' /\ ReadersState'
    BY <1>6 DEF readerVars, IInv, DestinationIsWhole, ReadersState, Whole
  <2>3. pc'[w] = next /\ \A v \in Writers : v # w => pc'[v] = pc[v]
    BY <1>6 DEF IInv, TypeInv
  <2>4. WritersState'
    BY <1>6, <2>3 DEF IInv, WritersState
  <2>5. TempsAreOwned'
    <3> SUFFICES ASSUME NEW v \in Writers, pc'[v] # "idle"
                 PROVE  /\ files'[temp[v]] # NoFile
                        /\ files'[temp[v]].data = data[v]
                        /\ pc'[v] \in {"closed", "stuck"} => Whole(files'[temp[v]])
                        /\ \A u \in Writers \ {v} : pc'[u] # "idle" => temp[u] # temp[v]
      BY <1>6 DEF TempsAreOwned, Whole
    <3>1. pc[v] # "idle" /\ \A u \in Writers : pc'[u] # "idle" => pc[u] # "idle"
      BY <1>6, <2>3
    <3>2. CASE v = w
      BY <1>6, <2>3, <3>1, <3>2 DEF IInv, TempsAreOwned
    <3>3. CASE v # w
      <4>1. temp[v] # temp[w] /\ temp[v] \in Names
        BY <1>6, <3>1, <3>3 DEF IInv, TempsAreOwned, WritersState, Names
      <4>2. files'[temp[v]] = files[temp[v]] /\ pc'[v] = pc[v]
        BY <1>6, <2>3, <3>3, <4>1
      <4> QED BY <3>1, <4>2 DEF IInv, TempsAreOwned
    <3> QED BY <3>2, <3>3
  <2> QED BY <2>1, <2>2, <2>4, <2>5 DEF IInv
<1>7. CASE Write(w)
  <2>1. PICK n \in 0..Size[data[w]] : OnDisk(w, n)
    BY <1>7 DEF Write
  <2>2. pc[w] # "idle" /\ pc' = [pc EXCEPT ![w] = "filled"]
        /\ UNCHANGED <<data, temp, written, readerVars>>
    BY <1>7 DEF Write
  <2>3. /\ files' \in [Names -> Contents \cup {NoFile}]
        /\ files'[Dest] = files[Dest]
        /\ files'[temp[w]].data = data[w] /\ files'[temp[w]] # NoFile
        /\ \A m \in Names : m # temp[w] => files'[m] = files[m]
    BY <1>4, <2>1, <2>2
  <2> QED BY <1>6, <2>2, <2>3
<1>8. CASE Close(w)
  <2>1. pc[w] # "idle" /\ pc' = [pc EXCEPT ![w] = "closed"]
        /\ UNCHANGED <<data, temp, written, readerVars>> /\ OnDisk(w, Size[data[w]])
    BY <1>8 DEF Close
  <2>2. Size[data[w]] \in 0..Size[data[w]]
    BY <1>1, <2>1, FileAssumption
  <2>3. /\ files' \in [Names -> Contents \cup {NoFile}]
        /\ files'[Dest] = files[Dest]
        /\ files'[temp[w]].data = data[w] /\ files'[temp[w]] # NoFile
        /\ files'[temp[w]].length = Size[data[w]]
        /\ \A m \in Names : m # temp[w] => files'[m] = files[m]
    BY <1>4, <2>1, <2>2
  <2>4. Whole(files'[temp[w]])
    BY <2>3 DEF Whole
  <2> QED BY <1>6, <2>1, <2>3, <2>4
<1>9. CASE RenameFails(w)
  <2>1. pc[w] = "closed" /\ pc' = [pc EXCEPT ![w] = "stuck"] /\ files' = files
        /\ UNCHANGED <<data, temp, written, readerVars>>
    BY <1>9 DEF RenameFails
  <2>2. files[temp[w]] # NoFile /\ files[temp[w]].data = data[w] /\ Whole(files[temp[w]])
    BY <2>1 DEF IInv, TempsAreOwned
  <2>3. files' \in [Names -> Contents \cup {NoFile}] /\ Whole(files'[temp[w]])
    BY <2>1, <2>2 DEF IInv, TypeInv, Whole
  <2> QED BY <1>6, <2>1, <2>2, <2>3
<1>10. CASE Rename(w)
  <2>1. /\ pc[w] = "closed" /\ WriterReturns(w, "ok")
        /\ files' = [files EXCEPT ![Dest] = files[temp[w]], ![temp[w]] = NoFile]
    BY <1>10 DEF Rename
  <2>2. Whole(files[temp[w]]) /\ files[temp[w]] \in Contents \cup {NoFile}
    BY <1>1, <2>1 DEF IInv, TypeInv, TempsAreOwned, Names
  <2>3. /\ files' \in [Names -> Contents \cup {NoFile}]
        /\ files'[Dest] = files[temp[w]]
        /\ \A n \in Temps : n # temp[w] => files'[n] = files[n]
    BY <1>1, <2>1, <2>2, FileAssumption DEF IInv, TypeInv, Names
  <2>4. DestinationIsWhole'
    BY <2>2, <2>3 DEF DestinationIsWhole, Whole
  <2> QED BY <2>1, <2>3, <2>4, WriterReturnsIInv
<1>11. CASE Remove(w)
  <2>1. pc[w] = "stuck" /\ WriterReturns(w, "FileError")
    BY <1>11 DEF Remove
  <2>2. /\ files' \in [Names -> Contents \cup {NoFile}]
        /\ files'[Dest] = files[Dest]
        /\ \A n \in Temps : n # temp[w] => files'[n] = files[n]
    BY <1>1, <1>11, FileAssumption DEF Remove, IInv, TypeInv, Names
  <2>3. DestinationIsWhole'
    BY <2>2 DEF IInv, DestinationIsWhole, Whole
  <2> QED BY <2>1, <2>2, <2>3, WriterReturnsIInv DEF Errors
<1> QED BY <1>2, <1>3, <1>5, <1>7, <1>8, <1>9, <1>10, <1>11 DEF WriterStep

-----------------------------------------------------------------------------

\* A crash keeps the invariant.
LEMMA CrashIInv == ASSUME IInv, Crash PROVE IInv'
<1> USE DEF Crash
<1>1. TypeInv'
  BY DEF NoWrite, None, IInv, TypeInv
<1>2. DestinationIsWhole'
  BY DEF IInv, DestinationIsWhole
<1>3. TempsAreOwned' /\ WritersState'
  BY DEF TempsAreOwned, WritersState
<1>4. ReadersState'
  BY DEF ReadersState
<1> QED BY <1>1, <1>2, <1>3, <1>4 DEF IInv

\* Every step keeps the invariant.
LEMMA NextIInv == IInv /\ [Next]_vars => IInv'
<1> SUFFICES ASSUME IInv, [Next]_vars PROVE IInv'
  OBVIOUS
<1>1. CASE UNCHANGED vars
  BY <1>1 DEF vars, writerVars, readerVars, IInv, TypeInv, DestinationIsWhole,
              TempsAreOwned, WritersState, ReadersState
<1>2. CASE Next
  BY <1>2, WriterIInv, ReaderIInv, CrashIInv DEF Next
<1> QED BY <1>1, <1>2

\* The invariant holds always.
LEMMA Invariant == Spec => []IInv
BY InitIInv, NextIInv, PTL DEF Spec

\* The variables keep their types.
THEOREM TypeCorrect == Spec => []TypeInv
<1>1. IInv => TypeInv
  BY DEF IInv
<1> QED BY <1>1, Invariant, PTL

\* Whatever fails, crashes or overlaps, the important file is absent or whole.
THEOREM NeverTorn == Spec => []DestinationIsWhole
<1>1. IInv => DestinationIsWhole
  BY DEF IInv
<1> QED BY <1>1, Invariant, PTL

\* Calls in progress never share a temporary file, whatever names are made up.
THEOREM TempsStayOwned == Spec => []TempsAreOwned
<1>1. IInv => TempsAreOwned
  BY DEF IInv
<1> QED BY <1>1, Invariant, PTL

-----------------------------------------------------------------------------
(* What is left behind                                                     *)

\* A FileError is a FileError, and no FileOpenError, since the addresses of the
\* members id_ differ.
LEMMA FileErrorIs ==
  /\ dyn_cast("FileError", "FileError") # {}
  /\ dyn_cast("FileOpenError", "FileError") = {}
<1>1. ASSUME NEW id
      PROVE  IsA("FileError", id) <=> id \in {GetClassID("FileError"), GetClassID(Root)}
  <2> DEFINE P(f) == f = [c \in Classes |-> \/ id = GetClassID(c)
                                            \/ c # Root /\ f[Parent[c]]]
             g == [c \in Classes |->
                     \/ id = GetClassID(c)
                     \/ c # Root /\ id = GetClassID(Root)
                     \/ c = "FileOpenError" /\ id = GetClassID("FileError")]
  <2>1. /\ Classes = {Root, "FileError", "FileOpenError"}
        /\ Parent["FileError"] = Root /\ Parent["FileOpenError"] = "FileError"
        /\ Root # "FileError" /\ Root # "FileOpenError"
    BY DEF Classes, Parent, Root
  <2>2. P(g)
    BY <2>1
  <2> HIDE DEF P
  <2>3. P(CHOOSE f : P(f))
    BY <2>2
  <2> DEFINE h == CHOOSE f : P(f)
  <2>4. h = [c \in Classes |-> \/ id = GetClassID(c)
                               \/ c # Root /\ h[Parent[c]]]
    BY <2>3 DEF P
  <2>5. IsA("FileError", id) = h["FileError"]
    BY DEF IsA, P
  <2> HIDE DEF h
  <2>6. h["FileError"] <=> id = GetClassID("FileError") \/ h[Root]
    BY <2>1, <2>4
  <2>7. h[Root] <=> id = GetClassID(Root)
    BY <2>1, <2>4
  <2> QED BY <2>5, <2>6, <2>7
<1>2. GetClassID("FileOpenError") \notin {GetClassID("FileError"), GetClassID(Root)}
  BY DEF GetClassID, Root
<1> QED BY <1>1, <1>2 DEF dyn_cast

\* A file that the step of a writer does not touch, and that is not its temporary
\* file, is not abandoned by it.
LEMMA KeptByOthers ==
  ASSUME NEW w \in Writers, NEW t \in Temps, Abandoned(t)',
         \A v \in Writers : v # w => pc'[v] = pc[v] /\ temp'[v] = temp[v],
         files'[t] = files[t],
         pc[w] = "idle" \/ temp[w] # t
  PROVE  Abandoned(t)
BY DEF Abandoned

\* A call leaves nothing behind unless it fails after it has opened the file.
LEMMA WriterLeaves ==
  ASSUME IInv, NEW w \in Writers, WriterStep(w),
         NEW t \in Temps, Abandoned(t)', ~Abandoned(t)
  PROVE  /\ pc[w] # "idle" /\ temp[w] = t
         /\ FailedAs(w, "FileError")' /\ ~FailedAs(w, "FileOpenError")'
<1>1. \A v \in Writers : v # w => pc'[v] = pc[v] /\ temp'[v] = temp[v]
  BY DEF WriterStep, Open, OpenFails, Write, WriteFails, Close, CloseFails, Rename,
         RenameFails, Remove, WriterReturns, IInv, TypeInv
<1>2. t # Dest /\ t \in Names
  BY FileAssumption DEF Names
<1>3. files'[t] # files[t] \/ (pc[w] # "idle" /\ temp[w] = t)
  BY <1>1, KeptByOthers
<1>4. pc'[w] = "idle" \/ temp'[w] # t
  BY DEF Abandoned
<1>5. CASE Open(w)
  <2>1. /\ pc'[w] = "opened" /\ pc[w] = "idle"
        /\ \E d \in Data, u \in Temps :
              /\ files' = [files EXCEPT ![u] = [data |-> d, length |-> 0]]
              /\ temp'[w] = u
    BY <1>5 DEF Open, IInv, TypeInv
  <2>2. files'[t] = files[t]
    BY <1>2, <1>4, <2>1 DEF IInv, TypeInv
  <2> QED BY <1>3, <2>1, <2>2
<1>6. CASE OpenFails(w)
  BY <1>3, <1>6 DEF OpenFails
<1>7. CASE Write(w) \/ Close(w) \/ RenameFails(w)
  <2>1. pc[w] # "idle" /\ pc'[w] # "idle" /\ temp'[w] = temp[w]
    BY <1>7 DEF Write, Close, RenameFails, IInv, TypeInv
  <2>2. \A n \in Names : n # temp[w] => files'[n] = files[n]
    BY <1>7 DEF Write, Close, RenameFails, OnDisk, IInv, TypeInv
  <2> QED BY <1>2, <1>3, <1>4, <2>1, <2>2
<1>8. CASE Rename(w)
  <2>1. temp[w] \in Temps /\ files' = [files EXCEPT ![Dest] = files[temp[w]], ![temp[w]] = NoFile]
    BY <1>8 DEF Rename, IInv, WritersState
  <2>2. CASE t = temp[w]
    <3>1. files'[t] = NoFile
      BY <1>2, <2>1, <2>2 DEF IInv, TypeInv
    <3> QED BY <3>1 DEF Abandoned
  <2> QED BY <1>2, <1>3, <2>1, <2>2 DEF IInv, TypeInv
<1>9. CASE WriteFails(w) \/ CloseFails(w) \/ Remove(w)
  <2>1. pc[w] # "idle" /\ written'[w] = "FileError"
    BY <1>9 DEF WriteFails, CloseFails, Remove, WriterReturns, IInv, TypeInv
  <2>2. \A n \in Names : n # temp[w] => files'[n] = files[n]
    BY <1>9 DEF WriteFails, CloseFails, Remove, OnDisk, IInv, TypeInv
  <2>3. temp[w] = t
    BY <1>2, <1>3, <2>2
  <2> QED BY <2>1, <2>3, FileErrorIs DEF FailedAs, Errors
<1> QED BY <1>5, <1>6, <1>7, <1>8, <1>9 DEF WriterStep

\* A temporary file stays behind only after a crash or a call that reports a
\* FileError which is no FileOpenError.
THEOREM OnlyFailuresLeave == Spec => OnlyFailuresLeaveFiles
<1> DEFINE Step == \A t \in Temps : Abandoned(t)' /\ ~Abandoned(t) =>
                     \/ Crash
                     \/ \E w \in Writers : /\ pc[w] # "idle" /\ temp[w] = t
                                           /\ FailedAs(w, "FileError")'
                                           /\ ~FailedAs(w, "FileOpenError")'
<1>1. ASSUME IInv, [Next]_vars PROVE [Step]_vars
  <2> SUFFICES ASSUME Next, NEW t \in Temps, Abandoned(t)', ~Abandoned(t), ~Crash
               PROVE  \E w \in Writers : /\ pc[w] # "idle" /\ temp[w] = t
                                         /\ FailedAs(w, "FileError")'
                                         /\ ~FailedAs(w, "FileOpenError")'
    BY <1>1
  <2>1. ASSUME NEW r \in Readers, ReaderStep(r) PROVE FALSE
    <3>1. UNCHANGED <<files, pc, temp>>
      BY <2>1 DEF ReaderStep, OpenToRead, OpenToReadFails, TakeSize, ReadPass, ReadEnds,
                  ReadFails, ReaderReturns, writerVars
    <3> QED BY <3>1 DEF Abandoned
  <2> QED BY <1>1, <2>1, WriterLeaves DEF Next
<1> QED BY <1>1, Invariant, PTL DEF Spec, OnlyFailuresLeaveFiles

-----------------------------------------------------------------------------
(* The refinement                                                          *)

\* What the mapping gives for a whole content and for none.
LEMMA AsDataOf ==
  /\ AsData(NoFile) = NoFile
  /\ \A c \in Contents : Whole(c) => AsData(c) = c.data
BY FileAssumption DEF AsData

\* The calls of the writers as AtomicFile sees them, as one function.
AsWrites == [w \in Writers |-> AsWrite(w)]

AsReads == [r \in Readers |-> AsRead(r)]

\* A writer at work is at work, one that is not is at rest.
LEMMA WriteIs ==
  ASSUME TypeInv, NEW w \in Writers
  PROVE  /\ pc[w] # "idle" => AsWrite(w) = [at |-> "begun", value |-> data[w]]
         /\ pc[w] = "idle" => AsWrite(w).at \in {"rest", "ok", "error"}
         /\ pc[w] = "idle" /\ written[w] = "none" =>
              AsWrite(w) = [at |-> "rest", value |-> NoFile]
         /\ pc[w] = "idle" /\ written[w] = "ok" =>
              AsWrite(w) = [at |-> "ok", value |-> NoFile]
         /\ pc[w] = "idle" /\ written[w] \in Errors =>
              AsWrite(w) = [at |-> "error", value |-> NoFile]
BY DEF TypeInv, Errors, AsWrite

\* The same for a reader, whose result is an error or a content.
LEMMA ReadIs ==
  ASSUME TypeInv, NEW r \in Readers
  PROVE  /\ at[r] # "idle" => AsRead(r) = [at |-> "begun", value |-> AsData(file[r])]
         /\ at[r] = "idle" => AsRead(r).at \in {"rest", "ok", "error"}
         /\ at[r] = "idle" /\ outcome[r] = None =>
              AsRead(r) = [at |-> "rest", value |-> NoFile]
         /\ at[r] = "idle" /\ outcome[r] \in Contents =>
              AsRead(r) = [at |-> "ok", value |-> AsData(outcome[r])]
         /\ \A e \in Errors : at[r] = "idle" /\ outcome[r] = Error(e) =>
              AsRead(r) = [at |-> "error", value |-> NoFile]
<1>1. None \notin Contents
  BY ErrorsAreNot DEF None, Error
<1>2. \A e \in Errors : Error(e) \notin Contents /\ Error(e) # None
  BY ErrorsAreNot DEF None, Error, Errors
<1> QED BY <1>1, <1>2 DEF AsRead

\* Nothing is there and everybody is at rest, in both.
LEMMA InitAtomic == Init => Atomic!Init
<1> SUFFICES ASSUME Init PROVE Atomic!Init
  OBVIOUS
<1>1. AsData(files[Dest]) = NoFile
  BY AsDataOf DEF Init, Names
<1>2. [w \in Writers |-> AsWrite(w)] = [w \in Writers |-> Atomic!Rest(NoFile)]
  BY DEF Init, AsWrite, Atomic!Rest
<1>3. [r \in Readers |-> AsRead(r)] = [r \in Readers |-> Atomic!Rest(NoFile)]
  <2>1. \A r \in Readers : AsRead(r) = Atomic!Rest(NoFile)
    BY InitIInv, ReadIs DEF Init, IInv, Atomic!Rest
  <2> QED BY <2>1
<1> QED BY <1>1, <1>2, <1>3 DEF Atomic!Init

\* A reader's step changes its own call, as the abstract reader's step does.
LEMMA ReaderSteps ==
  ASSUME IInv, IInv', NEW r \in Readers, ReaderStep(r)
  PROVE  Atomic!Look(r) \/ Atomic!EndRead(r) \/ Atomic!FailRead(r)
         \/ UNCHANGED Atomic!vars
<1> USE DEF IInv
<1>1. /\ UNCHANGED <<files, writerVars>>
      /\ \A q \in Readers : q # r =>
            at'[q] = at[q] /\ file'[q] = file[q] /\ outcome'[q] = outcome[q]
  BY DEF ReaderStep, OpenToRead, OpenToReadFails, TakeSize, ReadPass, ReadEnds,
         ReadFails, ReaderReturns, TypeInv
<1>2. AsData(files[Dest])' = AsData(files[Dest]) /\ AsWrites' = AsWrites
  BY <1>1 DEF AsData, Whole, AsWrites, AsWrite, writerVars
<1>3. \A q \in Readers : q # r => AsRead(q)' = AsRead(q)
  BY <1>1 DEF AsRead, AsData, Whole
<1>4. AsReads' = [AsReads EXCEPT ![r] = AsRead(r)']
  BY <1>3 DEF AsReads
<1>5. CASE OpenToRead(r)
  <2>1. AsRead(r).at \in {"rest", "ok", "error"}
    BY <1>5, ReadIs DEF OpenToRead
  <2>2. at'[r] = "sizing" /\ file'[r] = files[Dest]
    BY <1>5 DEF OpenToRead, TypeInv
  <2>3. AsRead(r)' = [at |-> "begun", value |-> AsData(files[Dest])]
    BY <2>2 DEF AsRead, AsData, Whole
  <2>4. AsData(files[Dest]) # NoFile
    BY <1>5, AsDataOf, ContentsAre, FileAssumption
       DEF OpenToRead, TypeInv, DestinationIsWhole, Names
  <2>5. Atomic!Look(r)
    BY <1>2, <1>4, <2>1, <2>3, <2>4 DEF Atomic!Look, Atomic!AtRest, AsReads, AsWrites
  <2> QED BY <2>5
<1>6. ASSUME NEW e \in Errors, ReaderReturns(r, Error(e))
      PROVE  Atomic!FailRead(r)
  <2>1. at'[r] = "idle" /\ outcome'[r] = Error(e)
    BY <1>6 DEF ReaderReturns, TypeInv
  <2>2. AsRead(r)' = [at |-> "error", value |-> NoFile]
    <3>1. outcome'[r] \notin Contents /\ outcome'[r] # None
      BY <2>1, ErrorsAreNot DEF Error, None, Errors
    <3> QED BY <2>1, <3>1 DEF AsRead
  <2> QED BY <1>2, <1>4, <2>2 DEF Atomic!FailRead, AsReads, AsWrites
<1>7. CASE OpenToReadFails(r) \/ ReadFails(r)
  <2>1. PICK e \in Errors : ReaderReturns(r, Error(e))
    BY <1>7 DEF OpenToReadFails, ReadFails, Errors
  <2> QED BY <1>6, <2>1
<1>8. CASE TakeSize(r) \/ ReadPass(r)
  <2>1. at[r] # "idle" /\ at'[r] # "idle" /\ file'[r] = file[r]
    BY <1>8 DEF TakeSize, ReadPass, TypeInv
  <2>2. AsRead(r)' = AsRead(r)
    BY <2>1 DEF AsRead, AsData, Whole
  <2>3. AsReads' = AsReads
    BY <1>3, <2>2 DEF AsReads
  <2> QED BY <1>2, <2>3 DEF Atomic!vars, AsReads, AsWrites
<1>9. CASE ReadEnds(r)
  <2>1. file[r] \in Contents /\ Whole(file[r]) /\ got[r] = file[r].length
    BY <1>9 DEF ReadEnds, ReadersState
  <2>2. [file[r] EXCEPT !.length = got[r]] = file[r]
    BY <2>1, ContentsAre
  <2>3. at'[r] = "idle" /\ outcome'[r] = file[r]
    BY <1>9, <2>2 DEF ReadEnds, ReaderReturns, TypeInv
  <2>4. file[r] # None
    BY <2>1, ErrorsAreNot DEF Error, None
  <2>5. AsRead(r)' = [at |-> "ok", value |-> AsData(file[r])]
    BY <2>1, <2>3, <2>4 DEF AsRead, AsData, Whole
  <2>6. AsRead(r) = [at |-> "begun", value |-> AsData(file[r])]
    BY <1>9, ReadIs DEF ReadEnds
  <2>7. AsRead(r)' = [AsReads[r] EXCEPT !.at = "ok"] /\ AsReads[r].at = "begun"
    BY <2>5, <2>6 DEF AsReads
  <2>8. AsReads' = [AsReads EXCEPT ![r].at = "ok"]
    BY <1>4, <2>7 DEF AsReads
  <2>9. Atomic!EndRead(r)
    BY <1>2, <2>7, <2>8 DEF Atomic!EndRead, AsReads, AsWrites
  <2> QED BY <2>9
<1> QED BY <1>5, <1>7, <1>8, <1>9 DEF ReaderStep

\* A writer's step changes its own call, as the abstract writer's step does.
LEMMA WriterSteps ==
  ASSUME IInv, IInv', NEW w \in Writers, WriterStep(w)
  PROVE  Atomic!BeginWrite(w) \/ Atomic!Replace(w) \/ Atomic!FailWrite(w)
         \/ UNCHANGED Atomic!vars
<1> USE DEF IInv
<1>1. UNCHANGED readerVars
  BY DEF WriterStep, Open, OpenFails, Write, WriteFails, Close, CloseFails, Rename,
         RenameFails, Remove, WriterReturns
<1>2. AsReads' = AsReads
  BY <1>1 DEF readerVars, AsReads, AsRead, AsData, Whole
<1>3. \A v \in Writers : v # w =>
        pc'[v] = pc[v] /\ data'[v] = data[v] /\ written'[v] = written[v]
  BY DEF WriterStep, Open, OpenFails, Write, WriteFails, Close, CloseFails, Rename,
         RenameFails, Remove, WriterReturns, TypeInv
<1>4. AsWrites' = [AsWrites EXCEPT ![w] = AsWrite(w)']
  <2>1. \A v \in Writers : v # w => AsWrite(v)' = AsWrite(v)
    BY <1>3 DEF AsWrite
  <2> QED BY <2>1 DEF AsWrites
<1>5. pc[w] # "idle" => temp[w] \in Temps /\ temp[w] # Dest /\ data[w] \in Data
  BY FileAssumption DEF WritersState
<1>6. ~Rename(w) => AsData(files[Dest])' = AsData(files[Dest])
  <2>1. ~Rename(w) => files'[Dest] = files[Dest]
    BY <1>5, FileAssumption
       DEF WriterStep, Open, OpenFails, Write, WriteFails, Close, CloseFails,
           RenameFails, Remove, OnDisk, TypeInv, Names
  <2> QED BY <2>1 DEF AsData, Whole
<1>7. CASE Open(w)
  <2>1. \E d \in Data : AsWrite(w)' = [at |-> "begun", value |-> d]
    BY <1>7 DEF Open, AsWrite, TypeInv
  <2>2. AsWrite(w).at \in {"rest", "ok", "error"}
    BY <1>7, WriteIs DEF Open
  <2>3. Atomic!BeginWrite(w)
    <3>1. ~Rename(w)
      BY <1>7 DEF Open, Rename
    <3> QED BY <1>2, <1>4, <1>6, <2>1, <2>2, <3>1
            DEF Atomic!BeginWrite, Atomic!AtRest, AsReads, AsWrites
  <2> QED BY <2>3
<1>8. CASE OpenFails(w) \/ WriteFails(w) \/ CloseFails(w) \/ Remove(w)
  <2>1. ~Rename(w) /\ \E e \in Errors : WriterReturns(w, e)
    BY <1>8 DEF OpenFails, WriteFails, CloseFails, Remove, Rename, Errors
  <2>2. pc'[w] = "idle" /\ written'[w] \in Errors
    BY <2>1 DEF WriterReturns, TypeInv
  <2>3. AsWrite(w)' = [at |-> "error", value |-> NoFile]
    BY <2>2 DEF AsWrite, Errors
  <2>4. AsWrite(w).at \in {"begun", "rest", "ok", "error"}
    BY WriteIs
  <2>5. Atomic!FailWrite(w)
    BY <1>2, <1>4, <1>6, <2>1, <2>3, <2>4
       DEF Atomic!FailWrite, Atomic!AtRest, AsReads, AsWrites
  <2> QED BY <2>5
<1>9. CASE Write(w) \/ Close(w) \/ RenameFails(w)
  <2>1. ~Rename(w) /\ pc[w] # "idle" /\ pc'[w] # "idle" /\ data' = data
    BY <1>9 DEF Write, Close, RenameFails, Rename, WriterReturns, TypeInv
  <2>2. AsWrite(w)' = AsWrite(w)
    BY <2>1 DEF AsWrite
  <2>3. AsWrites' = AsWrites
    BY <1>4, <2>2 DEF AsWrites
  <2> QED BY <1>2, <1>6, <2>1, <2>3 DEF Atomic!vars, AsReads, AsWrites
<1>10. CASE Rename(w)
  <2>1. /\ files[temp[w]] \in Contents /\ Whole(files[temp[w]])
        /\ files[temp[w]].data = data[w]
    BY <1>5, <1>10 DEF Rename, TempsAreOwned, TypeInv, Names
  <2>2. files'[Dest] = files[temp[w]]
    BY <1>5, <1>10 DEF Rename, TypeInv, Names
  <2>3. AsData(files[Dest])' = data[w]
    <3>1. AsData(files[temp[w]]) = data[w]
      BY <2>1, AsDataOf
    <3>2. AsData(files[Dest])' = AsData(files[temp[w]])
      BY <2>2 DEF AsData, Whole
    <3> QED BY <3>1, <3>2
  <2>4. AsWrite(w) = [at |-> "begun", value |-> data[w]]
    BY <1>10, WriteIs DEF Rename
  <2>5. AsWrite(w)' = [at |-> "ok", value |-> NoFile]
    <3>1. pc'[w] = "idle" /\ written'[w] = "ok"
      BY <1>10 DEF Rename, WriterReturns, TypeInv
    <3> QED BY <3>1 DEF AsWrite
  <2>6. Atomic!Replace(w)
    BY <1>2, <1>4, <2>3, <2>4, <2>5 DEF Atomic!Replace, AsReads, AsWrites
  <2> QED BY <2>6
<1> QED BY <1>7, <1>8, <1>9, <1>10 DEF WriterStep

\* After a crash everybody is at rest.
LEMMA CrashIsCrash == ASSUME IInv, IInv', Crash PROVE Atomic!Crash
<1>1. AsData(files[Dest])' = AsData(files[Dest])
  BY DEF Crash, AsData, Whole
<1>2. \A w \in Writers : AsWrite(w)' = Atomic!Rest(NoFile)
  BY DEF Crash, AsWrite, Atomic!Rest
<1>3. \A r \in Readers : AsRead(r)' = Atomic!Rest(NoFile)
  <2>1. None \notin Contents
    BY ErrorsAreNot DEF None, Error
  <2> QED BY <2>1 DEF Crash, AsRead, Atomic!Rest
<1> QED BY <1>1, <1>2, <1>3 DEF Atomic!Crash

\* Every step is a step of AtomicFile or a stutter.
LEMMA StepAtomic == IInv /\ IInv' /\ [Next]_vars => [Atomic!Next]_Atomic!vars
<1> SUFFICES ASSUME IInv, IInv', [Next]_vars PROVE [Atomic!Next]_Atomic!vars
  OBVIOUS
<1>1. CASE UNCHANGED vars
  BY <1>1 DEF vars, writerVars, readerVars, Atomic!vars, AsData, Whole, AsWrite, AsRead
<1>2. CASE Next
  BY <1>2, WriterSteps, ReaderSteps, CrashIsCrash DEF Next, Atomic!Next
<1> QED BY <1>1, <1>2

\* However the calls of WriteImportantFile() and ReadFile() overlap, fail and
\* crash, each acts on the file at one moment.
THEOREM ImplementsAtomic == Spec => ImplementsAtomicFile
BY InitAtomic, StepAtomic, Invariant, PTL DEF Spec, ImplementsAtomicFile, Atomic!Spec
=============================================================================
