--------------------------- MODULE ImportantFile -----------------------------
(***************************************************************************)
(* WriteImportantFile() and ReadFile() of rst/files on one file, with any  *)
(* number of concurrent calls, every file operation failing at will and    *)
(* the application crashing at any moment.  Each call into the C library   *)
(* or the file system is one action; rename() is atomic, as POSIX has it.  *)
(* A call of fwrite() leaves any part of the data on the disk until        *)
(* fclose() has succeeded.                                                 *)
(***************************************************************************)
EXTENDS Integers, ErrorInfo

CONSTANTS Writers, Readers,
          Data,          \* what can be written
          Size,          \* Data -> Nat, its length in bytes
          Temps,         \* the names filename + Guid() + ".tmp"
          Dest,          \* the name of the important file
          ChunkSize,     \* kDefaultChunkSize
          NoFile         \* not a content: there is no file of that name

Names == Temps \cup {Dest}

\* A file holds the first `length' bytes of something that was written.
Contents == UNION {[data : {d}, length : 0..Size[d]] : d \in Data}

ASSUME FileAssumption ==
  /\ Size \in [Data -> Nat]
  /\ ChunkSize \in Nat \ {0}
  /\ Dest \notin Temps
  /\ NoFile \notin Contents
  /\ NoFile \notin Data

Whole(c) == c.length = Size[c.data]

VARIABLES
  files,    \* the directory: what each name refers to
  pc,       \* where each writer is in WriteImportantFile()
  data,     \* its argument
  temp,     \* its temp_filename
  written,  \* the Status the writer's last call has returned
  at,       \* where each reader is in ReadFile()
  file,     \* the open file of each reader
  chunk,    \* its chunk_size
  got,      \* its bytes_read_so_far
  eof,      \* feof(file)
  outcome   \* what the reader's last call has returned: an error or the string

writerVars == <<pc, data, temp, written>>
readerVars == <<at, file, chunk, got, eof, outcome>>
vars == <<files, writerVars, readerVars>>

Errors == {"FileOpenError", "FileError"}

None == [error |-> "none"]

Error(e) == [error |-> e]

NoWrite == [w \in Writers |-> NoFile]

Init ==
  /\ files = [n \in Names |-> NoFile]
  /\ pc = [w \in Writers |-> "idle"]
  /\ data = NoWrite
  /\ temp = NoWrite
  /\ written = [w \in Writers |-> "none"]
  /\ at = [r \in Readers |-> "idle"]
  /\ file = [r \in Readers |-> NoFile]
  /\ chunk = [r \in Readers |-> 0]
  /\ got = [r \in Readers |-> 0]
  /\ eof = [r \in Readers |-> FALSE]
  /\ outcome = [r \in Readers |-> None]

-----------------------------------------------------------------------------
(* WriteFile() on the temporary file.                                      *)

WriterReturns(w, result) ==
  /\ pc' = [pc EXCEPT ![w] = "idle"]
  /\ written' = [written EXCEPT ![w] = result]
  /\ data' = [data EXCEPT ![w] = NoFile]
  /\ temp' = [temp EXCEPT ![w] = NoFile]
  /\ UNCHANGED readerVars

\* Mutant: fopen() with "wb", which empties a file that exists.
OpenAnyway(w) ==
  /\ pc[w] = "idle"
  /\ \E d \in Data, t \in Temps :
        /\ files' = [files EXCEPT ![t] = [data |-> d, length |-> 0]]
        /\ data' = [data EXCEPT ![w] = d]
        /\ temp' = [temp EXCEPT ![w] = t]
  /\ pc' = [pc EXCEPT ![w] = "opened"]
  /\ written' = [written EXCEPT ![w] = "none"]
  /\ UNCHANGED readerVars

\* fopen() with "wxb": the file must not exist, whoever made up the same name.
Open(w) ==
  /\ pc[w] = "idle"
  /\ \E d \in Data, t \in Temps :
        /\ files[t] = NoFile
        /\ files' = [files EXCEPT ![t] = [data |-> d, length |-> 0]]
        /\ data' = [data EXCEPT ![w] = d]
        /\ temp' = [temp EXCEPT ![w] = t]
  /\ pc' = [pc EXCEPT ![w] = "opened"]
  /\ written' = [written EXCEPT ![w] = "none"]
  /\ UNCHANGED readerVars

OpenFails(w) ==
  /\ pc[w] = "idle"
  /\ WriterReturns(w, "FileOpenError")
  /\ UNCHANGED files

\* The data written so far, any part of which may be on the disk.
OnDisk(w, n) ==
  files' = [files EXCEPT ![temp[w]] = [data |-> data[w], length |-> n]]

Write(w) ==
  /\ pc[w] = "opened"
  /\ \E n \in 0..Size[data[w]] : OnDisk(w, n)
  /\ pc' = [pc EXCEPT ![w] = "filled"]
  /\ UNCHANGED <<data, temp, written, readerVars>>

\* fwrite() comes short: the deleter closes the file, which stays behind.
WriteFails(w) ==
  /\ pc[w] = "opened"
  /\ \E n \in 0..Size[data[w]] : OnDisk(w, n)
  /\ WriterReturns(w, "FileError")

\* Mutant: the file is renamed while it is still open.
CloseLater(w) ==
  /\ pc[w] = "filled"
  /\ pc' = [pc EXCEPT ![w] = "closed"]
  /\ UNCHANGED <<files, data, temp, written, readerVars>>

\* fclose() flushes the rest.
Close(w) ==
  /\ pc[w] = "filled"
  /\ OnDisk(w, Size[data[w]])
  /\ pc' = [pc EXCEPT ![w] = "closed"]
  /\ UNCHANGED <<data, temp, written, readerVars>>

CloseFails(w) ==
  /\ pc[w] = "filled"
  /\ \E n \in 0..Size[data[w]] : OnDisk(w, n)
  /\ WriterReturns(w, "FileError")

(* The rest of WriteImportantFile().                                       *)

\* Mutant: the file is copied.
RenameByCopy(w) ==
  /\ pc[w] = "closed"
  /\ files' = [files EXCEPT ![Dest] = files[temp[w]]]
  /\ WriterReturns(w, "ok")

Rename(w) ==
  /\ pc[w] = "closed"
  /\ files' = [files EXCEPT ![Dest] = files[temp[w]], ![temp[w]] = NoFile]
  /\ WriterReturns(w, "ok")

RenameFails(w) ==
  /\ pc[w] = "closed"
  /\ pc' = [pc EXCEPT ![w] = "stuck"]
  /\ UNCHANGED <<files, data, temp, written, readerVars>>

\* The result of the removal is ignored.
Remove(w) ==
  /\ pc[w] = "stuck"
  /\ \/ files' = [files EXCEPT ![temp[w]] = NoFile]
     \/ UNCHANGED files
  /\ WriterReturns(w, "FileError")

-----------------------------------------------------------------------------
(* ReadFile()                                                              *)

ReaderReturns(r, result) ==
  /\ at' = [at EXCEPT ![r] = "idle"]
  /\ outcome' = [outcome EXCEPT ![r] = result]
  /\ file' = [file EXCEPT ![r] = NoFile]
  /\ chunk' = [chunk EXCEPT ![r] = 0]
  /\ got' = [got EXCEPT ![r] = 0]
  /\ eof' = [eof EXCEPT ![r] = FALSE]
  /\ UNCHANGED <<files, writerVars>>

\* The open file remains what it is when the name is given to another one.
OpenToRead(r) ==
  /\ at[r] = "idle"
  /\ files[Dest] # NoFile
  /\ file' = [file EXCEPT ![r] = files[Dest]]
  /\ at' = [at EXCEPT ![r] = "sizing"]
  /\ outcome' = [outcome EXCEPT ![r] = None]
  /\ UNCHANGED <<files, writerVars, chunk, got, eof>>

OpenToReadFails(r) ==
  /\ at[r] = "idle"
  /\ ReaderReturns(r, Error("FileOpenError"))

\* GetFileSize() asks for the size of whatever has the name by now, or fails;
\* one more byte than that is to be read at once.
TakeSize(r) ==
  /\ at[r] = "sizing"
  /\ \E size \in {ChunkSize} \cup
                 (IF files[Dest] = NoFile THEN {} ELSE {files[Dest].length}) :
        chunk' = [chunk EXCEPT ![r] = IF size = 0 THEN ChunkSize + 1 ELSE size + 1]
  /\ at' = [at EXCEPT ![r] = "reading"]
  /\ UNCHANGED <<files, writerVars, file, got, eof, outcome>>

\* What one fread() of the reader can get.
Pass(r) == LET rest == file[r].length - got[r]
           IN IF rest < chunk[r] THEN rest ELSE chunk[r]

\* Mutant: one pass is taken to be enough.
ReadPassOnce(r) ==
  /\ at[r] = "reading" /\ ~eof[r]
  /\ got' = [got EXCEPT ![r] = @ + Pass(r)]
  /\ eof' = [eof EXCEPT ![r] = TRUE]
  /\ UNCHANGED <<files, writerVars, at, file, chunk, outcome>>

\* One pass of the loop; fread() meets the end of the file when it comes short.
ReadPass(r) ==
  /\ at[r] = "reading" /\ ~eof[r]
  /\ got' = [got EXCEPT ![r] = @ + Pass(r)]
  /\ eof' = [eof EXCEPT ![r] = Pass(r) < chunk[r]]
  /\ UNCHANGED <<files, writerVars, at, file, chunk, outcome>>

\* The loop is over: fclose(), and the string is cut to what was read.
ReadEnds(r) ==
  /\ at[r] = "reading" /\ eof[r]
  /\ ReaderReturns(r, [file[r] EXCEPT !.length = got[r]])

\* ferror(file), or fclose() fails.
ReadFails(r) ==
  /\ at[r] = "reading"
  /\ ReaderReturns(r, Error("FileError"))

-----------------------------------------------------------------------------

\* The application crashes: what is not on the disk is lost, and so is the
\* name of each temporary file.
Crash ==
  /\ pc' = [w \in Writers |-> "idle"]
  /\ data' = NoWrite
  /\ temp' = NoWrite
  /\ written' = [w \in Writers |-> "none"]
  /\ at' = [r \in Readers |-> "idle"]
  /\ file' = [r \in Readers |-> NoFile]
  /\ chunk' = [r \in Readers |-> 0]
  /\ got' = [r \in Readers |-> 0]
  /\ eof' = [r \in Readers |-> FALSE]
  /\ outcome' = [r \in Readers |-> None]
  /\ UNCHANGED files

WriterStep(w) ==
  \/ Open(w) \/ OpenFails(w)
  \/ Write(w) \/ WriteFails(w)
  \/ Close(w) \/ CloseFails(w)
  \/ Rename(w) \/ RenameFails(w) \/ Remove(w)

ReaderStep(r) ==
  \/ OpenToRead(r) \/ OpenToReadFails(r)
  \/ TakeSize(r)
  \/ ReadPass(r) \/ ReadEnds(r) \/ ReadFails(r)

Next ==
  \/ \E w \in Writers : WriterStep(w)
  \/ \E r \in Readers : ReaderStep(r)
  \/ Crash

Spec == Init /\ [][Next]_vars

-----------------------------------------------------------------------------

TypeInv ==
  /\ files \in [Names -> Contents \cup {NoFile}]
  /\ pc \in [Writers -> {"idle", "opened", "filled", "closed", "stuck"}]
  /\ data \in [Writers -> Data \cup {NoFile}]
  /\ temp \in [Writers -> Temps \cup {NoFile}]
  /\ written \in [Writers -> {"none", "ok"} \cup Errors]
  /\ at \in [Readers -> {"idle", "sizing", "reading"}]
  /\ file \in [Readers -> Contents \cup {NoFile}]
  /\ chunk \in [Readers -> Nat]
  /\ got \in [Readers -> Nat]
  /\ eof \in [Readers -> BOOLEAN]
  /\ outcome \in [Readers -> [error : {"none"} \cup Errors] \cup Contents]

\* "ensures that the file won't be corrupted by application crash during
\* write": whatever fails, whoever crashes and however many calls overlap, the
\* file is absent or holds all of what one call wrote.
DestinationIsWhole == files[Dest] # NoFile => Whole(files[Dest])

\* Two calls in progress never write to the same temporary file, even if their
\* names collide, and the name of each still refers to what it has written.
TempsAreOwned ==
  \A w \in Writers : pc[w] # "idle" =>
    /\ files[temp[w]] # NoFile
    /\ files[temp[w]].data = data[w]
    /\ pc[w] \in {"closed", "stuck"} => Whole(files[temp[w]])
    /\ \A v \in Writers \ {w} : pc[v] # "idle" => temp[v] # temp[w]

\* A temporary file that no call works on.
Abandoned(t) ==
  files[t] # NoFile /\ \A w \in Writers : pc[w] # "idle" => temp[w] # t

\* What a caller asks: status.err() and dyn_cast<T>(status.GetError()).
FailedAs(w, T) == written[w] \in Errors /\ dyn_cast(T, written[w]) # {}

\* A call leaves its temporary file behind only when it reports a FileError that
\* is no FileOpenError, or crashes: who is told that the file could not be opened
\* has nothing to clean up, and neither has who is told that all went well.
OnlyFailuresLeaveFiles ==
  [][\A t \in Temps : Abandoned(t)' /\ ~Abandoned(t) =>
       \/ Crash
       \/ \E w \in Writers : /\ pc[w] # "idle" /\ temp[w] = t
                             /\ FailedAs(w, "FileError")'
                             /\ ~FailedAs(w, "FileOpenError")']_vars

\* Each call acts as if it happened at one moment: the file is replaced exactly
\* by the calls that report success, and a successful read returns all of what
\* the file contained at one moment of the call, even if the file is replaced
\* while it is being read.
AsData(c) == CASE c = NoFile -> NoFile
               [] c # NoFile /\ Whole(c) -> c.data
               [] OTHER -> c

AsWrite(w) ==
  IF pc[w] # "idle" THEN [at |-> "begun", value |-> data[w]]
  ELSE CASE written[w] = "none" -> [at |-> "rest", value |-> NoFile]
         [] written[w] = "ok" -> [at |-> "ok", value |-> NoFile]
         [] OTHER -> [at |-> "error", value |-> NoFile]

AsRead(r) ==
  IF at[r] # "idle" THEN [at |-> "begun", value |-> AsData(file[r])]
  ELSE CASE outcome[r] = None -> [at |-> "rest", value |-> NoFile]
         [] outcome[r] \in Contents -> [at |-> "ok", value |-> AsData(outcome[r])]
         [] OTHER -> [at |-> "error", value |-> NoFile]

Atomic == INSTANCE AtomicFile WITH
  NoData <- NoFile,
  content <- AsData(files[Dest]),
  write <- [w \in Writers |-> AsWrite(w)],
  read <- [r \in Readers |-> AsRead(r)]

ImplementsAtomicFile == Atomic!Spec
=============================================================================
