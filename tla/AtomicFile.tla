----------------------------- MODULE AtomicFile ------------------------------
(***************************************************************************)
(* What rst::WriteImportantFile() and rst::ReadFile() promise about one    *)
(* file: its content is replaced at one moment of a call that reports      *)
(* success, and at none of a call that reports an error, and a successful  *)
(* read gives what the file contained at one moment of the call.  The      *)
(* application may crash at any time.                                      *)
(***************************************************************************)
CONSTANTS Writers, Readers,
          Data,         \* what can be written
          NoData        \* stands for the content of a file that is absent

VARIABLES content,      \* of the file
          write,        \* how far each call of a writer is
          read          \* how far each call of a reader is, and what it saw

vars == <<content, write, read>>

Rest(value) == [at |-> "rest", value |-> value]

AtRest(call) == call.at \in {"rest", "ok", "error"}

Init ==
  /\ content = NoData
  /\ write = [w \in Writers |-> Rest(NoData)]
  /\ read = [r \in Readers |-> Rest(NoData)]

BeginWrite(w) ==
  /\ AtRest(write[w])
  /\ \E d \in Data : write' = [write EXCEPT ![w] = [at |-> "begun", value |-> d]]
  /\ UNCHANGED <<content, read>>

Replace(w) ==
  /\ write[w].at = "begun"
  /\ content' = write[w].value
  /\ write' = [write EXCEPT ![w] = [at |-> "ok", value |-> NoData]]
  /\ UNCHANGED read

FailWrite(w) ==
  /\ write[w].at = "begun" \/ AtRest(write[w])
  /\ write' = [write EXCEPT ![w] = [at |-> "error", value |-> NoData]]
  /\ UNCHANGED <<content, read>>

Look(r) ==
  /\ AtRest(read[r])
  /\ content # NoData
  /\ read' = [read EXCEPT ![r] = [at |-> "begun", value |-> content]]
  /\ UNCHANGED <<content, write>>

EndRead(r) ==
  /\ read[r].at = "begun"
  /\ read' = [read EXCEPT ![r].at = "ok"]
  /\ UNCHANGED <<content, write>>

FailRead(r) ==
  /\ read' = [read EXCEPT ![r] = [at |-> "error", value |-> NoData]]
  /\ UNCHANGED <<content, write>>

Crash ==
  /\ write' = [w \in Writers |-> Rest(NoData)]
  /\ read' = [r \in Readers |-> Rest(NoData)]
  /\ UNCHANGED content

Next ==
  \/ \E w \in Writers : BeginWrite(w) \/ Replace(w) \/ FailWrite(w)
  \/ \E r \in Readers : Look(r) \/ EndRead(r) \/ FailRead(r)
  \/ Crash

Spec == Init /\ [][Next]_vars
=============================================================================
